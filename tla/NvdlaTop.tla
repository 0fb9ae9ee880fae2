------------------------------ MODULE NvdlaTop ------------------------------
(***************************************************************************)
(* The C model of the NVDLA in the platform (NVDLA_top): the CPU's         *)
(* accesses to its registers (Gsgp2tlm), its two memory ports (Tlm2gsgp),  *)
(* and its interrupt (IrqAdaptor); and the mutex that keeps the direct     *)
(* accesses of the CPU to the memory apart from those of the first port.   *)
(*                                                                         *)
(* The SystemC kernel is one thread: a process that waits for the mutex    *)
(* stops all of them, and only Transact() of a port and b_transport() of   *)
(* the core let others run.  The core calls a port for one access at a     *)
(* time.  The core, the bus and the CPU are external.                      *)
(***************************************************************************)
EXTENDS Integers

VARIABLES
  mutex,       \* the parts that were given dmi_mtx
  owner,       \* dmi_mtx: the thread that holds it
  turn,        \* the process that holds the kernel, or "none"
  at,          \* where b_transport of each port stands
  txn,         \* the transaction of each port: whose request, and the status, "old"
               \* for whatever an earlier access has left there
  cpu,         \* the CPU: computing, in a direct or in a bus access
  host,        \* where Gsgp2tlm::b_transact stands
  gp,          \* response status of m_tlm_gp
  written,     \* interrupt: what the core has written to m_coreIrq
  coreIrq,     \* its value, from the next update on
  update,      \* an update of it is requested
  changed,     \* IrqAdaptor::transport is to be woken
  line,        \* the level transmitted to the CPU
  gave         \* ghost: the status that the request under way was given

portVars == <<at, txn>>
hostVars == <<host, gp>>
irqVars == <<written, coreIrq, update, changed, line>>

Port == {"mc", "cv"}
Status == {"ok", "error"}
NoTxn == [req |-> "none", status |-> "old"]

(* The constructors of the adaptors, and NVDLA_top::NVDLA_top() with them. *)
PortInit == at = [p \in Port |-> "idle"] /\ txn = [p \in Port |-> NoTxn]
HostInit == host = "idle" /\ gp = "incomplete"
IrqInit ==
  written = FALSE /\ coreIrq = FALSE /\ line = FALSE /\ update = FALSE /\ changed = FALSE
Init ==
  /\ PortInit /\ HostInit /\ IrqInit
  /\ owner = "none" /\ turn = "none" /\ cpu = "run"
  /\ gave = [p \in Port \union {"host"} |-> "incomplete"]

(* Mutant: the adaptors share a transaction.                               *)
TransactionShared(p) == "mc"

(* Tlm2gsgp::end_of_elaboration() creates one for each adaptor.            *)
TransactionOf(p) == p

(* NVDLA_top::set_dmi_mutex() passes the mutex to the first port.          *)
is_dmi(p) == p = "mc" /\ "nvdla" \in mutex

Txn(p) == txn[TransactionOf(p)]
Go(p, l) == at' = [at EXCEPT ![p] = l]

------------------------------------------------------------------------------

(* Tlm2gsgp::b_transport(): the request goes into the transaction.         *)
Request(p) ==
  /\ turn = "none" /\ at[p] = "idle"
  /\ txn' = [txn EXCEPT ![TransactionOf(p)].req = p]
  /\ \/ is_dmi(p) /\ turn' = p /\ Go(p, "lock")
     \/ ~is_dmi(p) /\ UNCHANGED turn /\ Go(p, "bus")
  /\ UNCHANGED <<owner, cpu, hostVars, irqVars, gave>>

(* Mutant: the mutex is not waited for.                                    *)
LockAnyway(p) ==
  /\ at[p] = "lock"
  /\ owner' = "kernel"
  /\ turn' = "none"
  /\ Go(p, "bus")
  /\ UNCHANGED <<txn, cpu, hostVars, irqVars, gave>>

(* pthread_mutex_lock() and the call of Transact().                        *)
Lock(p) ==
  /\ at[p] = "lock" /\ owner = "none"
  /\ owner' = "kernel"
  /\ turn' = "none"
  /\ Go(p, "bus")
  /\ UNCHANGED <<txn, cpu, hostVars, irqVars, gave>>

(* The bus, external, carries out what the transaction says; its target    *)
(* sets the status, or leaves it alone.                                    *)
Transact(p) ==
  /\ turn = "none" /\ at[p] = "bus"
  /\ \/ UNCHANGED <<txn, gave>>
     \/ \E s \in Status :
          /\ txn' = [txn EXCEPT ![TransactionOf(p)].status = s]
          /\ gave' = [gave EXCEPT ![Txn(p).req] = s]
  /\ Go(p, "served")
  /\ UNCHANGED <<owner, turn, cpu, hostVars, irqVars>>

(* Transact() returns: the mutex is given back, the caller is told, and an *)
(* error is reported.  b_transport() never resets the status: if the       *)
(* target has not set it, that of an earlier access decides.  From here on *)
(* it is an old one itself.                                                *)
Return(p) ==
  /\ turn = "none" /\ at[p] = "served"
  /\ owner' = IF is_dmi(p) THEN "none" ELSE owner
  /\ \/ Txn(p).status \in {"ok", "old"} /\ Go(p, "idle") /\ UNCHANGED turn
     \/ Txn(p).status \in {"error", "old"} /\ Go(p, "report") /\ turn' = p
  /\ txn' = [txn EXCEPT ![TransactionOf(p)] = NoTxn]
  /\ gave' = [gave EXCEPT ![p] = "incomplete"]
  /\ UNCHANGED <<cpu, hostVars, irqVars>>

Reported(p) ==
  /\ at[p] = "report"
  /\ turn' = "none"
  /\ Go(p, "idle")
  /\ UNCHANGED <<owner, txn, cpu, hostVars, irqVars, gave>>

PortStep(p) == Lock(p) \/ Transact(p) \/ Return(p) \/ Reported(p)

------------------------------------------------------------------------------

(* The CPU, external: a direct access under the mutex it was given, or an  *)
(* access over the bus, which a process of the kernel carries out.         *)
CpuLock ==
  /\ cpu = "run" /\ "cpu" \in mutex /\ owner = "none"
  /\ owner' = "cpu" /\ cpu' = "direct"
  /\ UNCHANGED <<turn, portVars, hostVars, irqVars, gave>>

CpuUnlock ==
  /\ cpu = "direct"
  /\ owner' = "none" /\ cpu' = "run"
  /\ UNCHANGED <<turn, portVars, hostVars, irqVars, gave>>

CpuAccess ==
  /\ cpu = "run"
  /\ cpu' = "bus"
  /\ UNCHANGED <<owner, turn, portVars, hostVars, irqVars, gave>>

(* Gsgp2tlm::b_transact(): the payload for the core.                       *)
HostCall ==
  /\ turn = "none" /\ cpu = "bus" /\ host = "idle"
  /\ gp' = "incomplete"
  /\ host' = "core"
  /\ UNCHANGED <<owner, turn, portVars, cpu, irqVars, gave>>

(* The core, external, answers.                                            *)
HostServe ==
  /\ turn = "none" /\ host = "core"
  /\ \E s \in Status : gp' = s /\ gave' = [gave EXCEPT !["host"] = s]
  /\ host' = "served"
  /\ UNCHANGED <<owner, turn, portVars, cpu, irqVars>>

(* The CPU's transaction gets the status, and an error is reported.        *)
HostReturn ==
  /\ turn = "none" /\ host = "served"
  /\ \/ gp = "ok" /\ host' = "idle" /\ cpu' = "run" /\ UNCHANGED turn
     \/ gp # "ok" /\ host' = "report" /\ turn' = "host" /\ UNCHANGED cpu
  /\ gp' = "incomplete" /\ gave' = [gave EXCEPT !["host"] = "incomplete"]
  /\ UNCHANGED <<owner, portVars, irqVars>>

HostReported ==
  /\ host = "report"
  /\ host' = "idle" /\ cpu' = "run" /\ turn' = "none"
  /\ UNCHANGED <<owner, portVars, gp, irqVars, gave>>

HostStep == HostCall \/ HostServe \/ HostReturn \/ HostReported

------------------------------------------------------------------------------

(* The core writes its interrupt to m_coreIrq, an sc_buffer ...            *)
CoreWrites(v) ==
  /\ turn = "none"
  /\ written' = v /\ update' = TRUE
  /\ UNCHANGED <<owner, turn, portVars, cpu, hostVars, coreIrq, changed, line, gave>>

(* Mutant: the adaptor waits for rising edges.                             *)
WakesOnRise(v) == v

(* IrqAdaptor::IrqAdaptor() makes transport sensitive to every write.      *)
Wakes(v) == TRUE

(* ... which takes the value in the update phase, when the processes that  *)
(* were to run have run, and notifies.                                     *)
Update ==
  /\ turn = "none" /\ update /\ ~changed
  /\ coreIrq' = written /\ update' = FALSE /\ changed' = Wakes(written)
  /\ UNCHANGED <<owner, turn, portVars, cpu, hostVars, written, line, gave>>

(* IrqAdaptor::transport() wakes up, reads the level and transmits it.     *)
Transport ==
  /\ turn = "none" /\ changed
  /\ line' = coreIrq /\ changed' = FALSE
  /\ UNCHANGED <<owner, turn, portVars, cpu, hostVars, written, coreIrq, update, gave>>

IrqStep == Update \/ Transport

(* The error of an access is being reported.                               *)
Reporting == host = "report" \/ \E p \in Port : at[p] = "report"

(* The simulation is over; the state no longer matters.                    *)
Over ==
  /\ at' = [p \in Port |-> "idle"] /\ txn' = [p \in Port |-> NoTxn]
  /\ host' = "idle" /\ gp' = "incomplete"
  /\ written' = FALSE /\ coreIrq' = FALSE /\ line' = FALSE
  /\ update' = FALSE /\ changed' = FALSE
  /\ owner' = "none" /\ turn' = "none" /\ cpu' = "run"
  /\ gave' = [p \in Port \union {"host"} |-> "incomplete"]

Next ==
  \/ \E p \in Port : Request(p) \/ PortStep(p)
  \/ CpuLock \/ CpuUnlock \/ CpuAccess \/ HostStep
  \/ IrqStep \/ \E v \in BOOLEAN : CoreWrites(v)

------------------------------------------------------------------------------

(* While an access of the first port is on the bus the CPU does not touch  *)
(* the memory directly, though it runs in a thread of its own and accesses *)
(* suspend, fail and are reported in between; and the mutex is held by     *)
(* nobody who has no access under way.                                     *)
DmiExclusive ==
  /\ ~(cpu = "direct" /\ is_dmi("mc") /\ at["mc"] \in {"bus", "served"})
  /\ owner = "kernel" => at["mc"] \in {"bus", "served"}
  /\ owner = "cpu" => cpu = "direct"

(* An access that was answered is reported as failed exactly if its own    *)
(* request has failed, although the status is read back from an object     *)
(* that is reused and never reset, after a suspension in which accesses of *)
(* the other port and of the CPU run.  One whose target sets no status     *)
(* gets that of an earlier access.                                         *)
OwnStatus ==
  /\ \A p \in Port : at[p] = "served" /\ at'[p] # "served" /\ gave[p] \in Status =>
       (at'[p] = "report" <=> gave[p] = "error")
  /\ host = "served" /\ host' # "served" => (host' = "report" <=> gave["host"] = "error")
=============================================================================
