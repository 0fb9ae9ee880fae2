------------------------------ MODULE Msi2gss ------------------------------
(***************************************************************************)
(* The interrupt line of the NVDLA on the FPGA (Msi2gss): an operating     *)
(* system thread polls the MSI file descriptor and notifies a thread-safe  *)
(* event; the SystemC kernel turns the request into an event notification  *)
(* in its update phase; transport wakes up, reads the status register,     *)
(* acknowledges it and drives the line of the CPU.                         *)
(*                                                                         *)
(* FPGA, driver and kernel are external.  transport does not suspend       *)
(* between its wake-up and its next wait, so that the kernel has its       *)
(* update phases while transport waits, and one before transport starts:   *)
(* the polling thread runs from the constructor on.                        *)
(***************************************************************************)
EXTENDS Integers, FiniteSets

CONSTANT MaxRaise    \* bound: interrupts the FPGA raises

ASSUME RaiseAssumption == MaxRaise \in Nat \ {0}

Raised == 1 .. MaxRaise

VARIABLES
  status,      \* the bit of this interrupt in CFG_INT_STATUS
  msi,         \* an MSI is on its way to the driver
  readable,    \* poll would report POLLIN
  requested,   \* async_request_update pending
  at,          \* where transport stands
  value,       \* the bit in the local variable status, and so in data.value
  raises,      \* interrupts raised so far
  open,        \* ghost: raised, and no line change sent that tells the CPU
  exposed,     \* ghost: to be acknowledged after a peek that has not seen them
  unheard      \* ghost: the bit is set although its wake-up has been used up

ghosts == <<open, exposed, unheard>>
msiVars == <<status, msi, readable, requested, at, value, raises, ghosts>>

(* The local variable is not initialised.                                  *)
MsiInit ==
  /\ status = FALSE /\ msi = FALSE /\ readable = FALSE /\ requested = FALSE
  /\ at = "start" /\ value \in BOOLEAN
  /\ raises = 0 /\ open = {} /\ exposed = {} /\ unheard = FALSE

NoWakeup == ~msi /\ ~readable

------------------------------------------------------------------------------

(* External: the FPGA sets the bit and sends an MSI; it may or may not     *)
(* send another one for a bit that is already set.  One that an earlier    *)
(* run has left at work does so before the platform has started.           *)
Raise ==
  /\ raises < MaxRaise
  /\ raises' = raises + 1
  /\ status' = TRUE
  /\ msi' \in IF status THEN {msi, TRUE} ELSE {TRUE}
  /\ open' = open \union {raises + 1}
  /\ exposed' = IF at = "ack" /\ ~value THEN exposed \union {raises + 1} ELSE exposed
  /\ UNCHANGED <<readable, requested, at, value, unheard>>

MsiArrives ==
  /\ msi
  /\ msi' = FALSE /\ readable' = TRUE
  /\ UNCHANGED <<status, requested, at, value, raises, ghosts>>

(* PollMsi notifies the event.  It never reads the descriptor, so whether  *)
(* it stays readable is up to the driver.  Requests do not add up.         *)
PollMsi ==
  /\ readable
  /\ requested' = TRUE
  /\ readable' \in BOOLEAN
  /\ UNCHANGED <<status, msi, at, value, raises, ghosts>>

(* Mutant: the update phase may run while transport is not waiting, which  *)
(* loses the notification.                                                 *)
UpdateAnytime ==
  /\ requested
  /\ requested' = FALSE
  /\ at' = IF at = "wait" THEN "peek" ELSE at
  /\ UNCHANGED <<status, msi, readable, value, raises, ghosts>>

(* The kernel's first update phase comes before transport has run: nobody  *)
(* waits for the event yet.                                                *)
UpdateEarly ==
  /\ requested /\ at = "start"
  /\ requested' = FALSE
  /\ unheard' = (status /\ NoWakeup)
  /\ UNCHANGED <<status, msi, readable, at, value, raises, open, exposed>>

MsiStart ==
  /\ at = "start"
  /\ at' = "wait"
  /\ UNCHANGED <<status, msi, readable, requested, value, raises, ghosts>>

(* The update phase notifies the event, and transport runs.                *)
Update ==
  /\ requested /\ at = "wait"
  /\ requested' = FALSE
  /\ at' = "peek"
  /\ UNCHANGED <<status, msi, readable, value, raises, ghosts>>

(* The peek; nobody asks whether it has failed, and then the bit is the    *)
(* one it was before.                                                      *)
Peek ==
  /\ at = "peek"
  /\ \/ value' = status /\ UNCHANGED exposed
     \/ UNCHANGED value /\ exposed' = IF value THEN exposed ELSE open
  /\ at' = "ack"
  /\ UNCHANGED <<status, msi, readable, requested, raises, open, unheard>>

(* Writing one to the bit clears it, whatever was read; or the poke fails, *)
(* and it stays as it is.                                                  *)
Ack ==
  /\ at = "ack"
  /\ \/ status' = FALSE /\ unheard' = FALSE
     \/ UNCHANGED status /\ unheard' = (status /\ NoWakeup /\ ~requested)
  /\ at' = "send"
  /\ UNCHANGED <<msi, readable, requested, value, raises, open, exposed>>

(* Mutant: the interrupt is acknowledged again when it has been sent.      *)
MsiTransmitAcks ==
  /\ at = "send"
  /\ open' = IF value THEN {} ELSE open
  /\ exposed' = exposed \intersect open'
  /\ status' = FALSE
  /\ at' = "wait"
  /\ UNCHANGED <<msi, readable, requested, value, raises, unheard>>

(* A line driven with the bit set tells the CPU of everything raised by    *)
(* then, but not of what is raised later.                                  *)
MsiTransmit ==
  /\ at = "send"
  /\ open' = IF value THEN {} ELSE open
  /\ exposed' = exposed \intersect open'
  /\ at' = "wait"
  /\ UNCHANGED <<status, msi, readable, requested, value, raises, unheard>>

MsiTransport == MsiStart \/ Update \/ Peek \/ Ack \/ MsiTransmit

MsiNext == Raise \/ MsiArrives \/ PollMsi \/ UpdateEarly \/ MsiTransport

(* MSIs arrive, and both threads keep running; the FPGA need not raise     *)
(* another interrupt.                                                      *)
MsiSpec ==
  /\ MsiInit /\ [][MsiNext]_msiVars
  /\ WF_msiVars(MsiArrives) /\ WF_msiVars(PollMsi) /\ WF_msiVars(MsiTransport)

------------------------------------------------------------------------------

(* No wake-up is lost: while the status bit is set and transport is not    *)
(* about to read or clear it, something is under way that wakes it, though *)
(* MSIs, polls and update requests are all merged.  The exceptions are a   *)
(* notification before transport has started, and an acknowledgement that  *)
(* has failed; they last until the next one that succeeds.                 *)
WakeupPending ==
  status /\ at \in {"start", "wait", "send"} => msi \/ readable \/ requested \/ unheard

(* An interrupt that the CPU has not been told of is still in the status   *)
(* register or in the line change being sent.  The exceptions are those    *)
(* that the acknowledgement clears unseen: raised between a peek that read *)
(* 0 (after a wake-up for an interrupt already handled) and its            *)
(* acknowledgement, or before a peek that failed after one that read 0.    *)
StillPending ==
  open \ exposed # {} => status \/ (value /\ at \in {"ack", "send"})

(* Every interrupt without such an accident goes through poll, update and  *)
(* transport to the CPU.                                                   *)
Delivered ==
  \A n \in Raised : (n \in open \ exposed) ~> (n \notin open \ exposed \/ unheard)
=============================================================================
