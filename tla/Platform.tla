------------------------------ MODULE Platform ------------------------------
(***************************************************************************)
(* The virtual platform from start to end: sc_main (Toplevel), and, while  *)
(* the simulation runs on an FPGA, the accesses of the CPU through the bus *)
(* bridge (Gsgp2fpga), or, with the C model, the NVDLA (NvdlaTop).         *)
(* Whether an error throws is what the report configuration made of it,    *)
(* and who takes the mutex is what sc_main has given it to.                *)
(***************************************************************************)
EXTENDS Gsgp2fpga, Sequences

CONSTANTS MaxEntry, MAX_NUM_INT

ASSUME EntryAssumption == MaxEntry \in Nat /\ MAX_NUM_INT \in Nat \ {0}

VARIABLES stage, aws, fpga, backend, config, entries, image, bars, todo, fds, mask,
          built, mutex, dmi, simv, failed, stuck, ended, code,
          owner, turn, at, txn, cpu, host, gp, written, coreIrq, update, changed,
          line, gave

Top == INSTANCE Toplevel
Cmod == INSTANCE NvdlaTop

busVars == <<pc, cmd, addr, size, len, index, ret, good, bad, report>>
hostVars == <<stage, aws, fpga, backend, config, entries, image, bars, todo, fds, mask,
              built, mutex, dmi, simv, failed, stuck, ended, code>>
cmodVars == <<owner, turn, at, txn, cpu, host, gp, written, coreIrq, update,
              changed, line, gave>>
platform == <<vars, hostVars, cmodVars>>

PlatformInit == Init /\ Top!Init /\ Cmod!Init

(* The bridge runs an access to its end before the kernel gets control, so *)
(* the simulation ends between two accesses; the bridge keeps no state.    *)
(* With the C model it ends when no process holds the kernel.              *)
Stop ==
  /\ pc = "idle" /\ turn = "none"
  /\ Top!ScStop
  /\ len' = 0 /\ index' = 0 /\ size' = 0 /\ addr' = 0 /\ cmd' = "WR"
  /\ ret' = TRUE /\ good' = {} /\ bad' = {} /\ report' = "none"
  /\ UNCHANGED pc
  /\ Cmod!Over

(* External: a report that throws may end the simulation.                  *)
Abort ==
  /\ throws
  /\ (pc = "idle" /\ report # "none") \/ Cmod!Reporting
  /\ Top!ScAbort
  /\ Cmod!Over
  /\ UNCHANGED busVars

Access == stage = "run" /\ fpga /\ Next /\ UNCHANGED <<hostVars, cmodVars>>

OnCmod == stage = "run" /\ backend = "cmod" /\ UNCHANGED <<vars, hostVars>>
NvdlaStep == OnCmod /\ Cmod!Next

Exited == stage = "exit" /\ UNCHANGED platform

PlatformNext ==
  \/ (Top!Startup \/ Top!Cleanup) /\ UNCHANGED <<busVars, cmodVars>>
  \/ Stop \/ Abort \/ Access \/ NvdlaStep \/ Exited

PlatformSpec == PlatformInit /\ [][PlatformNext]_platform

(* The kernel runs every process that is ready in each delta cycle, though *)
(* others may hold it in between; the bus and the core answer; the CPU     *)
(* leaves its direct accesses, and a waiting thread gets the mutex.        *)
PlatformFair ==
  /\ PlatformSpec
  /\ \A p \in Cmod!Port : SF_platform(OnCmod /\ Cmod!PortStep(p))
  /\ SF_platform(OnCmod /\ Cmod!HostStep)
  /\ SF_platform(OnCmod /\ Cmod!Update)
  /\ SF_platform(OnCmod /\ Cmod!Transport)
  /\ WF_platform(OnCmod /\ Cmod!CpuUnlock)

------------------------------------------------------------------------------

(* The report configuration: errors of the bridge throw as the last valid  *)
(* SC_LOG entry for it says, and log.cpp never prints "Should not come     *)
(* here".                                                                  *)
LogAsConfigured == Top!LogAsConfigured

(* sc_main starts a simulation only with every part, device and database   *)
(* it was promised, whatever aws_fpga_init() met on its way.               *)
Wired == Top!Wired

(* aws_fpga_cleanup() leaves only what refused to be detached, and sc_main *)
(* returns 0 only if no call failed, those of the clean-up included.       *)
CleanedUp == Top!CleanedUp

(* The memory is shared under the mutex that sc_main has handed out.       *)
DmiExclusive == Cmod!DmiExclusive

(* Each access of the NVDLA, or to it, gets the status of its own request. *)
OwnStatus == [][stage' = "run" => Cmod!OwnStatus]_platform

(* Nobody waits for ever while the simulation runs: accesses of the memory *)
(* ports and of the CPU return although one waits for a mutex and the      *)
(* kernel with it, and the CPU's line comes to the level the core wrote    *)
(* last.                                                                   *)
Served ==
  /\ \A p \in Cmod!Port : (at[p] # "idle") ~> (at[p] = "idle")
  /\ (cpu = "bus") ~> (cpu # "bus")
  /\ (line # written) ~> (line = written)
=============================================================================
