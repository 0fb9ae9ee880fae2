------------------------------ MODULE Toplevel ------------------------------
(***************************************************************************)
(* sc_main of the virtual platform: options, report configuration, set-up  *)
(* of the FPGA, construction of the platform, start of the RTL simulator,  *)
(* simulation, and clean-up of the FPGA.                                   *)
(*                                                                         *)
(* The arguments are chosen where they are parsed.  Calls of the AWS       *)
(* library and of the operating system are external and may fail.          *)
(***************************************************************************)
EXTENDS Integers, Sequences, FiniteSets, LogConfig

CONSTANTS
  MaxEntry,    \* bound: entries of the SC_LOG string
  MAX_NUM_INT  \* MSI descriptors of a slot, 16 in the code

VARIABLES
  stage,       \* where sc_main stands
  aws,         \* built with AWS_FPGA_PRESENT
  fpga,        \* aws_fpga_en
  backend,     \* what implements memory and NVDLA
  config,      \* sc_report_handler
  entries,     \* ghost: the entries parsed so far
  throws,      \* whether an error of the FPGA bridge throws
  image,       \* external: what the slot holds: none loaded, the ids asked for,
               \* other ids, or those asked for in a slot that is not loaded
  bars,        \* the PCI BARs attached
  todo,        \* BARs still to attach or to detach, in order
  fds,         \* pci_msi_fd: "new", "open" or "none"
  mask,        \* the bits of msi_mask
  built,       \* the parts constructed
  mutex,       \* the parts that take dmi_mtx around their accesses
  dmi,         \* dmi_en
  simv,        \* the forked process: none, the RTL simulator, or another platform
  failed,      \* ghost: some external call has reported an error
  stuck,       \* ghost: BARs whose detaching failed
  ended,       \* whether sc_start has returned
  code         \* exit code

topVars == <<stage, aws, fpga, backend, config, entries, throws, image, bars, todo,
             fds, mask, built, mutex, dmi, simv, failed, stuck, ended, code>>

Ints == 0 .. MAX_NUM_INT - 1
Bars == <<"ocl", "bar1", "pcis">>
NoMsi == [i \in Ints |-> "new"]
logVars == <<config, entries, throws>>
slotVars == <<image, bars, todo, fds, mask, stuck>>
platformVars == <<backend, built, mutex, dmi, simv>>

Init ==
  /\ stage = "args" /\ aws \in BOOLEAN /\ fpga = FALSE /\ backend = "none"
  /\ config = DefaultConfig /\ entries = <<>> /\ throws = TRUE
  /\ image = "unknown"
  /\ bars = {} /\ todo = <<>> /\ fds = NoMsi /\ mask = {}
  /\ built = {} /\ mutex = {} /\ dmi = FALSE /\ simv = "none"
  /\ failed = FALSE /\ stuck = {} /\ ended = FALSE /\ code = "none"

Exit(c) == stage' = "exit" /\ code' = c

(* exit(EXIT_FAILURE): whatever was acquired is left to the system.        *)
Fail ==
  /\ Exit("failure")
  /\ failed' = TRUE
  /\ UNCHANGED <<aws, fpga, logVars, slotVars, platformVars, ended>>

Goto(s) == stage' = s /\ UNCHANGED <<code, failed>>

------------------------------------------------------------------------------

(* parseArgs() and the Lua configuration file.                             *)
Help ==
  /\ stage = "args"
  /\ Exit("success")
  /\ UNCHANGED <<aws, fpga, logVars, slotVars, platformVars, failed, ended>>

BadArgs == stage \in {"args", "options"} /\ Fail

ArgsGiven ==
  /\ stage = "args"
  /\ Goto("log")
  /\ UNCHANGED <<aws, fpga, logVars, slotVars, platformVars, ended>>

(* log_parse() of SC_LOG or of the option -s, one entry at a time.         *)
LogEntry(e) ==
  /\ stage = "log" /\ Len(entries) < MaxEntry
  /\ config' = ParseEntry(config, e)
  /\ entries' = Append(entries, e)
  /\ UNCHANGED <<stage, aws, fpga, throws, slotVars, platformVars, failed, ended, code>>

(* The rest of the run needs of the configuration only whether errors      *)
(* throw.  The default log file is set if log_parse() ran and named none.  *)
LogDone ==
  /\ stage = "log"
  /\ throws' = ErrorThrows(config)
  /\ config' = DefaultConfig
  /\ entries' = <<>>
  /\ Goto(IF aws THEN "fpga" ELSE "options")
  /\ UNCHANGED <<aws, fpga, slotVars, platformVars, ended>>

------------------------------------------------------------------------------

(* parseFpgaArgs()                                                         *)
NoFpga ==
  /\ stage = "fpga"
  /\ Goto("options")
  /\ UNCHANGED <<aws, fpga, logVars, slotVars, platformVars, ended>>

(* aws_fpga_init(): the log and the PCI library.                           *)
FpgaLibrary ==
  /\ stage = "fpga"
  /\ fpga' = TRUE
  /\ image' \in {"expected", "other", "none"}
  /\ mask' \in SUBSET Ints
  /\ Goto("afi")
  /\ UNCHANGED <<aws, logVars, bars, todo, fds, stuck, platformVars, ended>>

(* Any of the calls of aws_fpga_init() and check_afi_ready() fails.        *)
FpgaFails == stage \in {"fpga", "afi", "rescan", "afi_again", "attach", "msi"} /\ Fail

(* Mutant: an image with other ids is accepted.                            *)
AcceptsAny == image # "none"

(* The slot is loaded, and with the ids that were asked for; after a       *)
(* rescan only the ids are compared again.                                 *)
Accepts == image = "expected" \/ (stage = "afi_again" /\ image = "unloaded")

BeginAttach == todo' = Bars /\ Goto("attach")

(* check_afi_ready(): another image is given a second chance by a rescan.  *)
AfiReady ==
  /\ stage \in {"afi", "afi_again"} /\ Accepts
  /\ BeginAttach
  /\ UNCHANGED <<aws, fpga, logVars, image, bars, fds, mask, stuck, platformVars, ended>>

AfiOther ==
  /\ stage = "afi" /\ ~Accepts /\ image = "other"
  /\ Goto("rescan")
  /\ UNCHANGED <<aws, fpga, logVars, slotVars, platformVars, ended>>

Rescan ==
  /\ stage = "rescan"
  /\ image' \in {"expected", "unloaded", "other"}
  /\ Goto("afi_again")
  /\ UNCHANGED <<aws, fpga, logVars, bars, todo, fds, mask, stuck, platformVars, ended>>

AfiRefused ==
  /\ ~Accepts
  /\ stage = "afi_again" \/ (stage = "afi" /\ image = "none")
  /\ Fail

Attach ==
  /\ stage = "attach"
  /\ bars' = bars \union {Head(todo)}
  /\ todo' = Tail(todo)
  /\ Goto(IF Tail(todo) = <<>> THEN "msi" ELSE "attach")
  /\ UNCHANGED <<aws, fpga, logVars, image, fds, mask, stuck, platformVars, ended>>

(* The loop over the MSI descriptors.                                      *)
OpenMsi ==
  /\ stage = "msi"
  /\ \E i \in Ints :
       /\ fds[i] = "new" /\ \A j \in 0 .. i - 1 : fds[j] # "new"
       /\ fds' = [fds EXCEPT ![i] = IF i \in mask THEN "open" ELSE "none"]
  /\ UNCHANGED <<stage, aws, fpga, logVars, image, bars, todo, mask, stuck,
                 platformVars, failed, ended, code>>

FpgaDone ==
  /\ stage = "msi" /\ \A i \in Ints : fds[i] # "new"
  /\ Goto("options")
  /\ UNCHANGED <<aws, fpga, logVars, slotVars, platformVars, ended>>

------------------------------------------------------------------------------

(* parseCosimArgs(), parseSimvArgs(), parsePlusArgsArgs(), parseDmiArgs(): *)
(* the FPGA build does not use --cosim.                                    *)
Options ==
  /\ stage = "options"
  /\ dmi' \in BOOLEAN
  /\ backend' \in IF fpga THEN {"fpga"} ELSE IF aws THEN {"cmod"} ELSE {"cosim", "cmod"}
  /\ Goto("cpu")
  /\ UNCHANGED <<aws, fpga, logVars, slotVars, built, mutex, simv, ended>>

Build(part, users, next) ==
  /\ built' = built \union {part}
  /\ mutex' = mutex \union users
  /\ Goto(next)
  /\ UNCHANGED <<aws, fpga, logVars, slotVars, backend, dmi, simv, ended>>

BuildCpu == stage = "cpu" /\ Build("cpu", IF dmi THEN {"cpu"} ELSE {}, "ram")

BuildRam == stage = "ram" /\ Build("ram", {}, "nvdla")

(* The C model shares the mutex with the CPU; memory and NVDLA of the      *)
(* co-simulation open their databases here.                                *)
BuildNvdla ==
  /\ stage = "nvdla"
  /\ Build("nvdla", IF dmi /\ backend = "cmod" THEN {"nvdla"} ELSE {},
           IF backend = "cosim" THEN "exec" ELSE "start")

(* exec_simv() after binding.  A child that cannot change to the directory *)
(* or execute the shell returns from exec_simv() and starts the simulation *)
(* of its copy of the platform.                                            *)
ExecSimv ==
  /\ stage = "exec"
  /\ simv' \in {"rtl", "platform"}
  /\ Goto("start")
  /\ UNCHANGED <<aws, fpga, logVars, slotVars, backend, built, mutex, dmi, ended>>

(* The path does not exist, or fork() fails.                               *)
ExecFails == stage = "exec" /\ Fail

ScStart ==
  /\ stage = "start"
  /\ Goto("run")
  /\ UNCHANGED <<aws, fpga, logVars, slotVars, platformVars, ended>>

------------------------------------------------------------------------------

(* sc_start() returns.                                                     *)
ScStop ==
  /\ stage = "run"
  /\ ended' = TRUE
  /\ todo' = IF fpga THEN Bars ELSE <<>>
  /\ Goto("detach")
  /\ UNCHANGED <<aws, fpga, logVars, image, bars, fds, mask, stuck, platformVars>>

(* An exception leaves the simulation, and sc_main, without a clean-up.    *)
ScAbort == stage = "run" /\ Fail

(* Mutant: the first failure ends the clean-up.                            *)
DetachStops(fails) ==
  /\ stage = "detach" /\ todo # <<>>
  /\ bars' = IF fails THEN bars ELSE bars \ {Head(todo)}
  /\ stuck' = IF fails THEN stuck \union {Head(todo)} ELSE stuck
  /\ failed' = (failed \/ fails)
  /\ todo' = IF fails THEN <<>> ELSE Tail(todo)
  /\ UNCHANGED <<stage, aws, fpga, logVars, image, fds, mask, platformVars, ended, code>>

(* aws_fpga_cleanup(): a BAR that cannot be detached is noted, and the     *)
(* clean-up goes on.                                                       *)
Detach(fails) ==
  /\ stage = "detach" /\ todo # <<>>
  /\ bars' = IF fails THEN bars ELSE bars \ {Head(todo)}
  /\ stuck' = IF fails THEN stuck \union {Head(todo)} ELSE stuck
  /\ failed' = (failed \/ fails)
  /\ todo' = Tail(todo)
  /\ UNCHANGED <<stage, aws, fpga, logVars, image, fds, mask, platformVars, ended, code>>

(* What sc_main returns.                                                   *)
Result == IF stuck # {} THEN "failure" ELSE "success"

(* The descriptors are closed, and sc_main returns.                        *)
CloseMsi ==
  /\ stage = "detach" /\ todo = <<>>
  /\ fds' = [i \in Ints |-> IF fds[i] = "open" THEN "none" ELSE fds[i]]
  /\ Exit(Result)
  /\ UNCHANGED <<aws, fpga, logVars, image, bars, todo, mask, stuck, platformVars,
                 failed, ended>>

Startup ==
  \/ Help \/ BadArgs \/ ArgsGiven \/ LogDone \/ \E e \in Entries : LogEntry(e)
  \/ NoFpga \/ FpgaLibrary \/ FpgaFails \/ AfiReady \/ AfiOther \/ Rescan \/ AfiRefused
  \/ Attach \/ OpenMsi \/ FpgaDone
  \/ Options \/ BuildCpu \/ BuildRam \/ BuildNvdla \/ ExecSimv \/ ExecFails \/ ScStart
Cleanup == CloseMsi \/ \E fails \in BOOLEAN : Detach(fails)

------------------------------------------------------------------------------

(* The last entry that names "bus" and a level decides, without one the    *)
(* last that names a level for every message.                              *)
Sets(e, msg) ==
  e.colon /\ Len(e.info) = 2 /\ e.info[1] = msg /\ e.info[2] \in Levels
Last(msg) == CHOOSE n \in DOMAIN entries :
  Sets(entries[n], msg) /\ \A m \in n + 1 .. Len(entries) : ~Sets(entries[m], msg)
Decides(msg) ==
  LET level == entries[Last(msg)].info[2] IN level \in {"info", "warning", "error", "enable"}
IsSet(msg) == \E n \in DOMAIN entries : Sets(entries[n], msg)

(* Errors of the bridge throw, after any sequence of entries, as the last  *)
(* valid entry for it says, and set_sc_report() never comes to the places  *)
(* where it prints "Should not come here" (log.cpp:69, 142).               *)
LogAsConfigured ==
  stage = "log" =>
    /\ ~config.astray
    /\ ErrorThrows(config) =
         IF IsSet("bus") THEN Decides("bus") ELSE IF IsSet(Empty) THEN Decides(Empty) ELSE TRUE

(* A simulation that runs has all it was promised: every part, an image    *)
(* with the ids that were asked for (though, after a rescan, perhaps not   *)
(* loaded) with all BARs and the descriptors of the mask, the mutex on     *)
(* both sides of the memory or on none, and an RTL simulator that was      *)
(* started after the databases were created.                               *)
Wired ==
  /\ stage = "run" => built = {"cpu", "ram", "nvdla"}
  /\ stage = "run" /\ fpga =>
       /\ image \in {"expected", "unloaded"} /\ bars = {"ocl", "bar1", "pcis"}
       /\ \A i \in Ints : fds[i] = "open" <=> i \in mask
  /\ stage = "run" /\ backend = "cmod" => ("cpu" \in mutex <=> "nvdla" \in mutex)
  /\ stage = "run" /\ backend = "cosim" => simv # "none"
  /\ simv # "none" => {"ram", "nvdla"} \subseteq built

(* After a simulation that returned, nothing of the FPGA is held except    *)
(* the BARs that refused to be detached; and the platform reports success  *)
(* only if no call it made failed, whichever it was.                       *)
CleanedUp ==
  /\ code # "none" /\ ended => bars = stuck /\ \A i \in Ints : fds[i] # "open"
  /\ code = "success" => ~failed
=============================================================================
