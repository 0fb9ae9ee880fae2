---------------------------- MODULE PlatformProofs ----------------------------
(***************************************************************************)
(* Proofs about the platform from start to end: sc_main with the set-up    *)
(* and clean-up of the FPGA, the accesses of the FPGA bridge, and the      *)
(* accesses of and to the C model, for any number of log entries, MSI      *)
(* descriptors, addresses and lengths.                                     *)
(***************************************************************************)
EXTENDS Platform, TLAPS

AllBars == {"ocl", "bar1", "pcis"}
Early == {"args", "log", "fpga"}
Loading == {"afi", "rescan", "afi_again"}
Building == {"options", "cpu", "ram", "nvdla", "exec", "start", "run"}

(* What sc_main and the calls of the AWS library have in their variables.  *)
HostTypes ==
  /\ stage \in Early \union Loading \union {"attach", "msi"} \union Building
               \union {"detach", "exit"}
  /\ aws \in BOOLEAN /\ fpga \in BOOLEAN /\ dmi \in BOOLEAN
  /\ failed \in BOOLEAN /\ ended \in BOOLEAN
  /\ backend \in {"none", "fpga", "cosim", "cmod"}
  /\ simv \in {"none", "rtl", "platform"} /\ code \in {"none", "success", "failure"}
  /\ mask \subseteq Top!Ints /\ fds \in [Top!Ints -> {"new", "open", "none"}]
  /\ bars \subseteq AllBars /\ stuck \subseteq AllBars

(* A call that fails ends sc_main, except in the clean-up.                 *)
NoFailure ==
  /\ stage \notin {"detach", "exit"} => stuck = {} /\ ~failed /\ ~ended /\ code = "none"
  /\ stage = "detach" => code = "none" /\ (failed <=> stuck # {})
  /\ stage = "exit" => code \in {"success", "failure"} /\ (code = "success" => ~failed)

(* The BARs still to attach, in order.                                     *)
Attaching ==
  \/ todo = <<"ocl", "bar1", "pcis">> /\ bars = {}
  \/ todo = <<"bar1", "pcis">> /\ bars = {"ocl"}
  \/ todo = <<"pcis">> /\ bars = {"ocl", "bar1"}

(* The BARs still to detach; of the others those that refused are left.    *)
Detaching ==
  \/ todo = <<"ocl", "bar1", "pcis">> /\ stuck = {} /\ bars = AllBars
  \/ todo = <<"bar1", "pcis">> /\ stuck \subseteq {"ocl"} /\ bars = stuck \union {"bar1", "pcis"}
  \/ todo = <<"pcis">> /\ stuck \subseteq {"ocl", "bar1"} /\ bars = stuck \union {"pcis"}
  \/ todo = <<>> /\ bars = stuck

Opened == \A n \in Top!Ints : fds[n] = "open" <=> n \in mask
NoneOpen == \A n \in Top!Ints : fds[n] # "open"

(* The FPGA slot: what aws_fpga_init() has acquired at each stage.         *)
SlotInv ==
  /\ stage \in Early => ~fpga
  /\ stage \in Loading \union {"attach", "msi"} => fpga
  /\ stage \in Early \union Loading => bars = {} /\ fds = Top!NoMsi
  /\ stage = "attach" => image \in {"expected", "unloaded"} /\ Attaching /\ fds = Top!NoMsi
  /\ stage = "msi" =>
       /\ image \in {"expected", "unloaded"} /\ bars = AllBars
       /\ \A n \in Top!Ints : fds[n] # "new" => (fds[n] = "open" <=> n \in mask)
  /\ stage \in Building /\ fpga => image \in {"expected", "unloaded"} /\ bars = AllBars /\ Opened
  /\ stage \in Building /\ ~fpga => bars = {} /\ NoneOpen
  /\ stage = "detach" /\ fpga => Detaching
  /\ stage = "detach" /\ ~fpga => todo = <<>> /\ bars = {} /\ stuck = {} /\ NoneOpen
  /\ stage = "exit" /\ ended => bars = stuck /\ NoneOpen

(* The parts of the platform, and who has been given the mutex.            *)
BuiltInv ==
  /\ stage \in Early \union Loading \union {"attach", "msi", "options", "cpu"} =>
       built = {} /\ mutex = {}
  /\ stage = "ram" => built = {"cpu"}
  /\ stage = "nvdla" => built = {"cpu", "ram"}
  /\ stage \in {"exec", "start", "run"} => built = {"cpu", "ram", "nvdla"}
  /\ stage \in {"ram", "nvdla"} => mutex = IF dmi THEN {"cpu"} ELSE {}
  /\ stage \in {"exec", "start", "run"} /\ backend = "cmod" =>
       ("cpu" \in mutex <=> "nvdla" \in mutex)
  /\ stage \in Early \union Loading \union {"attach", "msi", "options", "cpu", "ram", "nvdla", "exec"}
       => simv = "none"
  /\ stage \in {"start", "run"} /\ backend = "cosim" => simv # "none"
  /\ simv # "none" => {"ram", "nvdla"} \subseteq built

HostInv == HostTypes /\ NoFailure /\ SlotInv /\ BuiltInv

------------------------------------------------------------------------------

(* The bridge is at rest except while the simulation runs, and after it    *)
(* was left by an exception.                                               *)
BusQuiet == stage \notin {"run", "exit"} =>
  /\ pc = "idle" /\ size = 0 /\ len = 0 /\ index = 0
  /\ ret = TRUE /\ good = {} /\ bad = {} /\ report = "none"

(* Offset, remaining length and combined return code stay in step.         *)
InStep ==
  /\ pc \in {"words", "report"} =>
       /\ size > 0 /\ ~(Misaligned(addr, size) /\ throws)
       /\ ret <=> good = {}
       /\ report \in {"none", "alignment"}
       /\ cmd = "WR" => good \union bad \subseteq Whole
  /\ pc = "words" => index + len = size /\ index % 4 = 0
  /\ pc = "words" /\ ~Misaligned(addr, size) /\ ~Truncated =>
       good \union bad = addr .. (addr + index - 1)
  /\ pc = "report" /\ ~Misaligned(addr, size) /\ ~Truncated /\ size \notin {2, 3} =>
       good \union bad = Whole

BusInv == TypeOK /\ BusQuiet /\ InStep /\ ReportedIfNoneReached /\ TriesAll

------------------------------------------------------------------------------

CmodTypes ==
  /\ at \in [Cmod!Port -> {"idle", "lock", "bus", "served", "report"}]
  /\ txn \in [Cmod!Port -> [req : Cmod!Port \union {"none"},
                            status : Cmod!Status \union {"old"}]]
  /\ gave \in [Cmod!Port \union {"host"} -> Cmod!Status \union {"incomplete"}]
  /\ owner \in {"none", "kernel", "cpu"} /\ cpu \in {"run", "direct", "bus"}
  /\ gp \in Cmod!Status \union {"incomplete"} /\ host \in {"idle", "core", "served", "report"}

(* The kernel holds the mutex while, and only while, the first port has an *)
(* access on the bus, and the CPU while it accesses the memory directly,   *)
(* which it does not do while it waits for the core.                       *)
MutexInv ==
  /\ owner = "kernel" <=> Cmod!is_dmi("mc") /\ at["mc"] \in {"bus", "served"}
  /\ owner = "cpu" <=> cpu = "direct"
  /\ host # "idle" => cpu = "bus"
  /\ \A p \in Cmod!Port : at[p] = "lock" => Cmod!is_dmi(p)

(* A status that was set for a request is still that of its transaction    *)
(* when the bus returns.                                                   *)
StatusInv ==
  /\ \A p \in Cmod!Port : at[p] \in {"lock", "bus"} => txn[p].req = p
  /\ \A p \in Cmod!Port : at[p] # "served" => gave[p] = "incomplete"
  /\ \A p \in Cmod!Port : at[p] = "served" /\ gave[p] \in Cmod!Status =>
                            txn[p].status = gave[p]
  /\ host = "served" => gave["host"] \in Cmod!Status /\ gp = gave["host"]

CmodInv ==
  /\ CmodTypes /\ MutexInv /\ StatusInv
  /\ stage # "run" => Cmod!Init

------------------------------------------------------------------------------

(* Every step of sc_main, of the set-up and of the clean-up of the FPGA.   *)
HostStep ==
  Top!Startup \/ Top!Cleanup \/ Top!ScStop \/ Top!ScAbort

(* The BARs one after the other.                                           *)
LEMMA BarOrder ==
  /\ Head(<<"ocl", "bar1", "pcis">>) = "ocl" /\ Tail(<<"ocl", "bar1", "pcis">>) = <<"bar1", "pcis">>
  /\ Head(<<"bar1", "pcis">>) = "bar1" /\ Tail(<<"bar1", "pcis">>) = <<"pcis">>
  /\ Head(<<"pcis">>) = "pcis" /\ Tail(<<"pcis">>) = <<>>
  /\ <<"ocl", "bar1", "pcis">> # <<>> /\ <<"bar1", "pcis">> # <<>> /\ <<"pcis">> # <<>>
OBVIOUS

(* Each stage of sc_main leaves what the next ones rely on.                *)
LEMMA HostStepInv ==
  ASSUME HostInv, HostStep
  PROVE  HostInv'
<1> USE DEF HostInv, Early, Loading, Building, AllBars, Top!Goto, Top!Exit, Top!Fail,
            Top!logVars, Top!slotVars, Top!platformVars
<1>1. CASE Top!Help
  <2>1. HostTypes'
    BY <1>1 DEF Top!Help, HostTypes
  <2>2. NoFailure'
    BY <1>1 DEF Top!Help, HostTypes, NoFailure
  <2>3. SlotInv'
    BY <1>1 DEF Top!Help, HostTypes, NoFailure, SlotInv, Opened, NoneOpen, Attaching, Detaching, Top!NoMsi
  <2>4. BuiltInv'
    BY <1>1 DEF Top!Help, HostTypes, BuiltInv
  <2> QED BY <2>1, <2>2, <2>3, <2>4
<1>2. CASE Top!BadArgs
  <2>1. HostTypes'
    BY <1>2 DEF Top!BadArgs, HostTypes
  <2>2. NoFailure'
    BY <1>2 DEF Top!BadArgs, HostTypes, NoFailure
  <2>3. SlotInv'
    BY <1>2 DEF Top!BadArgs, HostTypes, NoFailure, SlotInv, Opened, NoneOpen, Attaching, Detaching, Top!NoMsi
  <2>4. BuiltInv'
    BY <1>2 DEF Top!BadArgs, HostTypes, BuiltInv
  <2> QED BY <2>1, <2>2, <2>3, <2>4
<1>3. CASE Top!ArgsGiven
  <2>1. HostTypes'
    BY <1>3 DEF Top!ArgsGiven, HostTypes
  <2>2. NoFailure'
    BY <1>3 DEF Top!ArgsGiven, HostTypes, NoFailure
  <2>3. SlotInv'
    BY <1>3 DEF Top!ArgsGiven, HostTypes, NoFailure, SlotInv, Opened, NoneOpen, Attaching, Detaching, Top!NoMsi
  <2>4. BuiltInv'
    BY <1>3 DEF Top!ArgsGiven, HostTypes, BuiltInv
  <2> QED BY <2>1, <2>2, <2>3, <2>4
<1>4. CASE Top!LogDone
  <2>1. HostTypes'
    BY <1>4 DEF Top!LogDone, HostTypes
  <2>2. NoFailure'
    BY <1>4 DEF Top!LogDone, HostTypes, NoFailure
  <2>3. SlotInv'
    BY <1>4 DEF Top!LogDone, HostTypes, NoFailure, SlotInv, Opened, NoneOpen, Attaching, Detaching, Top!NoMsi
  <2>4. BuiltInv'
    BY <1>4 DEF Top!LogDone, HostTypes, BuiltInv
  <2> QED BY <2>1, <2>2, <2>3, <2>4
<1>5. ASSUME NEW e \in Top!Entries, Top!LogEntry(e) PROVE HostInv'
  <2>1. HostTypes'
    BY <1>5 DEF Top!LogEntry, HostTypes
  <2>2. NoFailure'
    BY <1>5 DEF Top!LogEntry, HostTypes, NoFailure
  <2>3. SlotInv'
    BY <1>5 DEF Top!LogEntry, HostTypes, NoFailure, SlotInv, Opened, NoneOpen, Attaching, Detaching, Top!NoMsi
  <2>4. BuiltInv'
    BY <1>5 DEF Top!LogEntry, HostTypes, BuiltInv
  <2> QED BY <2>1, <2>2, <2>3, <2>4
<1>6. CASE Top!NoFpga
  <2>1. HostTypes'
    BY <1>6 DEF Top!NoFpga, HostTypes
  <2>2. NoFailure'
    BY <1>6 DEF Top!NoFpga, HostTypes, NoFailure
  <2>3. SlotInv'
    BY <1>6 DEF Top!NoFpga, HostTypes, NoFailure, SlotInv, Opened, NoneOpen, Attaching, Detaching, Top!NoMsi
  <2>4. BuiltInv'
    BY <1>6 DEF Top!NoFpga, HostTypes, BuiltInv
  <2> QED BY <2>1, <2>2, <2>3, <2>4
<1>7. CASE Top!FpgaLibrary
  <2>1. HostTypes'
    BY <1>7 DEF Top!FpgaLibrary, HostTypes
  <2>2. NoFailure'
    BY <1>7 DEF Top!FpgaLibrary, HostTypes, NoFailure
  <2>3. SlotInv'
    BY <1>7 DEF Top!FpgaLibrary, HostTypes, NoFailure, SlotInv, Opened, NoneOpen, Attaching, Detaching, Top!NoMsi
  <2>4. BuiltInv'
    BY <1>7 DEF Top!FpgaLibrary, HostTypes, BuiltInv
  <2> QED BY <2>1, <2>2, <2>3, <2>4
<1>8. CASE Top!FpgaFails
  <2>1. HostTypes'
    BY <1>8 DEF Top!FpgaFails, HostTypes
  <2>2. NoFailure'
    BY <1>8 DEF Top!FpgaFails, HostTypes, NoFailure
  <2>3. SlotInv'
    BY <1>8 DEF Top!FpgaFails, HostTypes, NoFailure, SlotInv, Opened, NoneOpen, Attaching, Detaching, Top!NoMsi
  <2>4. BuiltInv'
    BY <1>8 DEF Top!FpgaFails, HostTypes, BuiltInv
  <2> QED BY <2>1, <2>2, <2>3, <2>4
<1>9. CASE Top!AfiReady
  <2>1. HostTypes'
    BY <1>9 DEF Top!AfiReady, Top!BeginAttach, Top!Accepts, Top!Bars, HostTypes
  <2>2. NoFailure'
    BY <1>9 DEF Top!AfiReady, Top!BeginAttach, Top!Accepts, Top!Bars, HostTypes, NoFailure
  <2>3. SlotInv'
    BY <1>9 DEF Top!AfiReady, Top!BeginAttach, Top!Accepts, Top!Bars, HostTypes, NoFailure, SlotInv, Opened, NoneOpen, Attaching, Detaching, Top!NoMsi
  <2>4. BuiltInv'
    BY <1>9 DEF Top!AfiReady, Top!BeginAttach, Top!Accepts, Top!Bars, HostTypes, BuiltInv
  <2> QED BY <2>1, <2>2, <2>3, <2>4
<1>10. CASE Top!AfiOther
  <2>1. HostTypes'
    BY <1>10 DEF Top!AfiOther, Top!Accepts, HostTypes
  <2>2. NoFailure'
    BY <1>10 DEF Top!AfiOther, Top!Accepts, HostTypes, NoFailure
  <2>3. SlotInv'
    BY <1>10 DEF Top!AfiOther, Top!Accepts, HostTypes, NoFailure, SlotInv, Opened, NoneOpen, Attaching, Detaching, Top!NoMsi
  <2>4. BuiltInv'
    BY <1>10 DEF Top!AfiOther, Top!Accepts, HostTypes, BuiltInv
  <2> QED BY <2>1, <2>2, <2>3, <2>4
<1>11. CASE Top!Rescan
  <2>1. HostTypes'
    BY <1>11 DEF Top!Rescan, HostTypes
  <2>2. NoFailure'
    BY <1>11 DEF Top!Rescan, HostTypes, NoFailure
  <2>3. SlotInv'
    BY <1>11 DEF Top!Rescan, HostTypes, NoFailure, SlotInv, Opened, NoneOpen, Attaching, Detaching, Top!NoMsi
  <2>4. BuiltInv'
    BY <1>11 DEF Top!Rescan, HostTypes, BuiltInv
  <2> QED BY <2>1, <2>2, <2>3, <2>4
<1>12. CASE Top!AfiRefused
  <2>1. HostTypes'
    BY <1>12 DEF Top!AfiRefused, Top!Accepts, HostTypes
  <2>2. NoFailure'
    BY <1>12 DEF Top!AfiRefused, Top!Accepts, HostTypes, NoFailure
  <2>3. SlotInv'
    BY <1>12 DEF Top!AfiRefused, Top!Accepts, HostTypes, NoFailure, SlotInv, Opened, NoneOpen, Attaching, Detaching, Top!NoMsi
  <2>4. BuiltInv'
    BY <1>12 DEF Top!AfiRefused, Top!Accepts, HostTypes, BuiltInv
  <2> QED BY <2>1, <2>2, <2>3, <2>4
<1>13. CASE Top!Attach
  <2>1. /\ stage = "attach" /\ Attaching /\ image \in {"expected", "unloaded"} /\ fds = Top!NoMsi
        /\ bars' = bars \union {Head(todo)} /\ todo' = Tail(todo)
        /\ stage' = IF Tail(todo) = <<>> THEN "msi" ELSE "attach"
        /\ UNCHANGED <<aws, fpga, backend, dmi, failed, ended, simv, code, mask, fds, stuck,
                       image, built, mutex>>
    BY <1>13 DEF Top!Attach, SlotInv
  <2>2. \/ bars' = {"ocl"} /\ todo' = <<"bar1", "pcis">> /\ stage' = "attach"
        \/ bars' = {"ocl", "bar1"} /\ todo' = <<"pcis">> /\ stage' = "attach"
        \/ bars' = AllBars /\ stage' = "msi"
    BY <2>1, BarOrder DEF Attaching
  <2>3. HostTypes'
    BY <2>1, <2>2 DEF HostTypes
  <2>4. NoFailure'
    BY <2>1, <2>2 DEF NoFailure
  <2>5. SlotInv'
    BY <2>1, <2>2 DEF SlotInv, Attaching, Top!NoMsi
  <2>6. BuiltInv'
    BY <2>1, <2>2 DEF BuiltInv
  <2> QED BY <2>3, <2>4, <2>5, <2>6
<1>14. CASE Top!OpenMsi
  <2>1. HostTypes'
    BY <1>14 DEF Top!OpenMsi, HostTypes
  <2>2. NoFailure'
    BY <1>14 DEF Top!OpenMsi, HostTypes, NoFailure
  <2>3. SlotInv'
    BY <1>14 DEF Top!OpenMsi, HostTypes, NoFailure, SlotInv, Opened, NoneOpen, Attaching, Detaching, Top!NoMsi
  <2>4. BuiltInv'
    BY <1>14 DEF Top!OpenMsi, HostTypes, BuiltInv
  <2> QED BY <2>1, <2>2, <2>3, <2>4
<1>15. CASE Top!FpgaDone
  <2>1. HostTypes'
    BY <1>15 DEF Top!FpgaDone, HostTypes
  <2>2. NoFailure'
    BY <1>15 DEF Top!FpgaDone, HostTypes, NoFailure
  <2>3. SlotInv'
    BY <1>15 DEF Top!FpgaDone, HostTypes, NoFailure, SlotInv, Opened, NoneOpen, Attaching, Detaching, Top!NoMsi
  <2>4. BuiltInv'
    BY <1>15 DEF Top!FpgaDone, HostTypes, BuiltInv
  <2> QED BY <2>1, <2>2, <2>3, <2>4
<1>16. CASE Top!Options
  <2>1. HostTypes'
    BY <1>16 DEF Top!Options, HostTypes
  <2>2. NoFailure'
    BY <1>16 DEF Top!Options, HostTypes, NoFailure
  <2>3. SlotInv'
    BY <1>16 DEF Top!Options, HostTypes, NoFailure, SlotInv, Opened, NoneOpen, Attaching, Detaching, Top!NoMsi
  <2>4. BuiltInv'
    BY <1>16 DEF Top!Options, HostTypes, BuiltInv
  <2> QED BY <2>1, <2>2, <2>3, <2>4
<1>17. CASE Top!BuildCpu
  <2>1. HostTypes'
    BY <1>17 DEF Top!BuildCpu, Top!Build, HostTypes
  <2>2. NoFailure'
    BY <1>17 DEF Top!BuildCpu, Top!Build, HostTypes, NoFailure
  <2>3. SlotInv'
    BY <1>17 DEF Top!BuildCpu, Top!Build, HostTypes, NoFailure, SlotInv, Opened, NoneOpen, Attaching, Detaching, Top!NoMsi
  <2>4. BuiltInv'
    BY <1>17 DEF Top!BuildCpu, Top!Build, HostTypes, BuiltInv
  <2> QED BY <2>1, <2>2, <2>3, <2>4
<1>18. CASE Top!BuildRam
  <2>1. HostTypes'
    BY <1>18 DEF Top!BuildRam, Top!Build, HostTypes
  <2>2. NoFailure'
    BY <1>18 DEF Top!BuildRam, Top!Build, HostTypes, NoFailure
  <2>3. SlotInv'
    BY <1>18 DEF Top!BuildRam, Top!Build, HostTypes, NoFailure, SlotInv, Opened, NoneOpen, Attaching, Detaching, Top!NoMsi
  <2>4. BuiltInv'
    BY <1>18 DEF Top!BuildRam, Top!Build, HostTypes, BuiltInv
  <2> QED BY <2>1, <2>2, <2>3, <2>4
<1>19. CASE Top!BuildNvdla
  <2>1. HostTypes'
    BY <1>19 DEF Top!BuildNvdla, Top!Build, HostTypes
  <2>2. NoFailure'
    BY <1>19 DEF Top!BuildNvdla, Top!Build, HostTypes, NoFailure
  <2>3. SlotInv'
    BY <1>19 DEF Top!BuildNvdla, Top!Build, HostTypes, NoFailure, SlotInv, Opened, NoneOpen, Attaching, Detaching, Top!NoMsi
  <2>4. BuiltInv'
    BY <1>19 DEF Top!BuildNvdla, Top!Build, HostTypes, BuiltInv
  <2> QED BY <2>1, <2>2, <2>3, <2>4
<1>20. CASE Top!ExecSimv
  <2>1. HostTypes'
    BY <1>20 DEF Top!ExecSimv, HostTypes
  <2>2. NoFailure'
    BY <1>20 DEF Top!ExecSimv, HostTypes, NoFailure
  <2>3. SlotInv'
    BY <1>20 DEF Top!ExecSimv, HostTypes, NoFailure, SlotInv, Opened, NoneOpen, Attaching, Detaching, Top!NoMsi
  <2>4. BuiltInv'
    BY <1>20 DEF Top!ExecSimv, HostTypes, BuiltInv
  <2> QED BY <2>1, <2>2, <2>3, <2>4
<1>21. CASE Top!ExecFails
  <2>1. HostTypes'
    BY <1>21 DEF Top!ExecFails, HostTypes
  <2>2. NoFailure'
    BY <1>21 DEF Top!ExecFails, HostTypes, NoFailure
  <2>3. SlotInv'
    BY <1>21 DEF Top!ExecFails, HostTypes, NoFailure, SlotInv, Opened, NoneOpen, Attaching, Detaching, Top!NoMsi
  <2>4. BuiltInv'
    BY <1>21 DEF Top!ExecFails, HostTypes, BuiltInv
  <2> QED BY <2>1, <2>2, <2>3, <2>4
<1>22. CASE Top!ScStart
  <2>1. HostTypes'
    BY <1>22 DEF Top!ScStart, HostTypes
  <2>2. NoFailure'
    BY <1>22 DEF Top!ScStart, HostTypes, NoFailure
  <2>3. SlotInv'
    BY <1>22 DEF Top!ScStart, HostTypes, NoFailure, SlotInv, Opened, NoneOpen, Attaching, Detaching, Top!NoMsi
  <2>4. BuiltInv'
    BY <1>22 DEF Top!ScStart, HostTypes, BuiltInv
  <2> QED BY <2>1, <2>2, <2>3, <2>4
<1>23. CASE Top!ScStop
  <2>1. HostTypes'
    BY <1>23 DEF Top!ScStop, Top!Bars, HostTypes
  <2>2. NoFailure'
    BY <1>23 DEF Top!ScStop, Top!Bars, HostTypes, NoFailure
  <2>3. SlotInv'
    BY <1>23 DEF Top!ScStop, Top!Bars, HostTypes, NoFailure, SlotInv, Opened, NoneOpen, Attaching, Detaching, Top!NoMsi
  <2>4. BuiltInv'
    BY <1>23 DEF Top!ScStop, Top!Bars, HostTypes, BuiltInv
  <2> QED BY <2>1, <2>2, <2>3, <2>4
<1>24. CASE Top!ScAbort
  <2>1. HostTypes'
    BY <1>24 DEF Top!ScAbort, HostTypes
  <2>2. NoFailure'
    BY <1>24 DEF Top!ScAbort, HostTypes, NoFailure
  <2>3. SlotInv'
    BY <1>24 DEF Top!ScAbort, HostTypes, NoFailure, SlotInv, Opened, NoneOpen, Attaching, Detaching, Top!NoMsi
  <2>4. BuiltInv'
    BY <1>24 DEF Top!ScAbort, HostTypes, BuiltInv
  <2> QED BY <2>1, <2>2, <2>3, <2>4
<1>25. CASE Top!CloseMsi
  <2>1. HostTypes'
    BY <1>25 DEF Top!CloseMsi, Top!Result, HostTypes
  <2>2. NoFailure'
    BY <1>25 DEF Top!CloseMsi, Top!Result, HostTypes, NoFailure
  <2>3. SlotInv'
    BY <1>25 DEF Top!CloseMsi, Top!Result, HostTypes, NoFailure, SlotInv, Opened, NoneOpen, Attaching, Detaching, Top!NoMsi
  <2>4. BuiltInv'
    BY <1>25 DEF Top!CloseMsi, Top!Result, HostTypes, BuiltInv
  <2> QED BY <2>1, <2>2, <2>3, <2>4
<1>26. ASSUME NEW fails \in BOOLEAN, Top!Detach(fails) PROVE HostInv'
  <2>1. /\ stage = "detach" /\ todo # <<>>
        /\ bars' = IF fails THEN bars ELSE bars \ {Head(todo)}
        /\ stuck' = IF fails THEN stuck \union {Head(todo)} ELSE stuck
        /\ failed' = (failed \/ fails) /\ todo' = Tail(todo)
        /\ UNCHANGED <<stage, aws, fpga, backend, dmi, ended, simv, code, mask, fds,
                       image, built, mutex>>
    BY <1>26 DEF Top!Detach
  <2>2. fpga /\ Detaching
    BY <2>1 DEF SlotInv, HostTypes
  <2>3. Detaching' /\ stuck' \subseteq AllBars /\ bars' \subseteq AllBars
    <3>1. CASE todo = <<"ocl", "bar1", "pcis">>
      BY <2>1, <2>2, <3>1, BarOrder DEF Detaching
    <3>2. CASE todo = <<"bar1", "pcis">>
      BY <2>1, <2>2, <3>2, BarOrder DEF Detaching
    <3>3. CASE todo = <<"pcis">>
      BY <2>1, <2>2, <3>3, BarOrder DEF Detaching
    <3> QED BY <2>1, <2>2, <3>1, <3>2, <3>3 DEF Detaching
  <2>4. HostTypes'
    BY <2>1, <2>3 DEF HostTypes
  <2>5. NoFailure'
    BY <2>1 DEF NoFailure
  <2>6. SlotInv'
    BY <2>1, <2>2, <2>3 DEF SlotInv
  <2>7. BuiltInv'
    BY <2>1 DEF BuiltInv
  <2> QED BY <2>4, <2>5, <2>6, <2>7
<1> QED BY <1>1, <1>2, <1>3, <1>4, <1>5, <1>6, <1>7, <1>8, <1>9, <1>10, <1>11, <1>12, <1>13,
           <1>14, <1>15, <1>16, <1>17, <1>18, <1>19, <1>20, <1>21, <1>22, <1>23, <1>24, <1>25, <1>26
        DEF HostStep, Top!Startup, Top!Cleanup

------------------------------------------------------------------------------

Actions == [Top!Severities -> BOOLEAN]
Configs == [all : Actions, bus : Actions \union {Top!Unset}, verbosity : Top!Verbosities,
            file : BOOLEAN, astray : {FALSE}]
Keeping == {"info", "warning", "error", "enable"}

(* Entry n is the last one that sets a level for the message.              *)
IsLast(n, msg) ==
  /\ n \in DOMAIN entries /\ Top!Sets(entries[n], msg)
  /\ \A k \in n + 1 .. Len(entries) : ~Top!Sets(entries[k], msg)
HasLast(msg) == Top!IsSet(msg) => \E n : IsLast(n, msg)

(* What the last entry for a message has set is in the configuration.      *)
Follows ==
  /\ config.bus = Top!Unset <=> ~Top!IsSet("bus")
  /\ \A n : IsLast(n, "bus") => config.bus["error"] = (entries[n].info[2] \in Keeping)
  /\ \A n : IsLast(n, Top!Empty) => config.all["error"] = (entries[n].info[2] \in Keeping)
  /\ ~Top!IsSet(Top!Empty) => config.all["error"] = TRUE
  /\ HasLast("bus") /\ HasLast(Top!Empty)

LogInv ==
  /\ config \in Configs /\ entries \in Seq(Top!Entries) /\ throws \in BOOLEAN
  /\ stage = "log" => Follows
  /\ stage # "log" => config = Top!DefaultConfig /\ entries = <<>>

(* The empty field is none of the words that log.cpp compares fields with. *)
LEMMA EmptyField ==
  /\ Top!Empty # "bus" /\ Top!Empty # "outfile" /\ Top!Empty # "verbosity_level"
  /\ Top!Empty \notin Top!Levels
BY Zenon DEF Top!Empty, Top!Levels, Top!Severities

(* A level keeps errors if it is "enable" or not above "error".            *)
LEMMA LevelOfErrors ==
  ASSUME NEW l \in Top!Levels
  PROVE  /\ Top!ScActions(l) \in Actions
         /\ Top!ScActions(l)["error"] = (l \in Keeping)
<1>1. /\ Top!SevRank["info"] = 0 /\ Top!SevRank["warning"] = 1
      /\ Top!SevRank["error"] = 2 /\ Top!SevRank["fatal"] = 3
  BY DEF Top!SevRank, Top!Severities
<1>2. Top!ScActions(l) \in Actions
  BY DEF Top!ScActions, Actions
<1>3. Top!ScActions(l)["error"] =
        (l = "enable" \/ (l # "disable" /\ Top!SevRank[l] <= Top!SevRank["error"]))
  BY DEF Top!ScActions, Top!Severities
<1>4. (l = "enable" \/ (l # "disable" /\ Top!SevRank[l] <= Top!SevRank["error"]))
        <=> l \in Keeping
  BY <1>1 DEF Top!Levels, Top!Severities, Keeping
<1> QED BY <1>2, <1>3, <1>4

(* set_sc_report(): what an entry with two fields does.                    *)
LEMMA SetsReport ==
  ASSUME NEW c \in Configs, NEW m \in Top!Fields, NEW l \in Top!Values
  PROVE  LET d == Top!set_sc_report(c, m, l, Top!Type(m, l)) IN
         /\ d \in Configs
         /\ d.bus = IF m = "bus" /\ l \in Top!Levels THEN Top!ScActions(l) ELSE c.bus
         /\ d.all = IF m = Top!Empty /\ l \in Top!Levels THEN Top!ScActions(l) ELSE c.all
<1> DEFINE d == Top!set_sc_report(c, m, l, Top!Type(m, l))
<1> USE EmptyField DEF Configs, Top!Fields, Top!Values
<1>1. /\ m # Top!Empty /\ l = Top!Empty => Top!Type(m, l) = 1
      /\ m = Top!Empty /\ l # Top!Empty => Top!Type(m, l) = 2
      /\ m # Top!Empty /\ l # Top!Empty => Top!Type(m, l) = 3
  BY DEF Top!Type
<1>2. CASE m = "outfile"
  <2>1. Top!Type(m, l) \in {1, 3}
    BY <1>1, <1>2
  <2>2. d = [c EXCEPT !.file = TRUE]
    BY <1>2, <2>1 DEF Top!set_sc_report
  <2> QED BY <1>2, <2>2
<1>3. CASE m = "verbosity_level"
  <2>1. d = IF l \in Top!Verbosities THEN [c EXCEPT !.verbosity = l] ELSE c
    BY <1>3 DEF Top!set_sc_report
  <2> QED BY <1>3, <2>1
<1>4. CASE m \in {Top!Empty, "bus"} /\ l \notin Top!Levels
  <2>1. d = c
    BY <1>4 DEF Top!set_sc_report
  <2> QED BY <1>4, <2>1
<1>5. CASE m \in {Top!Empty, "bus"} /\ l \in Top!Levels
  <2>1. l # Top!Empty /\ Top!ScActions(l) \in Actions
    BY <1>5, LevelOfErrors
  <2>2. Top!Type(m, l) = IF m = Top!Empty THEN 2 ELSE 3
    BY <1>1, <1>5, <2>1
  <2>3. CASE m = Top!Empty
    <3>1. d = [c EXCEPT !.all = Top!ScActions(l)]
      BY <1>5, <2>2, <2>3 DEF Top!set_sc_report
    <3> QED BY <1>5, <2>1, <2>3, <3>1
  <2>4. CASE m = "bus"
    <3>1. d = [c EXCEPT !.bus = Top!ScActions(l)]
      BY <1>5, <2>2, <2>4 DEF Top!set_sc_report
    <3> QED BY <1>5, <2>1, <2>4, <3>1
  <2> QED BY <1>5, <2>3, <2>4
<1> QED BY <1>2, <1>3, <1>4, <1>5

(* log_parse(): an entry changes the configuration of errors exactly if it *)
(* sets a level, and to what that level says.                              *)
LEMMA ParsesEntry ==
  ASSUME NEW c \in Configs, NEW e \in Top!Entries
  PROVE  LET d == Top!ParseEntry(c, e) IN
         /\ d \in Configs
         /\ d.bus = IF Top!Sets(e, "bus") THEN Top!ScActions(e.info[2]) ELSE c.bus
         /\ d.all = IF Top!Sets(e, Top!Empty) THEN Top!ScActions(e.info[2]) ELSE c.all
<1> DEFINE d == Top!ParseEntry(c, e)
<1>1. CASE e.colon /\ \E m \in Top!Fields : e.info = <<m>>
  <2>1. PICK m \in Top!Fields : e.info = <<m>>
    BY <1>1
  <2> DEFINE i == Append(e.info, Top!Empty)
  <2>2. Len(e.info) = 1 /\ Len(i) = 2 /\ i[1] = m /\ i[2] = Top!Empty
    <3>1. <<m>> \in Seq(Top!Fields) /\ Len(<<m>>) = 1 /\ <<m>>[1] = m /\ Top!Empty \in Top!Fields
      BY DEF Top!Fields
    <3> HIDE DEF Top!Fields
    <3>2. Len(Append(<<m>>, Top!Empty)) = 2
      BY <3>1
    <3>3. Append(<<m>>, Top!Empty)[1] = m
      BY <3>1
    <3>4. Append(<<m>>, Top!Empty)[2] = Top!Empty
      BY <3>1
    <3> QED BY <2>1, <3>1, <3>2, <3>3, <3>4
  <2>3. d = Top!set_sc_report(c, m, Top!Empty, Top!Type(m, Top!Empty))
    BY <1>1, <2>2 DEF Top!ParseEntry
  <2>4. ~Top!Sets(e, "bus") /\ ~Top!Sets(e, Top!Empty)
    BY <2>2 DEF Top!Sets
  <2>5. Top!Empty \in Top!Values
    BY DEF Top!Values
  <2> QED BY <2>3, <2>4, <2>5, SetsReport, EmptyField
<1>2. CASE e.colon /\ \E m \in Top!Fields, l \in Top!Values : e.info = <<m, l>>
  <2>1. PICK m \in Top!Fields, l \in Top!Values : e.info = <<m, l>>
    BY <1>2
  <2>2. Len(e.info) = 2 /\ e.info[1] = m /\ e.info[2] = l
    BY <2>1
  <2>3. d = Top!set_sc_report(c, m, l, Top!Type(m, l))
    BY <1>2, <2>2 DEF Top!ParseEntry
  <2>4. /\ Top!Sets(e, "bus") <=> m = "bus" /\ l \in Top!Levels
        /\ Top!Sets(e, Top!Empty) <=> m = Top!Empty /\ l \in Top!Levels
    BY <1>2, <2>2 DEF Top!Sets
  <2> QED BY <2>2, <2>3, <2>4, SetsReport
<1>3. CASE ~e.colon \/ Len(e.info) = 3
  <2>1. d = c
    BY <1>3 DEF Top!ParseEntry
  <2>2. ~Top!Sets(e, "bus") /\ ~Top!Sets(e, Top!Empty)
    BY <1>3 DEF Top!Sets
  <2> QED BY <2>1, <2>2
<1>4. \/ e.colon /\ \E m \in Top!Fields : e.info = <<m>>
      \/ e.colon /\ \E m \in Top!Fields, l \in Top!Values : e.info = <<m, l>>
      \/ ~e.colon \/ Len(e.info) = 3
  <2>1. \/ e.colon = TRUE /\ e.info \in Top!Single \union Top!Pairs
        \/ e.colon = TRUE /\ e.info = <<"bus", "fatal", "other">>
        \/ e.colon = FALSE
    BY DEF Top!Entries
  <2>2. ASSUME e.info \in Top!Single PROVE \E m \in Top!Fields : e.info = <<m>>
    BY <2>2 DEF Top!Single
  <2>3. ASSUME e.info \in Top!Pairs
        PROVE  \E m \in Top!Fields, l \in Top!Values : e.info = <<m, l>>
    BY <2>3 DEF Top!Pairs
  <2>4. Len(<<"bus", "fatal", "other">>) = 3
    OBVIOUS
  <2> QED BY <2>1, <2>2, <2>3, <2>4
<1> QED BY <1>1, <1>2, <1>3, <1>4

(* The last of the entries that set a level is the one that is looked at.  *)
LEMMA LastIs ==
  ASSUME NEW n, NEW msg, entries \in Seq(Top!Entries), IsLast(n, msg)
  PROVE  Top!Last(msg) = n
<1> DEFINE P(x) == /\ Top!Sets(entries[x], msg)
                   /\ \A k \in x + 1 .. Len(entries) : ~Top!Sets(entries[k], msg)
<1>1. n \in DOMAIN entries /\ P(n)
  BY DEF IsLast
<1>2. Top!Last(msg) = CHOOSE x \in DOMAIN entries : P(x)
  BY DEF Top!Last
<1>3. Top!Last(msg) \in DOMAIN entries /\ P(Top!Last(msg))
  BY <1>1, <1>2, Zenon
<1>4. ASSUME NEW x \in DOMAIN entries, P(x) PROVE x = n
  <2>1. x \in 1 .. Len(entries) /\ n \in 1 .. Len(entries) /\ Len(entries) \in Nat
    BY <1>1
  <2>2. ~(x < n)
    BY <1>1, <1>4, <2>1
  <2>3. ~(n < x)
    BY <1>1, <1>4, <2>1
  <2> QED BY <2>1, <2>2, <2>3
<1> HIDE DEF P
<1> QED BY <1>3, <1>4

(* log_parse() takes one more entry: it is the last one if it sets a       *)
(* level, otherwise the last one stays.                                    *)
LEMMA LastMoves ==
  ASSUME entries \in Seq(Top!Entries), NEW e \in Top!Entries, entries' = Append(entries, e),
         NEW msg
  PROVE  /\ Top!Sets(e, msg) =>
              /\ Top!IsSet(msg)' /\ \E n : IsLast(n, msg)'
              /\ \A n : IsLast(n, msg)' => entries'[n] = e
         /\ ~Top!Sets(e, msg) =>
              /\ Top!IsSet(msg)' <=> Top!IsSet(msg)
              /\ \A n : IsLast(n, msg) => IsLast(n, msg)'
              /\ \A n : IsLast(n, msg)' => IsLast(n, msg) /\ entries'[n] = entries[n]
<1>1. /\ Len(entries) \in Nat /\ Len(entries') = Len(entries) + 1
      /\ DOMAIN entries = 1 .. Len(entries) /\ DOMAIN entries' = 1 .. Len(entries) + 1
      /\ \A k \in 1 .. Len(entries) : entries'[k] = entries[k]
      /\ entries'[Len(entries) + 1] = e
  OBVIOUS
<1>2. ASSUME Top!Sets(e, msg)
      PROVE  /\ Top!IsSet(msg)' /\ \E n : IsLast(n, msg)'
             /\ \A n : IsLast(n, msg)' => entries'[n] = e
  <2>1. Top!IsSet(msg)'
    BY <1>1, <1>2 DEF Top!IsSet, Top!Sets
  <2>2. \E n : IsLast(n, msg)'
    <3>1. PICK n \in Nat : n = Len(entries) + 1
      BY <1>1
    <3>2. IsLast(n, msg)'
      BY <1>1, <1>2, <3>1 DEF IsLast, Top!Sets
    <3> QED BY <3>2
  <2>3. ASSUME NEW n, IsLast(n, msg)' PROVE entries'[n] = e
    <3>1. n \in 1 .. Len(entries) + 1 /\ ~(n < Len(entries) + 1)
      BY <1>1, <1>2, <2>3 DEF IsLast, Top!Sets
    <3>2. n = Len(entries) + 1
      BY <1>1, <3>1
    <3> QED BY <1>1, <3>2
  <2> QED BY <2>1, <2>2, <2>3
<1>3. ASSUME ~Top!Sets(e, msg)
      PROVE  /\ Top!IsSet(msg)' <=> Top!IsSet(msg)
             /\ \A n : IsLast(n, msg) => IsLast(n, msg)'
             /\ \A n : IsLast(n, msg)' => IsLast(n, msg) /\ entries'[n] = entries[n]
  <2>1. Top!IsSet(msg)' <=> Top!IsSet(msg)
    BY <1>1, <1>3 DEF Top!IsSet, Top!Sets
  <2>2. ASSUME NEW n, IsLast(n, msg) PROVE IsLast(n, msg)'
    BY <1>1, <1>3, <2>2 DEF IsLast, Top!Sets
  <2>3. ASSUME NEW n, IsLast(n, msg)' PROVE IsLast(n, msg) /\ entries'[n] = entries[n]
    BY <1>1, <1>3, <2>3 DEF IsLast, Top!Sets
  <2> QED BY <2>1, <2>2, <2>3
<1> QED BY <1>2, <1>3

(* Only log_parse() changes the report configuration.                      *)
LEMMA LogSteps ==
  ASSUME HostStep
  PROVE  \/ Top!ArgsGiven \/ Top!LogDone \/ \E e \in Top!Entries : Top!LogEntry(e)
         \/ stage # "log" /\ stage' # "log" /\ UNCHANGED <<config, entries, throws>>
<1> USE DEF Top!Goto, Top!Exit, Top!Fail, Top!logVars
<1>1. ASSUME Top!Help \/ Top!BadArgs \/ Top!NoFpga \/ Top!FpgaLibrary \/ Top!FpgaFails \/ Top!ScAbort
      PROVE  stage # "log" /\ stage' # "log" /\ UNCHANGED <<config, entries, throws>>
  BY <1>1 DEF Top!Help, Top!BadArgs, Top!NoFpga, Top!FpgaLibrary, Top!FpgaFails, Top!ScAbort
<1>2. ASSUME Top!AfiReady \/ Top!AfiOther \/ Top!Rescan \/ Top!AfiRefused \/ Top!Attach
      PROVE  stage # "log" /\ stage' # "log" /\ UNCHANGED <<config, entries, throws>>
  BY <1>2 DEF Top!AfiReady, Top!BeginAttach, Top!AfiOther, Top!Rescan, Top!AfiRefused, Top!Attach
<1>3. ASSUME Top!OpenMsi \/ Top!FpgaDone \/ Top!Options \/ Top!ScStart \/ Top!ScStop
      PROVE  stage # "log" /\ stage' # "log" /\ UNCHANGED <<config, entries, throws>>
  BY <1>3 DEF Top!OpenMsi, Top!FpgaDone, Top!Options, Top!ScStart, Top!ScStop
<1>4. ASSUME Top!BuildCpu \/ Top!BuildRam \/ Top!BuildNvdla \/ Top!ExecSimv \/ Top!ExecFails
      PROVE  stage # "log" /\ stage' # "log" /\ UNCHANGED <<config, entries, throws>>
  BY <1>4 DEF Top!Build, Top!BuildCpu, Top!BuildRam, Top!BuildNvdla, Top!ExecSimv, Top!ExecFails
<1>5. ASSUME Top!CloseMsi \/ \E fails \in BOOLEAN : Top!Detach(fails)
      PROVE  stage # "log" /\ stage' # "log" /\ UNCHANGED <<config, entries, throws>>
  BY <1>5 DEF Top!CloseMsi, Top!Detach
<1> QED BY <1>1, <1>2, <1>3, <1>4, <1>5 DEF HostStep, Top!Startup, Top!Cleanup

(* The configuration stays what the entries so far have made of it.        *)
LEMMA LogStepInv ==
  ASSUME LogInv, HostStep
  PROVE  LogInv'
<1>1. CASE Top!ArgsGiven
  <2>1. config = Top!DefaultConfig /\ entries = <<>> /\ throws \in BOOLEAN
    BY <1>1 DEF LogInv, Top!ArgsGiven
  <2>2. UNCHANGED <<config, entries, throws>> /\ stage' = "log"
    BY <1>1 DEF Top!ArgsGiven, Top!Goto, Top!logVars
  <2>3. DOMAIN entries' = {}
    BY <2>1, <2>2
  <2>4. Top!IsSet("bus")' = FALSE /\ Top!IsSet(Top!Empty)' = FALSE
    BY <2>3 DEF Top!IsSet
  <2>5. \A n, m : ~IsLast(n, m)'
    BY <2>3 DEF IsLast
  <2>6. config'.bus = Top!Unset /\ config'.all["error"] = TRUE
    BY <2>1, <2>2 DEF Top!DefaultConfig, Top!AllDefault, Top!Severities
  <2>7. Follows'
    BY <2>4, <2>5, <2>6 DEF Follows, HasLast
  <2> QED BY <2>2, <2>7 DEF LogInv
<1>2. CASE Top!LogDone
  <2>1. /\ throws' = Top!ErrorThrows(config) /\ config' = Top!DefaultConfig
        /\ entries' = <<>> /\ stage' # "log"
    BY <1>2 DEF Top!LogDone, Top!Goto
  <2>2. Top!ErrorThrows(config) \in BOOLEAN
    BY DEF LogInv, Configs, Actions, Top!ErrorThrows, Top!Severities
  <2>3. Top!DefaultConfig \in Configs
    BY DEF Top!DefaultConfig, Configs, Actions, Top!AllDefault, Top!Verbosities
  <2> QED BY <2>1, <2>2, <2>3 DEF LogInv
<1>3. ASSUME NEW e \in Top!Entries, Top!LogEntry(e) PROVE LogInv'
  <2>1. /\ stage = "log" /\ stage' = "log" /\ throws' = throws
        /\ config' = Top!ParseEntry(config, e) /\ entries' = Append(entries, e)
    BY <1>3 DEF Top!LogEntry
  <2>2. config \in Configs /\ entries \in Seq(Top!Entries) /\ throws \in BOOLEAN /\ Follows
    BY <2>1 DEF LogInv
  <2>3. config' \in Configs /\ entries' \in Seq(Top!Entries)
    BY <2>1, <2>2, ParsesEntry
  <2>4. /\ config'.bus = IF Top!Sets(e, "bus") THEN Top!ScActions(e.info[2]) ELSE config.bus
        /\ config'.all = IF Top!Sets(e, Top!Empty) THEN Top!ScActions(e.info[2]) ELSE config.all
    BY <2>1, <2>2, ParsesEntry
  <2>5. ASSUME NEW msg, Top!Sets(e, msg)
        PROVE  /\ Top!ScActions(e.info[2]) \in Actions
               /\ Top!ScActions(e.info[2])["error"] = (e.info[2] \in Keeping)
    BY <2>5, LevelOfErrors DEF Top!Sets
  <2>6. HasLast("bus")' /\ HasLast(Top!Empty)'
    <3>1. ASSUME NEW msg, HasLast(msg) PROVE HasLast(msg)'
      BY <2>1, <2>2, <3>1, LastMoves DEF HasLast
    <3> QED BY <2>2, <3>1 DEF Follows
  <2>7. /\ config'.bus = Top!Unset <=> ~Top!IsSet("bus")'
        /\ \A n : IsLast(n, "bus")' => config'.bus["error"] = (entries'[n].info[2] \in Keeping)
    <3>1. CASE Top!Sets(e, "bus")
      <4>1. config'.bus # Top!Unset
        <5>1. config'.bus \in Actions
          BY <2>4, <2>5, <3>1
        <5>2. DOMAIN config'.bus = Top!Severities /\ DOMAIN Top!Unset = {}
          BY <5>1 DEF Actions, Top!Unset
        <5> QED BY <5>2 DEF Top!Severities
      <4>2. config'.bus["error"] = (e.info[2] \in Keeping)
        BY <2>4, <2>5, <3>1
      <4>3. Top!IsSet("bus")' /\ \A n : IsLast(n, "bus")' => entries'[n] = e
        BY <2>1, <2>2, <3>1, LastMoves
      <4> QED BY <4>1, <4>2, <4>3
    <3>2. CASE ~Top!Sets(e, "bus")
      <4>1. /\ Top!IsSet("bus")' <=> Top!IsSet("bus")
            /\ \A n : IsLast(n, "bus")' => IsLast(n, "bus") /\ entries'[n] = entries[n]
        BY <2>1, <2>2, <3>2, LastMoves
      <4>2. config'.bus = config.bus
        BY <2>4, <3>2
      <4> QED BY <2>2, <4>1, <4>2 DEF Follows
    <3> QED BY <3>1, <3>2
  <2>8. /\ \A n : IsLast(n, Top!Empty)' =>
              config'.all["error"] = (entries'[n].info[2] \in Keeping)
        /\ ~Top!IsSet(Top!Empty)' => config'.all["error"] = TRUE
    <3>1. CASE Top!Sets(e, Top!Empty)
      <4>1. config'.all["error"] = (e.info[2] \in Keeping)
        BY <2>4, <2>5, <3>1
      <4>2. Top!IsSet(Top!Empty)' /\ \A n : IsLast(n, Top!Empty)' => entries'[n] = e
        BY <2>1, <2>2, <3>1, LastMoves
      <4> QED BY <4>1, <4>2
    <3>2. CASE ~Top!Sets(e, Top!Empty)
      <4>1. /\ Top!IsSet(Top!Empty)' <=> Top!IsSet(Top!Empty)
            /\ \A n : IsLast(n, Top!Empty)' => IsLast(n, Top!Empty) /\ entries'[n] = entries[n]
        BY <2>1, <2>2, <3>2, LastMoves
      <4>2. config'.all = config.all
        BY <2>4, <3>2
      <4> QED BY <2>2, <4>1, <4>2 DEF Follows
    <3> QED BY <3>1, <3>2
  <2>9. Follows'
    BY <2>6, <2>7, <2>8 DEF Follows
  <2> QED BY <2>1, <2>2, <2>3, <2>9 DEF LogInv
<1>4. CASE stage # "log" /\ stage' # "log" /\ UNCHANGED <<config, entries, throws>>
  BY <1>4 DEF LogInv
<1> QED BY <1>1, <1>2, <1>3, <1>4, LogSteps

(* What the configuration makes of errors is what the last entry says.     *)
LEMMA LogFollows ==
  ASSUME LogInv
  PROVE  LogAsConfigured
<1> SUFFICES ASSUME stage = "log"
             PROVE  /\ ~config.astray
                    /\ Top!ErrorThrows(config) =
                         IF Top!IsSet("bus") THEN Top!Decides("bus")
                         ELSE IF Top!IsSet(Top!Empty) THEN Top!Decides(Top!Empty) ELSE TRUE
  BY DEF LogAsConfigured, Top!LogAsConfigured
<1>1. config \in Configs /\ entries \in Seq(Top!Entries) /\ Follows
  BY DEF LogInv
<1>2. ~config.astray
  BY <1>1 DEF Configs
<1>3. ASSUME NEW msg, HasLast(msg), Top!IsSet(msg)
      PROVE  \E n : IsLast(n, msg) /\ Top!Decides(msg) = (entries[n].info[2] \in Keeping)
  <2>1. PICK n : IsLast(n, msg)
    BY <1>3 DEF HasLast
  <2>2. Top!Last(msg) = n
    BY <1>1, <2>1, LastIs
  <2> QED BY <2>1, <2>2 DEF Top!Decides, Keeping
<1>4. Top!IsSet("bus") => config.bus["error"] = Top!Decides("bus")
  BY <1>1, <1>3 DEF Follows
<1>5. Top!IsSet(Top!Empty) => config.all["error"] = Top!Decides(Top!Empty)
  BY <1>1, <1>3 DEF Follows
<1> QED BY <1>1, <1>2, <1>4, <1>5 DEF Follows, Top!ErrorThrows

------------------------------------------------------------------------------

(* The mask of a read leaves the address of a word below 4 GiB alone.      *)
LEMMA WordAddress ==
  ASSUME NEW a \in Nat, NEW i \in Nat, a % 4 = 0, i % 4 = 0, a + i < Wide
  PROVE  (((a + i) \div 4) * 4) % Wide = a + i
<1>1. ((a + i) \div 4) * 4 = a + i
  OBVIOUS
<1>2. ASSUME NEW x \in Nat, x < Wide PROVE x % Wide = x
  BY <1>2, WideAssumption
<1> QED BY <1>1, <1>2

(* The rest of an access of whole words is one of whole words, too.        *)
LEMMA WordRest ==
  ASSUME NEW i \in Nat, NEW n \in Nat, i % 4 = 0
  PROVE  /\ (i + 4) % 4 = 0
         /\ (i + n) % 4 = 0 => n % 4 = 0
OBVIOUS

(* What Reached() is: a range that is not empty, and where it begins at    *)
(* the offset whenever the bits of the address that a read clears are 0.   *)
LEMMA ReachedBytes ==
  ASSUME NEW n \in {1, 4}, addr \in Nat, index \in Nat
  PROVE  /\ Reached(n) # {} /\ Reached(n) \subseteq Nat
         /\ cmd = "WR" \/ n = 1 \/ (addr % 4 = 0 /\ index % 4 = 0 /\ addr + index < Wide) =>
              Reached(n) = (addr + index) .. (addr + index + n - 1)
<1> DEFINE a == IF cmd = "RD" /\ n = 4 THEN (((addr + index) \div 4) * 4) % Wide
                                       ELSE addr + index
<1>1. a \in Nat
  <2>1. ((addr + index) \div 4) * 4 \in Nat
    OBVIOUS
  <2>2. \A x \in Nat : x % Wide \in Nat
    BY WideAssumption
  <2> QED BY <2>1, <2>2 DEF a
<1>2. Reached(n) = a .. (a + n - 1)
  BY DEF Reached
<1>3. cmd = "WR" \/ n = 1 \/ (addr % 4 = 0 /\ index % 4 = 0 /\ addr + index < Wide) =>
        a = addr + index
  BY WordAddress DEF a
<1> HIDE DEF a
<1>4. a \in Reached(n) /\ Reached(n) \subseteq Nat
  BY <1>1, <1>2
<1> QED BY <1>2, <1>3, <1>4

(* What holds of an access while the bridge carries it out.                *)
BusCore == TypeOK /\ InStep /\ ReportedIfNoneReached /\ TriesAll

(* b_transact() takes an access.                                           *)
LEMMA BeginKeeps ==
  ASSUME BusCore, NEW c \in {"WR", "RD"}, NEW a \in 0 .. MaxAddr, NEW n \in 0 .. MaxLen,
         Begin(c, a, n)
  PROVE  BusCore'
<1> USE LenAssumption
<1>1. /\ cmd' = c /\ addr' = a /\ size' = n /\ len' = n /\ index' = 0 /\ throws' = throws
      /\ ret' = TRUE /\ good' = {} /\ bad' = {}
      /\ report' = IF Misaligned(a, n) THEN "alignment" ELSE "none"
      /\ pc' = IF n = 0 \/ (Misaligned(a, n) /\ throws) THEN "idle" ELSE "words"
  BY DEF Begin
<1>2. TypeOK'
  BY <1>1 DEF BusCore, TypeOK
<1>3. InStep'
  <2>1. a .. (a + 0 - 1) = {}
    OBVIOUS
  <2> QED BY <1>1, <2>1 DEF InStep
<1>4. Done' => Misaligned(addr', size') /\ throws'
  BY <1>1 DEF Done
<1>5. ReportedIfNoneReached'
  BY <1>1, <1>4 DEF ReportedIfNoneReached
<1>6. TriesAll'
  BY <1>4 DEF TriesAll
<1> QED BY <1>2, <1>3, <1>5, <1>6 DEF BusCore

(* A peek or poke, of a word or of the byte at the end: the bytes it tries *)
(* are accounted for, and the combined code stays an error while none was  *)
(* reached.                                                                *)
LEMMA AccountKeeps ==
  ASSUME TypeOK, InStep, pc = "words", NEW n \in {1, 4}, n <= len,
         NEW fails \in BOOLEAN, Account(n, fails)
  PROVE  /\ ret' \in BOOLEAN /\ good' \subseteq Nat /\ bad' \subseteq Nat
         /\ ret' <=> good' = {}
         /\ good' \union bad' = (good \union bad) \union Reached(n)
         /\ cmd = "WR" => good' \union bad' \subseteq Whole
         /\ ~Misaligned(addr, size) /\ ~Truncated => good' \union bad' = addr .. (addr + index + n - 1)
<1> USE LenAssumption
<1>1. /\ addr \in Nat /\ size \in Nat /\ len \in Nat /\ index \in Nat
      /\ ret \in BOOLEAN /\ good \subseteq Nat /\ bad \subseteq Nat
  BY DEF TypeOK
<1>2. /\ ret <=> good = {}
      /\ cmd = "WR" => good \union bad \subseteq Whole
      /\ index + len = size /\ index % 4 = 0
      /\ ~Misaligned(addr, size) /\ ~Truncated => good \union bad = addr .. (addr + index - 1)
  BY DEF InStep
<1>3. /\ ret' = (ret /\ fails)
      /\ good' = IF fails THEN good ELSE good \union Reached(n)
      /\ bad' = IF fails THEN bad \union Reached(n) ELSE bad
  BY DEF Account, Combine
<1>4. /\ Reached(n) # {} /\ Reached(n) \subseteq Nat
      /\ cmd = "WR" \/ n = 1 \/ (addr % 4 = 0 /\ index % 4 = 0 /\ addr + index < Wide) =>
           Reached(n) = (addr + index) .. (addr + index + n - 1)
  BY <1>1, ReachedBytes
<1>5. ret' \in BOOLEAN /\ good' \subseteq Nat /\ bad' \subseteq Nat
  BY <1>1, <1>3, <1>4
<1>6. ret' <=> good' = {}
  BY <1>2, <1>3, <1>4
<1>7. good' \union bad' = (good \union bad) \union Reached(n)
  BY <1>3
<1>8. ASSUME cmd = "WR" PROVE good' \union bad' \subseteq Whole
  <2>1. (addr + index) .. (addr + index + n - 1) \subseteq addr .. (addr + size - 1)
    BY <1>1, <1>2
  <2> QED BY <1>2, <1>4, <1>7, <1>8, <2>1 DEF Whole
<1>9. ASSUME ~Misaligned(addr, size), ~Truncated
      PROVE  good' \union bad' = addr .. (addr + index + n - 1)
  <2>1. n = 1 \/ cmd = "WR" \/ (addr % 4 = 0 /\ addr + index < Wide)
    BY <1>1, <1>2, <1>9, WideAssumption DEF Misaligned, Truncated, TypeOK
  <2>2. Reached(n) = (addr + index) .. (addr + index + n - 1)
    BY <1>2, <1>4, <2>1
  <2>3. (addr .. (addr + index - 1)) \union ((addr + index) .. (addr + index + n - 1))
          = addr .. (addr + index + n - 1)
    BY <1>1
  <2> QED BY <1>2, <1>7, <1>9, <2>2, <2>3
<1> QED BY <1>5, <1>6, <1>7, <1>8, <1>9

(* One turn of the loop over the words.                                    *)
LEMMA WordKeeps ==
  ASSUME BusCore, NEW fails \in BOOLEAN, Word(fails)
  PROVE  BusCore'
<1> USE LenAssumption
<1>1. /\ pc = "words" /\ len >= 4 /\ Account(4, fails) /\ len' = len - 4 /\ index' = index + 4
      /\ pc' = pc /\ throws' = throws /\ cmd' = cmd /\ addr' = addr /\ size' = size
      /\ report' = report
  BY DEF Word, access
<1>2. TypeOK /\ InStep
  BY DEF BusCore
<1>3. /\ addr \in Nat /\ size \in 0 .. MaxLen /\ len \in Nat /\ index \in Nat
      /\ index + len = size /\ index % 4 = 0 /\ size > 0
      /\ ~(Misaligned(addr, size) /\ throws) /\ report \in {"none", "alignment"}
  BY <1>1, <1>2 DEF TypeOK, InStep
<1>4. /\ ret' \in BOOLEAN /\ good' \subseteq Nat /\ bad' \subseteq Nat
      /\ ret' <=> good' = {}
      /\ cmd = "WR" => good' \union bad' \subseteq Whole
      /\ ~Misaligned(addr, size) /\ ~Truncated => good' \union bad' = addr .. (addr + index + 4 - 1)
  BY <1>1, <1>2, AccountKeeps
<1>5. index' + len' = size' /\ index' % 4 = 0 /\ index' \in 0 .. MaxLen /\ len' \in 0 .. MaxLen
  BY <1>1, <1>3, WordRest
<1>6. TypeOK'
  BY <1>1, <1>2, <1>4, <1>5 DEF TypeOK
<1>7. /\ Whole' = Whole /\ addr + index + 4 - 1 = addr' + index' - 1
      /\ Truncated' <=> Truncated
  BY <1>1, <1>3 DEF Whole, Truncated
<1>8. InStep'
  BY <1>1, <1>3, <1>4, <1>5, <1>7 DEF InStep
<1>9. ReportedIfNoneReached' /\ TriesAll'
  BY <1>1, <1>4, <1>7 DEF ReportedIfNoneReached, TriesAll, Done
<1> QED BY <1>6, <1>8, <1>9 DEF BusCore

(* The byte that may be left after the words.                              *)
LEMMA ByteKeeps ==
  ASSUME BusCore, NEW fails \in BOOLEAN, Byte(fails)
  PROVE  BusCore'
<1> USE LenAssumption
<1>1. /\ pc = "words" /\ len = 1 /\ Account(1, fails) /\ pc' = "report"
      /\ UNCHANGED <<throws, cmd, addr, size, len, index, report>>
  BY DEF Byte, access
<1>2. TypeOK /\ InStep
  BY DEF BusCore
<1>3. /\ addr \in Nat /\ size \in 0 .. MaxLen /\ index \in Nat
      /\ index + 1 = size /\ index % 4 = 0 /\ size > 0
      /\ ~(Misaligned(addr, size) /\ throws) /\ report \in {"none", "alignment"}
  BY <1>1, <1>2 DEF TypeOK, InStep
<1>4. /\ ret' \in BOOLEAN /\ good' \subseteq Nat /\ bad' \subseteq Nat
      /\ ret' <=> good' = {}
      /\ cmd = "WR" => good' \union bad' \subseteq Whole
      /\ ~Misaligned(addr, size) /\ ~Truncated => good' \union bad' = addr .. (addr + index + 1 - 1)
  BY <1>1, <1>2, AccountKeeps
<1>5. TypeOK'
  BY <1>1, <1>2, <1>4 DEF TypeOK
<1>6. /\ Whole' = Whole /\ Whole = addr .. (addr + index + 1 - 1)
      /\ Truncated' <=> Truncated
  BY <1>1, <1>3 DEF Whole, Truncated
<1>7. InStep'
  BY <1>1, <1>3, <1>4, <1>6 DEF InStep
<1>8. ReportedIfNoneReached' /\ TriesAll'
  BY <1>1, <1>4, <1>6 DEF ReportedIfNoneReached, TriesAll, Done
<1> QED BY <1>5, <1>7, <1>8 DEF BusCore

(* Nothing, or two or three bytes, are left after the words.               *)
LEMMA NoByteKeeps ==
  ASSUME BusCore, NoByte
  PROVE  BusCore'
<1> USE LenAssumption
<1>1. /\ pc = "words" /\ len \in {0, 2, 3} /\ pc' = "report"
      /\ UNCHANGED <<throws, cmd, addr, size, len, index, ret, good, bad, report>>
  BY DEF NoByte, access
<1>2. TypeOK /\ InStep
  BY DEF BusCore
<1>3. /\ addr \in Nat /\ size \in Nat /\ index \in Nat /\ index + len = size /\ index % 4 = 0
  BY <1>1, <1>2 DEF TypeOK, InStep
<1>4. TypeOK'
  BY <1>1, <1>2 DEF TypeOK
<1>5. Whole' = Whole /\ (Truncated' <=> Truncated)
  BY <1>1 DEF Whole, Truncated
<1>6. ASSUME ~Misaligned(addr, size), ~Truncated, size \notin {2, 3} PROVE good \union bad = Whole
  <2>1. size < 4 \/ size % 4 = 0
    BY <1>3, <1>6 DEF Misaligned
  <2>2. index = 0 \/ index >= 4
    BY <1>3
  <2>3. len = 0
    <3>1. CASE size < 4
      BY <1>1, <1>3, <1>6, <2>2, <3>1
    <3>2. CASE size % 4 = 0
      <4>1. len % 4 = 0
        BY <1>1, <1>3, <3>2, WordRest
      <4> QED BY <1>1, <4>1
    <3> QED BY <2>1, <3>1, <3>2
  <2>4. index = size
    BY <1>3, <2>3
  <2> QED BY <1>1, <1>2, <1>6, <2>4 DEF InStep, Whole
<1>7. InStep'
  BY <1>1, <1>2, <1>5, <1>6 DEF InStep
<1>8. ReportedIfNoneReached' /\ TriesAll'
  BY <1>1, <1>2, <1>5 DEF ReportedIfNoneReached, TriesAll, Done, InStep
<1> QED BY <1>4, <1>7, <1>8 DEF BusCore

(* The combined code is looked at, and the access returns.                 *)
LEMMA ReportKeeps ==
  ASSUME BusCore, Report
  PROVE  BusCore'
<1>1. /\ pc = "report" /\ pc' = "idle" /\ report' = IF ret THEN "access" ELSE report
      /\ UNCHANGED <<throws, cmd, addr, size, len, index, ret, good, bad>>
  BY DEF Report, access
<1>2. TypeOK /\ InStep
  BY DEF BusCore
<1>3. TypeOK'
  BY <1>1, <1>2 DEF TypeOK
<1>4. /\ Whole' = Whole /\ (Misaligned(addr, size)' <=> Misaligned(addr, size))
      /\ Truncated' <=> Truncated
  BY <1>1 DEF Whole, Misaligned, Truncated
<1>5. ret \in BOOLEAN /\ (ret <=> good = {}) /\ report # "access"
  BY <1>1, <1>2 DEF TypeOK, InStep
<1>6. ReportedIfNoneReached'
  BY <1>1, <1>2, <1>4, <1>5 DEF ReportedIfNoneReached, InStep
<1>7. TriesAll'
  BY <1>1, <1>2, <1>4 DEF TriesAll, InStep
<1>8. InStep'
  BY <1>1 DEF InStep
<1> QED BY <1>3, <1>6, <1>7, <1>8 DEF BusCore

(* Every step of an access keeps offset, length and return code in step.   *)
LEMMA AccessKeeps ==
  ASSUME BusCore, Next
  PROVE  BusCore'
BY BeginKeeps, WordKeeps, ByteKeeps, NoByteKeeps, ReportKeeps DEF Next

------------------------------------------------------------------------------

(* What holds of the C model's adaptors and of the mutex while they run.   *)
CmodCore == CmodTypes /\ MutexInv /\ StatusInv

(* A C model that is not in use holds no mutex and has no access under way.*)
LEMMA CmodAtRest ==
  ASSUME Cmod!Init
  PROVE  CmodCore
<1> USE DEF Cmod!Init, Cmod!PortInit, Cmod!HostInit, Cmod!Port, Cmod!Status, Cmod!NoTxn
<1>1. CmodTypes
  BY DEF CmodTypes
<1>2. MutexInv
  BY DEF MutexInv, Cmod!is_dmi
<1>3. StatusInv
  BY DEF StatusInv
<1> QED BY <1>1, <1>2, <1>3 DEF CmodCore

(* The same after a step that ends the simulation, or does not begin it.   *)
LEMMA CmodAtRestNext ==
  ASSUME Cmod!Init'
  PROVE  CmodCore'
<1> USE DEF Cmod!Init, Cmod!PortInit, Cmod!HostInit, Cmod!Port, Cmod!Status, Cmod!NoTxn
<1>1. CmodTypes'
  BY DEF CmodTypes
<1>2. MutexInv'
  BY DEF MutexInv, Cmod!is_dmi
<1>3. StatusInv'
  BY DEF StatusInv
<1> QED BY <1>1, <1>2, <1>3 DEF CmodCore

(* Each step of a port keeps the mutex and the status with their owner.    *)
LEMMA PortKeeps ==
  ASSUME CmodCore, UNCHANGED mutex, NEW p \in Cmod!Port, Cmod!Request(p) \/ Cmod!PortStep(p)
  PROVE  CmodCore'
<1> USE DEF CmodCore, Cmod!Port, Cmod!Status, Cmod!NoTxn, Cmod!TransactionOf, Cmod!Txn, Cmod!Go,
            Cmod!hostVars, Cmod!irqVars
<1>1. CASE Cmod!Request(p)
  <2>1. CmodTypes'
    BY <1>1 DEF Cmod!Request, CmodTypes
  <2>2. MutexInv'
    BY <1>1 DEF Cmod!Request, CmodTypes, MutexInv, Cmod!is_dmi
  <2>3. StatusInv'
    BY <1>1 DEF Cmod!Request, CmodTypes, StatusInv
  <2> QED BY <2>1, <2>2, <2>3 DEF CmodCore
<1>2. CASE Cmod!Lock(p)
  <2>1. CmodTypes'
    BY <1>2 DEF Cmod!Lock, CmodTypes
  <2>2. MutexInv'
    BY <1>2 DEF Cmod!Lock, CmodTypes, MutexInv, Cmod!is_dmi
  <2>3. StatusInv'
    BY <1>2 DEF Cmod!Lock, CmodTypes, StatusInv
  <2> QED BY <2>1, <2>2, <2>3 DEF CmodCore
<1>3. CASE Cmod!Transact(p)
  <2>1. CmodTypes'
    BY <1>3 DEF Cmod!Transact, CmodTypes, StatusInv
  <2>2. MutexInv'
    BY <1>3 DEF Cmod!Transact, CmodTypes, MutexInv, Cmod!is_dmi
  <2>3. StatusInv'
    BY <1>3 DEF Cmod!Transact, CmodTypes, StatusInv
  <2> QED BY <2>1, <2>2, <2>3 DEF CmodCore
<1>4. CASE Cmod!Return(p)
  <2>1. CmodTypes'
    BY <1>4 DEF Cmod!Return, CmodTypes
  <2>2. MutexInv'
    BY <1>4 DEF Cmod!Return, CmodTypes, MutexInv, Cmod!is_dmi
  <2>3. StatusInv'
    BY <1>4 DEF Cmod!Return, CmodTypes, StatusInv
  <2> QED BY <2>1, <2>2, <2>3 DEF CmodCore
<1>5. CASE Cmod!Reported(p)
  <2>1. CmodTypes'
    BY <1>5 DEF Cmod!Reported, CmodTypes
  <2>2. MutexInv'
    BY <1>5 DEF Cmod!Reported, CmodTypes, MutexInv, Cmod!is_dmi
  <2>3. StatusInv'
    BY <1>5 DEF Cmod!Reported, CmodTypes, StatusInv
  <2> QED BY <2>1, <2>2, <2>3 DEF CmodCore
<1> QED BY <1>1, <1>2, <1>3, <1>4, <1>5 DEF Cmod!PortStep

(* The same for the CPU, its accesses to the core, and the interrupt.      *)
LEMMA CpuKeeps ==
  ASSUME CmodCore, UNCHANGED mutex,
         \/ Cmod!CpuLock \/ Cmod!CpuUnlock \/ Cmod!CpuAccess \/ Cmod!HostStep
         \/ Cmod!IrqStep \/ \E v \in BOOLEAN : Cmod!CoreWrites(v)
  PROVE  CmodCore'
<1> USE DEF CmodCore, Cmod!Port, Cmod!Status, Cmod!portVars, Cmod!hostVars, Cmod!irqVars
<1>1. CASE Cmod!CpuLock
  <2>1. CmodTypes'
    BY <1>1 DEF Cmod!CpuLock, CmodTypes
  <2>2. MutexInv'
    BY <1>1 DEF Cmod!CpuLock, CmodTypes, MutexInv, Cmod!is_dmi
  <2>3. StatusInv'
    BY <1>1 DEF Cmod!CpuLock, CmodTypes, StatusInv
  <2> QED BY <2>1, <2>2, <2>3 DEF CmodCore
<1>2. CASE Cmod!CpuUnlock
  <2>1. CmodTypes'
    BY <1>2 DEF Cmod!CpuUnlock, CmodTypes
  <2>2. MutexInv'
    BY <1>2 DEF Cmod!CpuUnlock, CmodTypes, MutexInv, Cmod!is_dmi
  <2>3. StatusInv'
    BY <1>2 DEF Cmod!CpuUnlock, CmodTypes, StatusInv
  <2> QED BY <2>1, <2>2, <2>3 DEF CmodCore
<1>3. CASE Cmod!CpuAccess
  <2>1. CmodTypes'
    BY <1>3 DEF Cmod!CpuAccess, CmodTypes
  <2>2. MutexInv'
    BY <1>3 DEF Cmod!CpuAccess, CmodTypes, MutexInv, Cmod!is_dmi
  <2>3. StatusInv'
    BY <1>3 DEF Cmod!CpuAccess, CmodTypes, StatusInv
  <2> QED BY <2>1, <2>2, <2>3 DEF CmodCore
<1>4. CASE Cmod!HostCall
  <2>1. CmodTypes'
    BY <1>4 DEF Cmod!HostCall, CmodTypes
  <2>2. MutexInv'
    BY <1>4 DEF Cmod!HostCall, CmodTypes, MutexInv, Cmod!is_dmi
  <2>3. StatusInv'
    BY <1>4 DEF Cmod!HostCall, CmodTypes, StatusInv
  <2> QED BY <2>1, <2>2, <2>3 DEF CmodCore
<1>5. CASE Cmod!HostServe
  <2>1. CmodTypes'
    BY <1>5 DEF Cmod!HostServe, CmodTypes
  <2>2. MutexInv'
    BY <1>5 DEF Cmod!HostServe, CmodTypes, MutexInv, Cmod!is_dmi
  <2>3. StatusInv'
    BY <1>5 DEF Cmod!HostServe, CmodTypes, StatusInv
  <2> QED BY <2>1, <2>2, <2>3 DEF CmodCore
<1>6. CASE Cmod!HostReturn
  <2>1. CmodTypes'
    BY <1>6 DEF Cmod!HostReturn, CmodTypes
  <2>2. MutexInv'
    BY <1>6 DEF Cmod!HostReturn, CmodTypes, MutexInv, Cmod!is_dmi
  <2>3. StatusInv'
    BY <1>6 DEF Cmod!HostReturn, CmodTypes, StatusInv
  <2> QED BY <2>1, <2>2, <2>3 DEF CmodCore
<1>7. CASE Cmod!HostReported
  <2>1. CmodTypes'
    BY <1>7 DEF Cmod!HostReported, CmodTypes
  <2>2. MutexInv'
    BY <1>7 DEF Cmod!HostReported, CmodTypes, MutexInv, Cmod!is_dmi
  <2>3. StatusInv'
    BY <1>7 DEF Cmod!HostReported, CmodTypes, StatusInv
  <2> QED BY <2>1, <2>2, <2>3 DEF CmodCore
<1>8. CASE Cmod!IrqStep
  <2>1. CmodTypes'
    BY <1>8 DEF Cmod!IrqStep, Cmod!Update, Cmod!Transport, CmodTypes
  <2>2. MutexInv'
    BY <1>8 DEF Cmod!IrqStep, Cmod!Update, Cmod!Transport, CmodTypes, MutexInv, Cmod!is_dmi
  <2>3. StatusInv'
    BY <1>8 DEF Cmod!IrqStep, Cmod!Update, Cmod!Transport, CmodTypes, StatusInv
  <2> QED BY <2>1, <2>2, <2>3 DEF CmodCore
<1>9. CASE \E v \in BOOLEAN : Cmod!CoreWrites(v)
  <2>1. CmodTypes'
    BY <1>9 DEF Cmod!CoreWrites, CmodTypes
  <2>2. MutexInv'
    BY <1>9 DEF Cmod!CoreWrites, CmodTypes, MutexInv, Cmod!is_dmi
  <2>3. StatusInv'
    BY <1>9 DEF Cmod!CoreWrites, CmodTypes, StatusInv
  <2> QED BY <2>1, <2>2, <2>3 DEF CmodCore
<1> QED BY <1>1, <1>2, <1>3, <1>4, <1>5, <1>6, <1>7, <1>8, <1>9 DEF Cmod!HostStep

(* Every step of the C model keeps the mutex and the status in order.      *)
LEMMA CmodKeeps ==
  ASSUME CmodCore, UNCHANGED mutex, Cmod!Next
  PROVE  CmodCore'
BY PortKeeps, CpuKeeps DEF Cmod!Next

(* The direct accesses of the CPU and those of the first port stay apart.  *)
LEMMA CmodExclusive ==
  ASSUME CmodCore
  PROVE  DmiExclusive
BY DEF CmodCore, MutexInv, DmiExclusive, Cmod!DmiExclusive

(* An access that leaves the bus takes the status of its own request.      *)
LEMMA CmodOwnStatus ==
  ASSUME CmodCore, Cmod!Next
  PROVE  Cmod!OwnStatus
<1> USE DEF CmodCore, CmodTypes, Cmod!Port, Cmod!Status, Cmod!TransactionOf, Cmod!Txn, Cmod!Go,
            Cmod!portVars, Cmod!hostVars, Cmod!irqVars
<1>1. ASSUME NEW p \in Cmod!Port, Cmod!Request(p) \/ Cmod!Lock(p) \/ Cmod!Transact(p) \/ Cmod!Reported(p)
      PROVE  Cmod!OwnStatus
  BY <1>1 DEF Cmod!OwnStatus, Cmod!Request, Cmod!Lock, Cmod!Transact, Cmod!Reported
<1>2. ASSUME NEW p \in Cmod!Port, Cmod!Return(p) PROVE Cmod!OwnStatus
  BY <1>2 DEF Cmod!OwnStatus, Cmod!Return, StatusInv
<1>3. CASE Cmod!CpuLock \/ Cmod!CpuUnlock \/ Cmod!CpuAccess
  BY <1>3 DEF Cmod!OwnStatus, Cmod!CpuLock, Cmod!CpuUnlock, Cmod!CpuAccess
<1>4. CASE Cmod!HostStep
  BY <1>4 DEF Cmod!OwnStatus, Cmod!HostStep, Cmod!HostCall, Cmod!HostServe, Cmod!HostReturn,
              Cmod!HostReported, StatusInv
<1>5. CASE Cmod!IrqStep
  BY <1>5 DEF Cmod!OwnStatus, Cmod!IrqStep, Cmod!Update, Cmod!Transport
<1>6. CASE \E v \in BOOLEAN : Cmod!CoreWrites(v)
  BY <1>6 DEF Cmod!OwnStatus, Cmod!CoreWrites
<1> QED BY <1>1, <1>2, <1>3, <1>4, <1>5, <1>6 DEF Cmod!Next, Cmod!PortStep

------------------------------------------------------------------------------

(* The invariant of the whole platform.                                    *)
PlatformInv == HostInv /\ LogInv /\ BusInv /\ CmodInv

(* It holds when sc_main is entered.                                       *)
LEMMA PlatformInitInv == PlatformInit => PlatformInv
<1> SUFFICES ASSUME PlatformInit PROVE PlatformInv
  OBVIOUS
<1> USE DEF PlatformInit
<1>1. HostInv
  <2> USE DEF Top!Init, Early, Loading, Building, AllBars
  <2>1. HostTypes
    BY DEF HostTypes, Top!NoMsi
  <2>2. NoFailure
    BY DEF NoFailure
  <2>3. SlotInv
    BY DEF SlotInv
  <2>4. BuiltInv
    BY DEF BuiltInv
  <2> QED BY <2>1, <2>2, <2>3, <2>4 DEF HostInv
<1>2. LogInv
  <2>1. Top!DefaultConfig \in Configs
    BY DEF Top!DefaultConfig, Configs, Actions, Top!AllDefault, Top!Verbosities
  <2> QED BY <2>1 DEF LogInv, Top!Init
<1>3. BusInv
  <2>1. TypeOK
    BY LenAssumption DEF TypeOK, Init
  <2>2. BusQuiet
    BY DEF BusQuiet, Init
  <2>3. InStep /\ ReportedIfNoneReached /\ TriesAll
    BY DEF InStep, ReportedIfNoneReached, TriesAll, Done, Init
  <2> QED BY <2>1, <2>2, <2>3 DEF BusInv
<1>4. CmodInv
  BY CmodAtRest DEF CmodInv, CmodCore
<1> QED BY <1>1, <1>2, <1>3, <1>4 DEF PlatformInv

(* Only sc_start() runs the simulation: sc_main does nothing meanwhile.    *)
LEMMA NotRunning ==
  ASSUME Top!Startup \/ Top!Cleanup
  PROVE  stage # "run" /\ stage # "exit"
<1>1. ASSUME Top!Help \/ Top!BadArgs \/ Top!ArgsGiven \/ Top!LogDone \/ Top!NoFpga
             \/ Top!FpgaLibrary \/ Top!FpgaFails \/ \E e \in Top!Entries : Top!LogEntry(e)
      PROVE  stage # "run" /\ stage # "exit"
  BY <1>1 DEF Top!Help, Top!BadArgs, Top!ArgsGiven, Top!LogDone, Top!LogEntry, Top!NoFpga,
              Top!FpgaLibrary, Top!FpgaFails
<1>2. ASSUME Top!AfiReady \/ Top!AfiOther \/ Top!Rescan \/ Top!AfiRefused \/ Top!Attach
             \/ Top!OpenMsi \/ Top!FpgaDone
      PROVE  stage # "run" /\ stage # "exit"
  BY <1>2 DEF Top!AfiReady, Top!AfiOther, Top!Rescan, Top!AfiRefused, Top!Attach, Top!OpenMsi,
              Top!FpgaDone
<1>3. ASSUME Top!Options \/ Top!BuildCpu \/ Top!BuildRam \/ Top!BuildNvdla \/ Top!ExecSimv
             \/ Top!ExecFails \/ Top!ScStart \/ Top!Cleanup
      PROVE  stage # "run" /\ stage # "exit"
  BY <1>3 DEF Top!Options, Top!BuildCpu, Top!BuildRam, Top!BuildNvdla, Top!ExecSimv,
              Top!ExecFails, Top!ScStart, Top!Cleanup, Top!CloseMsi, Top!Detach
<1> QED BY <1>1, <1>2, <1>3 DEF Top!Startup

(* A bridge with no access in progress is in order, whatever errors do.    *)
LEMMA BusAtRest ==
  ASSUME TypeOK, throws' \in BOOLEAN, addr' \in 0 .. MaxAddr, cmd' \in {"WR", "RD"},
         pc' = "idle", size' = 0, len' = 0, index' = 0, ret' = TRUE, good' = {}, bad' = {},
         report' = "none"
  PROVE  BusInv'
<1>1. TypeOK'
  BY LenAssumption DEF TypeOK
<1>2. InStep' /\ ReportedIfNoneReached' /\ TriesAll' /\ BusQuiet'
  BY DEF InStep, ReportedIfNoneReached, TriesAll, Done, BusQuiet
<1> QED BY <1>1, <1>2 DEF BusInv

(* Every step of the platform keeps the invariant.                         *)
LEMMA PlatformStepInv ==
  ASSUME PlatformInv, [PlatformNext]_platform
  PROVE  PlatformInv'
<1> USE DEF PlatformInv
<1>1. CASE (Top!Startup \/ Top!Cleanup) /\ UNCHANGED <<busVars, cmodVars>>
  <2>1. HostStep
    BY <1>1 DEF HostStep
  <2>2. HostInv' /\ LogInv'
    BY <2>1, HostStepInv, LogStepInv
  <2>3. stage # "run" /\ stage # "exit"
    BY <1>1, NotRunning
  <2>4. /\ TypeOK
        /\ pc = "idle" /\ size = 0 /\ len = 0 /\ index = 0
        /\ ret = TRUE /\ good = {} /\ bad = {} /\ report = "none"
    BY <2>3 DEF BusInv, BusQuiet
  <2>5. BusInv'
    BY <1>1, <2>2, <2>4, BusAtRest DEF busVars, LogInv, TypeOK
  <2>6. Cmod!Init'
    BY <1>1, <2>3 DEF CmodInv, cmodVars, Cmod!Init, Cmod!PortInit, Cmod!HostInit, Cmod!IrqInit
  <2>7. CmodInv'
    BY <2>6, CmodAtRestNext DEF CmodInv, CmodCore
  <2> QED BY <2>2, <2>5, <2>7
<1>2. CASE Stop
  <2>1. HostInv' /\ LogInv'
    BY <1>2, HostStepInv, LogStepInv DEF Stop, HostStep
  <2>2. BusInv'
    <3>1. TypeOK /\ throws' \in BOOLEAN /\ 0 \in 0 .. MaxAddr
      BY <2>1, LenAssumption DEF BusInv, LogInv
    <3> QED BY <1>2, <3>1, BusAtRest DEF Stop
  <2>3. Cmod!Init'
    BY <1>2 DEF Stop, Cmod!Over, Cmod!Init, Cmod!PortInit, Cmod!HostInit, Cmod!IrqInit
  <2>4. CmodInv'
    BY <2>3, CmodAtRestNext DEF CmodInv, CmodCore
  <2> QED BY <2>1, <2>2, <2>4
<1>3. CASE Abort
  <2>1. HostInv' /\ LogInv'
    BY <1>3, HostStepInv, LogStepInv DEF Abort, HostStep
  <2>2. stage' = "exit" /\ UNCHANGED vars
    BY <1>3 DEF Abort, Top!ScAbort, Top!Fail, Top!Exit, Top!logVars, busVars, vars
  <2>3. TypeOK' /\ InStep' /\ ReportedIfNoneReached' /\ TriesAll'
    BY <2>2 DEF vars, BusInv, TypeOK, InStep, ReportedIfNoneReached, TriesAll, Done, Whole, Misaligned,
                     Truncated
  <2>4. BusInv'
    BY <2>2, <2>3 DEF BusInv, BusQuiet
  <2>5. Cmod!Init'
    BY <1>3 DEF Abort, Cmod!Over, Cmod!Init, Cmod!PortInit, Cmod!HostInit, Cmod!IrqInit
  <2>6. CmodInv'
    BY <2>5, CmodAtRestNext DEF CmodInv, CmodCore
  <2> QED BY <2>1, <2>4, <2>6
<1>4. ASSUME UNCHANGED <<hostVars, throws>> PROVE HostInv' /\ LogInv'
  <2>1. HostInv'
    BY <1>4 DEF hostVars, HostInv, HostTypes, NoFailure, SlotInv, Attaching, Detaching, Opened,
                NoneOpen, BuiltInv
  <2>2. LogInv'
    <3>1. UNCHANGED <<config, entries, throws, stage>>
      BY <1>4 DEF hostVars
    <3>2. Follows' <=> Follows
      BY <3>1 DEF Follows, HasLast, IsLast, Top!IsSet
    <3> QED BY <3>1, <3>2 DEF LogInv
  <2> QED BY <2>1, <2>2
<1>5. ASSUME UNCHANGED <<vars, stage>> PROVE BusInv'
  BY <1>5 DEF vars, BusInv, BusQuiet, TypeOK, InStep, ReportedIfNoneReached, TriesAll, Done, Whole, Truncated,
              Misaligned
<1>6. ASSUME UNCHANGED <<cmodVars, stage, mutex>> PROVE CmodInv'
  BY <1>6 DEF cmodVars, CmodInv, CmodTypes, MutexInv, StatusInv, Cmod!is_dmi, Cmod!Init,
              Cmod!PortInit, Cmod!HostInit, Cmod!IrqInit
<1>7. CASE Access
  <2>1. stage = "run" /\ Next /\ UNCHANGED <<hostVars, cmodVars>>
    BY <1>7 DEF Access
  <2>2. throws' = throws
    BY <2>1 DEF Next, Begin, Word, Byte, NoByte, Report, access
  <2>3. BusCore'
    BY <2>1, AccessKeeps DEF BusInv, BusCore
  <2>4. BusInv'
    BY <2>1, <2>3 DEF BusCore, BusInv, BusQuiet, hostVars
  <2> QED BY <1>4, <1>6, <2>1, <2>2, <2>4 DEF hostVars
<1>8. CASE NvdlaStep
  <2>1. stage = "run" /\ Cmod!Next /\ UNCHANGED <<vars, hostVars>>
    BY <1>8 DEF NvdlaStep, OnCmod
  <2>2. throws' = throws /\ mutex' = mutex /\ stage' = stage
    BY <2>1 DEF vars, hostVars
  <2>3. CmodCore'
    BY <2>1, <2>2, CmodKeeps DEF CmodInv, CmodCore
  <2>4. CmodInv'
    BY <2>1, <2>2, <2>3 DEF CmodInv, CmodCore
  <2> QED BY <1>4, <1>5, <2>1, <2>2, <2>4
<1>9. CASE UNCHANGED platform
  <2>1. UNCHANGED <<vars, hostVars, cmodVars>> /\ UNCHANGED <<throws, stage, mutex>>
    BY <1>9 DEF platform, vars, hostVars
  <2> QED BY <1>4, <1>5, <1>6, <2>1
<1> QED BY <1>1, <1>2, <1>3, <1>7, <1>8, <1>9 DEF PlatformNext, Exited

------------------------------------------------------------------------------

(* The invariant holds in every state of every run of the platform, for    *)
(* every build, configuration, FPGA and length of access.                  *)
THEOREM PlatformInvariant == PlatformSpec => []PlatformInv
<1>1. PlatformInit => PlatformInv
  BY PlatformInitInv
<1>2. PlatformInv /\ [PlatformNext]_platform => PlatformInv'
  BY PlatformStepInv
<1> QED BY <1>1, <1>2, PTL DEF PlatformSpec

(* Gsgp2fpga's variables keep their types; the remaining length, a signed  *)
(* int in data_write() and data_read(), never becomes negative.            *)
THEOREM BridgeTypeCorrect == PlatformSpec => []TypeOK
<1>1. PlatformInv => TypeOK
  BY DEF PlatformInv, BusInv
<1> QED BY <1>1, PlatformInvariant, PTL

(* b_transact() reports an access as failed exactly if no byte of it was   *)
(* reached, and a write tries no byte outside the access.                  *)
THEOREM FailureReported == PlatformSpec => []ReportedIfNoneReached
<1>1. PlatformInv => ReportedIfNoneReached
  BY DEF PlatformInv, BusInv
<1> QED BY <1>1, PlatformInvariant, PTL

(* data_write() and data_read() try each byte of an aligned access.        *)
THEOREM WholeTried == PlatformSpec => []TriesAll
<1>1. PlatformInv => TriesAll
  BY DEF PlatformInv, BusInv
<1> QED BY <1>1, PlatformInvariant, PTL

(* log_parse(): errors throw as the last valid entry says, after any       *)
(* number of entries, and "Should not come here" is never printed.         *)
THEOREM LogFollowed == PlatformSpec => []LogAsConfigured
<1>1. PlatformInv => LogAsConfigured
  BY LogFollows DEF PlatformInv
<1> QED BY <1>1, PlatformInvariant, PTL

(* sc_main starts a simulation only with all that it was promised.         *)
THEOREM RunsWired == PlatformSpec => []Wired
<1>1. PlatformInv => Wired
  BY DEF PlatformInv, HostInv, SlotInv, BuiltInv, Opened, AllBars, Building, Early, Loading,
         Wired, Top!Wired
<1> QED BY <1>1, PlatformInvariant, PTL

(* aws_fpga_cleanup() leaves only what refused to be detached, and sc_main *)
(* returns success only if no call failed.                                 *)
THEOREM EndsClean == PlatformSpec => []CleanedUp
<1>1. PlatformInv => CleanedUp
  <2> SUFFICES ASSUME PlatformInv PROVE Top!CleanedUp
    BY DEF CleanedUp
  <2>1. code # "none" => stage = "exit"
    BY DEF PlatformInv, HostInv, NoFailure
  <2> QED BY <2>1 DEF PlatformInv, HostInv, NoFailure, SlotInv, NoneOpen, Top!CleanedUp
<1> QED BY <1>1, PlatformInvariant, PTL

(* Tlm2gsgp and the CPU never access the memory at the same time, and the  *)
(* mutex is held by nobody who has no access under way.                    *)
THEOREM DmiApart == PlatformSpec => []DmiExclusive
<1>1. PlatformInv => DmiExclusive
  BY CmodExclusive DEF PlatformInv, CmodInv, CmodCore
<1> QED BY <1>1, PlatformInvariant, PTL

(* An access through Tlm2gsgp or Gsgp2tlm is reported as failed exactly if *)
(* its own request has failed.                                             *)
THEOREM StatusIsOwn == PlatformSpec => OwnStatus
<1>1. ASSUME PlatformInv, [PlatformNext]_platform
      PROVE  [stage' = "run" => Cmod!OwnStatus]_platform
  <2> SUFFICES ASSUME PlatformNext, stage' = "run" PROVE Cmod!OwnStatus
    BY <1>1
  <2>1. CASE NvdlaStep
    BY <1>1, <2>1, CmodOwnStatus DEF NvdlaStep, PlatformInv, CmodInv, CmodCore
  <2>2. CASE UNCHANGED cmodVars
    BY <2>2 DEF cmodVars, Cmod!OwnStatus
  <2>3. ~Stop /\ ~Abort
    BY DEF Stop, Abort, Top!ScStop, Top!ScAbort, Top!Goto, Top!Fail, Top!Exit
  <2> QED BY <2>1, <2>2, <2>3 DEF PlatformNext, Access, Exited, platform
<1> QED BY <1>1, PlatformInvariant, PTL DEF PlatformSpec, OwnStatus
=============================================================================
