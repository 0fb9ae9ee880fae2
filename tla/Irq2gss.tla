------------------------------ MODULE Irq2gss ------------------------------
(***************************************************************************)
(* The interrupt line of the co-simulated NVDLA (irq2gss::transport): the  *)
(* RTL publishes each change of its interrupt register in the key "up" of  *)
(* the shared database; the SystemC thread takes it, acknowledges it in    *)
(* "dn", waits without a timeout for the acknowledgement to be taken, and  *)
(* drives the interrupt line of the CPU.                                   *)
(*                                                                         *)
(* The constructor deletes the keys it finds in the database.  A get() of  *)
(* transport asks for the length of the value first, which decides whether *)
(* there is one, and then reads it; a value that has changed in between    *)
(* may be read as zeros.                                                   *)
(*                                                                         *)
(* The n-th change carries bit 0 of n, so the line goes up and down.  The  *)
(* RTL side is external, modelled from what transport expects of it.       *)
(***************************************************************************)
EXTENDS KeyScan, Sequences

CONSTANT MaxChange   \* bound: changes of the register

ASSUME IrqAssumption == MaxChange \in Nat \ {0}

None == -1
Old == 0                 \* what an earlier run left behind
Zeros == -2              \* the value of a get() that found the length only
Change == 1 .. MaxChange
Status == Old .. MaxChange
Box == Status \union {None, Zeros}

VARIABLES
  up, dn,      \* the two keys of the database
  pc,          \* where transport stands
  tpvUp, tpvDn,\* what it has read of them
  sent,        \* the changes driven on the line, in order
  rtl,         \* where the RTL stands
  last,        \* the last change the RTL has published
  clean        \* ghost: no key of an earlier run was there at the start

irqVars == <<up, dn, pc, tpvUp, tpvDn, sent, rtl, last, clean>>
vars == <<irqVars, scanVars>>

Init ==
  /\ ScanInit(Tables({"up", "dn"}))
  /\ up = None /\ dn = None /\ clean = TRUE
  /\ pc = "ctor" /\ tpvUp = None /\ tpvDn = None /\ sent = <<>>
  /\ rtl = "run" /\ last = 0

------------------------------------------------------------------------------

(* The constructor: getKeyStrs() ...                                       *)
CtorScan == pc = "ctor" /\ NxtKey /\ UNCHANGED irqVars

(* ... and del() of what it lists.  The list may be cut short; then keys   *)
(* of an earlier run stay.                                                 *)
CtorDel ==
  /\ pc = "ctor" /\ DelListed
  /\ up' = IF "up" \in Left THEN Old ELSE None
  /\ dn' = IF "dn" \in Left THEN Old ELSE None
  /\ clean' = (Left = {})
  /\ pc' = "get_up"
  /\ UNCHANGED <<tpvUp, tpvDn, sent, rtl, last>>

(* What a get() may read of a key that had the value a when its length was *)
(* taken and has the value b now: the search for it may miss a value that  *)
(* is replaced while it goes on, and then leaves the buffer as it was.     *)
Reads(a, b) == IF b = a THEN {b} ELSE IF b = None THEN {Zeros} ELSE {b, Zeros}

------------------------------------------------------------------------------

(* get(): the length ...                                                   *)
LenUp ==
  /\ pc = "get_up"
  /\ tpvUp' = up
  /\ pc' = IF up = None THEN "get_dn" ELSE "read_up"
  /\ UNCHANGED <<up, dn, tpvDn, sent, rtl, last, clean>>

(* ... and the value.                                                      *)
GetUp ==
  /\ pc = "read_up"
  /\ tpvUp' \in Reads(tpvUp, up)
  /\ pc' = "get_dn"
  /\ UNCHANGED <<up, dn, tpvDn, sent, rtl, last, clean>>

(* Mutant: the thread goes on although nothing is published.               *)
GetDnAnyway ==
  /\ pc = "get_dn"
  /\ tpvDn' = dn
  /\ pc' = "del_dn"
  /\ UNCHANGED <<up, dn, tpvUp, sent, rtl, last, clean>>

(* Nothing published: the thread sleeps and looks again.                   *)
GetDn ==
  /\ pc = "get_dn"
  /\ tpvDn' = dn
  /\ pc' = IF tpvUp = None THEN "get_up" ELSE "del_dn"
  /\ UNCHANGED <<up, dn, tpvUp, sent, rtl, last, clean>>

(* "The last INT down stream FIFO is not empty!"                           *)
DelDn ==
  /\ pc = "del_dn"
  /\ dn' = IF tpvDn # None THEN None ELSE dn
  /\ pc' = "del_up"
  /\ UNCHANGED <<up, tpvUp, tpvDn, sent, rtl, last, clean>>

(* Mutant: the published change stays.                                     *)
DelUpSkipped ==
  /\ pc = "del_up"
  /\ pc' = "put_dn"
  /\ UNCHANGED <<up, dn, tpvUp, tpvDn, sent, rtl, last, clean>>

DelUp ==
  /\ pc = "del_up"
  /\ up' = None
  /\ pc' = "put_dn"
  /\ UNCHANGED <<dn, tpvUp, tpvDn, sent, rtl, last, clean>>

(* Mutant: no acknowledgement.                                             *)
PutDnSkipped ==
  /\ pc = "put_dn"
  /\ pc' = "poll"
  /\ UNCHANGED <<up, dn, tpvUp, tpvDn, sent, rtl, last, clean>>

(* "clear the INT"                                                         *)
PutDn ==
  /\ pc = "put_dn"
  /\ dn' = tpvUp
  /\ pc' = "poll"
  /\ UNCHANGED <<up, tpvUp, tpvDn, sent, rtl, last, clean>>

(* Mutant: the loop waits for the acknowledgement to appear.               *)
PollInverted ==
  /\ pc = "poll"
  /\ tpvDn' = dn
  /\ pc' = IF dn # None THEN "send" ELSE "poll"
  /\ UNCHANGED <<up, dn, tpvUp, sent, rtl, last, clean>>

(* Look once a nanosecond until the acknowledgement is gone.               *)
Poll ==
  /\ pc = "poll"
  /\ tpvDn' = dn
  /\ pc' = IF dn = None THEN "send" ELSE "poll"
  /\ UNCHANGED <<up, dn, tpvUp, sent, rtl, last, clean>>

(* data.value was taken from the status before the acknowledgement.        *)
Transmit ==
  /\ pc = "send"
  /\ sent' = Append(sent, tpvUp)
  /\ pc' = "get_up"
  /\ UNCHANGED <<up, dn, tpvUp, tpvDn, rtl, last, clean>>

(* The RTL, external, started after the constructor: publish a change,     *)
(* wait for dn, take it.                                                   *)
RtlPut ==
  /\ rtl = "run" /\ last < MaxChange /\ pc # "ctor"
  /\ last' = last + 1
  /\ up' = last + 1
  /\ rtl' = "wait"
  /\ UNCHANGED <<dn, pc, tpvUp, tpvDn, sent, clean, scanVars>>

RtlDel ==
  /\ rtl = "wait" /\ dn # None
  /\ dn' = None
  /\ rtl' = "run"
  /\ UNCHANGED <<up, pc, tpvUp, tpvDn, sent, last, clean, scanVars>>

Transport ==
  /\ LenUp \/ GetUp \/ GetDn \/ DelDn \/ DelUp \/ PutDn \/ Poll \/ Transmit
  /\ UNCHANGED scanVars

Next == CtorScan \/ CtorDel \/ Transport \/ RtlPut \/ RtlDel

Spec == Init /\ [][Next]_vars

(* The SystemC thread always wakes up again, and an RTL that has published *)
(* a change takes its acknowledgement; it need not publish another.        *)
FairSpec == Spec /\ WF_vars(Transport) /\ WF_vars(RtlDel)

------------------------------------------------------------------------------

Level(n) == n % 2
Line == IF sent = <<>> THEN 0 ELSE Level(sent[Len(sent)])

(* Every variable has the type the code declares for it.                   *)
TypeOK ==
  /\ up \in Box /\ dn \in Box /\ tpvUp \in Box /\ tpvDn \in Box
  /\ pc \in {"ctor", "get_up", "read_up", "get_dn", "del_dn", "del_up", "put_dn", "poll", "send"}
  /\ sent \in Seq(Status \union {Zeros})
  /\ rtl \in {"run", "wait"} /\ last \in 0 .. MaxChange /\ clean \in BOOLEAN
  /\ nxtChIdx \in Slot /\ srchCnt \in Nat /\ listed \subseteq {"up", "dn"}

(* No change reaches the line twice or after a later one, whatever an      *)
(* earlier run left in the database: an acknowledgement or a change that   *)
(* is read again would drive the line a second time.  A status that the    *)
(* RTL never published, zeros of a get() in two steps, is driven only when *)
(* keys of an earlier run put the two out of step.                         *)
InOrder ==
  /\ \A i, j \in DOMAIN sent :
       i < j /\ Zeros \notin {sent[i], sent[j]} => sent[i] < sent[j]
  /\ clean => \A i \in DOMAIN sent : sent[i] \in Change

(* Nothing is dropped on the way: when the RTL may publish the next change *)
(* every earlier one has been driven or is about to be.  A key that an     *)
(* earlier run left would let the RTL overwrite its first change.          *)
NoneSkipped ==
  clean /\ rtl = "run" => \A n \in 1 .. last :
    (\E i \in DOMAIN sent : sent[i] = n) \/ (pc \in {"poll", "send"} /\ tpvUp = n)

(* An RTL that has published a change is let go: transport and RTL never   *)
(* wait for each other, although neither has a timeout.                    *)
RtlReleased == (rtl = "wait") ~> (rtl = "run")

(* The CPU's line ends at the level of the RTL's last change, unless keys  *)
(* of an earlier run put the two out of step.                              *)
LineFollows ==
  \A n \in Change : (clean /\ last = n) ~> (last > n \/ Line = Level(n))
=============================================================================
