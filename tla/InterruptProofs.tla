--------------------------- MODULE InterruptProofs ---------------------------
(***************************************************************************)
(* Proofs about the two interrupt lines.  The first part is about the      *)
(* co-simulated NVDLA (irq2gss), for any number of changes of the register *)
(* and any table an earlier run left; the second about the FPGA (Msi2gss), *)
(* for any number of interrupts.                                           *)
(***************************************************************************)
EXTENDS Irq2gss, Msi2gss, KeyScanProofs

(* transport is past its look at "up" and has a status in its hands;       *)
(* before and after it has deleted the key.                                *)
Before == tpvUp # None /\ pc \in {"read_up", "get_dn", "del_dn", "del_up"}
After == pc \in {"put_dn", "poll", "send"}

(* Whatever an earlier run left, what is published is newer than what is   *)
(* in the hands of transport, once the key is deleted, and that is newer   *)
(* than all that has been sent.                                            *)
Order ==
  /\ up # Zeros /\ up <= last /\ tpvUp <= last
  /\ \A k \in DOMAIN sent : sent[k] <= last /\ (up # None => sent[k] < up)
  /\ (Before \/ After) /\ tpvUp # Zeros => \A k \in DOMAIN sent : sent[k] < tpvUp
  /\ Before => up # None /\ tpvUp <= up
  /\ After /\ up # None => tpvUp < up
  /\ pc = "ctor" => up = None /\ dn = None /\ tpvUp = None /\ sent = <<>> /\ last = 0
                    /\ rtl = "run" /\ clean

Increasing ==
  \A k, l \in DOMAIN sent : k < l /\ Zeros \notin {sent[k], sent[l]} => sent[k] < sent[l]

(* The five places where a change can be while transport and RTL are in    *)
(* step: nothing is under way; a change is published; it is acknowledged   *)
(* but not yet sent, with the acknowledgement still there, taken, or taken *)
(* and followed by the next change.                                        *)
Quiet ==
  /\ rtl = "run" /\ up = None /\ dn = None /\ Len(sent) = last
  /\ pc \in {"ctor", "get_up"} \/ (pc = "get_dn" /\ tpvUp = None)

Published ==
  /\ rtl = "wait" /\ up = last /\ dn = None /\ Len(sent) = last - 1
  /\ \/ pc = "get_up" \/ (pc = "get_dn" /\ tpvUp = None)
     \/ pc \in {"read_up", "get_dn", "del_dn", "del_up"} /\ tpvUp = last

Acknowledged ==
  /\ rtl = "wait" /\ up = None /\ Len(sent) = last - 1 /\ tpvUp = last
  /\ (pc = "put_dn" /\ dn = None) \/ (pc = "poll" /\ dn = last)

Released ==
  /\ rtl = "run" /\ up = None /\ dn = None /\ Len(sent) = last - 1 /\ tpvUp = last
  /\ pc \in {"poll", "send"}

Overlapped ==
  /\ rtl = "wait" /\ up = last /\ dn = None /\ Len(sent) = last - 2 /\ tpvUp = last - 1
  /\ pc \in {"poll", "send"}

InStep ==
  clean => /\ \A k \in DOMAIN sent : sent[k] = k
           /\ Quiet \/ Published \/ Acknowledged \/ Released \/ Overlapped

IrqInv == Order /\ Increasing /\ InStep

(* transport goes on only with a status in its hands.                      *)
HasStatus == pc \in {"read_up", "del_dn", "del_up"} \/ After => tpvUp # None

(* The table holds nothing but the two keys.                               *)
SlotsOK == slots \in [Slot -> {"up", "dn"} \union {EMPTY, DELETED}]

------------------------------------------------------------------------------

(* The scan of the constructor lists none but the two keys.                *)
LEMMA ListedKeys ==
  ASSUME SlotsOK, ScanTypeOK
  PROVE  listed \subseteq {"up", "dn"}
BY DEF SlotsOK, ScanTypeOK, Present, Taken

(* The types hold when the RTL and the platform are started.               *)
LEMMA InitTypes == Init => TypeOK /\ SlotsOK /\ ScanInv /\ HasStatus
<1> SUFFICES ASSUME Init PROVE TypeOK /\ SlotsOK /\ ScanInv /\ HasStatus
  OBVIOUS
<1>1. nxtChIdx = 0 /\ srchCnt = 0 /\ listed = {}
  BY DEF Init, ScanInit
<1>2. ScanInv
  BY <1>1, ScanInitInv
<1>3. slots \in Tables({"up", "dn"})
  BY DEF Init, ScanInit
<1>4. SlotsOK
  BY <1>3 DEF Tables, SlotsOK
<1>5. TypeOK
  BY <1>1, <1>2, IrqAssumption DEF Init, TypeOK, Box, Status, None, Old, ScanInv, ScanTypeOK
<1>6. HasStatus
  BY DEF Init, HasStatus, After
<1> QED BY <1>2, <1>4, <1>5, <1>6

(* Every step of the constructor, of transport and of the RTL keeps them.  *)
LEMMA NextTypes ==
  ASSUME TypeOK, SlotsOK, ScanInv, HasStatus, [Next]_vars
  PROVE  TypeOK' /\ SlotsOK' /\ ScanInv' /\ HasStatus'
<1> USE DEF HasStatus, After
<1>1. CASE CtorScan
  <2>1. SlotsOK' /\ ScanInv'
    BY <1>1, ScanStep DEF CtorScan, NxtKey, SlotsOK
  <2>2. listed' \subseteq {"up", "dn"}
    BY <2>1 DEF SlotsOK, ScanInv, ScanTypeOK, Present, Taken
  <2> QED BY <1>1, <2>1, <2>2 DEF CtorScan, irqVars, TypeOK, ScanInv, ScanTypeOK
<1>2. CASE CtorDel
  <2>1. ScanInv'
    BY <1>2, DelListedInv DEF CtorDel
  <2>2. SlotsOK' /\ listed' = {}
    BY <1>2 DEF CtorDel, DelListed, SlotsOK, NoTable
  <2>3. up' \in Box /\ dn' \in Box /\ clean' \in BOOLEAN
    BY <1>2, IrqAssumption DEF CtorDel, Box, Status, Old
  <2> QED BY <1>2, <2>1, <2>2, <2>3 DEF CtorDel, TypeOK, ScanInv, ScanTypeOK
<1>3. CASE UNCHANGED scanVars /\ (Transport \/ RtlPut \/ RtlDel \/ UNCHANGED irqVars)
  <2>1. SlotsOK' /\ ScanInv'
    BY <1>3, ScanUnchanged DEF scanVars, SlotsOK
  <2>2. nxtChIdx' \in Slot /\ srchCnt' \in Nat /\ listed' \subseteq {"up", "dn"}
    BY <1>3 DEF scanVars, TypeOK
  <2>3. CASE LenUp \/ GetDn \/ DelDn \/ DelUp \/ PutDn \/ Poll
    BY <2>1, <2>2, <2>3 DEF LenUp, GetDn, DelDn, DelUp, PutDn, Poll, TypeOK, Box
  <2>4. CASE GetUp
    <3>1. tpvUp' \in Box /\ tpvUp' # None
      BY <2>4 DEF GetUp, Reads, TypeOK, Box, None, Zeros
    <3> QED BY <2>1, <2>2, <2>4, <3>1 DEF GetUp, TypeOK
  <2>5. CASE Transmit
    <3>1. tpvUp \in Status \union {Zeros}
      BY <2>5 DEF Transmit, TypeOK, Box
    <3>2. sent' \in Seq(Status \union {Zeros})
      BY <2>5, <3>1 DEF Transmit, TypeOK
    <3> QED BY <2>1, <2>2, <2>5, <3>2 DEF Transmit, TypeOK
  <2>6. CASE RtlPut
    BY <2>1, <2>2, <2>6, IrqAssumption DEF RtlPut, TypeOK, Box, Status, Old
  <2>7. CASE RtlDel
    BY <2>1, <2>2, <2>7 DEF RtlDel, TypeOK, Box
  <2>8. CASE UNCHANGED irqVars
    BY <2>1, <2>2, <2>8 DEF irqVars, TypeOK
  <2> QED BY <1>3, <2>1, <2>3, <2>4, <2>5, <2>6, <2>7, <2>8 DEF Transport
<1> QED BY <1>1, <1>2, <1>3 DEF Next, Transport, RtlPut, RtlDel, vars, scanVars

(* The invariant of the two sides holds at the start.                      *)
LEMMA InitIrqInv == Init => IrqInv
BY DEF Init, IrqInv, Order, Increasing, InStep, Quiet, Before, After, None, Zeros

(* A step that leaves the line alone keeps the order of what is published, *)
(* in hand and sent.                                                       *)
LEMMA NextOrder ==
  ASSUME TypeOK, HasStatus, Order, Next, UNCHANGED sent
  PROVE  Order'
<1> USE DEF Order, Before, After, None, Zeros, Old
<1>1. /\ last \in Nat /\ up \in Int /\ tpvUp \in Int /\ tpvUp >= -2 /\ up >= -2
      /\ \A k \in DOMAIN sent : sent[k] \in Int
  BY IrqAssumption DEF TypeOK, Box, Status
<1>2. CASE CtorScan
  BY <1>2 DEF CtorScan, irqVars
<1>3. CASE CtorDel
  BY <1>1, <1>3 DEF CtorDel
<1>4. CASE LenUp
  BY <1>1, <1>4 DEF LenUp
<1>5. CASE GetUp
  <2>1. tpvUp # None /\ up # None /\ tpvUp <= up
    BY <1>5 DEF GetUp, HasStatus
  <2>2. tpvUp' \in {up, Zeros}
    BY <1>5, <2>1 DEF GetUp, Reads
  <2> QED BY <1>1, <1>5, <2>1, <2>2 DEF GetUp
<1>6. CASE GetDn
  BY <1>1, <1>6 DEF GetDn
<1>7. CASE DelDn
  BY <1>1, <1>7 DEF DelDn, HasStatus
<1>8. CASE DelUp
  BY <1>1, <1>8 DEF DelUp, HasStatus
<1>9. CASE PutDn \/ Poll
  BY <1>1, <1>9 DEF PutDn, Poll
<1>10. CASE RtlPut
  BY <1>1, <1>10 DEF RtlPut
<1>11. CASE RtlDel
  BY <1>1, <1>11 DEF RtlDel
<1>12. CASE Transmit
  <2>1. Len(sent') = Len(sent) + 1
    BY <1>12 DEF Transmit, TypeOK
  <2> QED BY <2>1 DEF TypeOK
<1> QED BY <1>2, <1>3, <1>4, <1>5, <1>6, <1>7, <1>8, <1>9, <1>10, <1>11, <1>12 DEF Next, Transport

(* transport drives the line with a status that is newer than all it has   *)
(* driven it with before, and older than what is published by now.         *)
LEMMA TransmitOrder ==
  ASSUME TypeOK, HasStatus, Order, Increasing, Transmit
  PROVE  Order' /\ Increasing'
<1>1. /\ last \in Nat /\ up \in Int /\ tpvUp \in Int /\ Len(sent) \in Nat
      /\ DOMAIN sent = 1 .. Len(sent)
      /\ \A k \in DOMAIN sent : sent[k] \in Int
  BY IrqAssumption DEF TypeOK, Box, Status, None, Zeros, Old
<1>2. /\ DOMAIN sent' = 1 .. Len(sent) + 1
      /\ \A k \in DOMAIN sent : sent'[k] = sent[k]
      /\ sent'[Len(sent) + 1] = tpvUp
  BY DEF Transmit, TypeOK
<1>3. UNCHANGED <<up, dn, tpvUp, rtl, last, clean>> /\ pc = "send" /\ pc' = "get_up"
  BY DEF Transmit
<1>4. /\ tpvUp <= last /\ up <= last
      /\ up # None => tpvUp < up
      /\ tpvUp # Zeros => \A k \in DOMAIN sent : sent[k] < tpvUp
      /\ \A k \in DOMAIN sent : sent[k] <= last /\ (up # None => sent[k] < up)
  BY <1>3 DEF Order, After
<1>5. \A k \in DOMAIN sent' : sent'[k] <= last /\ (up # None => sent'[k] < up)
  BY <1>1, <1>2, <1>4
<1>6. Order'
  BY <1>3, <1>4, <1>5 DEF Order, Before, After
<1>7. Increasing'
  <2> SUFFICES ASSUME NEW k \in DOMAIN sent', NEW l \in DOMAIN sent', k < l,
                      Zeros \notin {sent'[k], sent'[l]}
               PROVE  sent'[k] < sent'[l]
    BY DEF Increasing
  <2>1. k \in DOMAIN sent /\ sent'[k] = sent[k]
    BY <1>1, <1>2
  <2>2. CASE l = Len(sent) + 1
    BY <1>2, <1>4, <2>1, <2>2
  <2>3. CASE l # Len(sent) + 1
    <3>1. l \in DOMAIN sent /\ sent'[l] = sent[l]
      BY <1>1, <1>2, <2>3
    <3> QED BY <2>1, <3>1 DEF Increasing
  <2> QED BY <2>2, <2>3
<1> QED BY <1>6, <1>7

(* When no key of an earlier run was there, transport and RTL stay in      *)
(* step: every change is sent, as soon as transport is done with it, at    *)
(* its own place of the sequence.                                          *)
LEMMA NextInStep ==
  ASSUME TypeOK, HasStatus, Order, InStep, Next
  PROVE  InStep'
<1> USE DEF None, Zeros, Quiet, Published, Acknowledged, Released, Overlapped
<1>1. last \in Nat /\ Len(sent) \in Nat /\ DOMAIN sent = 1 .. Len(sent)
  BY IrqAssumption DEF TypeOK
<1>2. CASE CtorScan
  BY <1>2 DEF CtorScan, irqVars, InStep
<1>3. CASE CtorDel
  BY <1>3 DEF CtorDel, InStep, Order
<1>4. CASE LenUp
  BY <1>1, <1>4 DEF LenUp, InStep
<1>5. CASE GetUp
  BY <1>1, <1>5 DEF GetUp, Reads, InStep
<1>6. CASE GetDn
  BY <1>1, <1>6 DEF GetDn, InStep
<1>7. CASE DelDn
  BY <1>1, <1>7 DEF DelDn, InStep
<1>8. CASE DelUp
  BY <1>1, <1>8 DEF DelUp, InStep
<1>9. CASE PutDn
  BY <1>1, <1>9 DEF PutDn, InStep
<1>10. CASE Poll
  BY <1>1, <1>10 DEF Poll, InStep
<1>11. CASE RtlPut
  <2> SUFFICES ASSUME clean PROVE (Published \/ Overlapped)'
    BY <1>11 DEF RtlPut, InStep
  <2>1. CASE Quiet
    BY <1>1, <1>11, <2>1 DEF RtlPut
  <2>2. CASE Released
    BY <1>1, <1>11, <2>2 DEF RtlPut
  <2> QED BY <1>11, <2>1, <2>2 DEF RtlPut, InStep
<1>12. CASE RtlDel
  BY <1>1, <1>12 DEF RtlDel, InStep
<1>13. CASE Transmit
  <2>1. /\ DOMAIN sent' = 1 .. Len(sent) + 1 /\ Len(sent') = Len(sent) + 1
        /\ \A k \in DOMAIN sent : sent'[k] = sent[k]
        /\ sent'[Len(sent) + 1] = tpvUp
    BY <1>13 DEF Transmit, TypeOK
  <2>2. clean => tpvUp = Len(sent) + 1
    BY <1>1, <1>13 DEF Transmit, InStep
  <2>3. clean => \A k \in DOMAIN sent' : sent'[k] = k
    <3> SUFFICES ASSUME clean, NEW k \in DOMAIN sent' PROVE sent'[k] = k
      OBVIOUS
    <3>1. CASE k \in DOMAIN sent
      BY <2>1, <3>1 DEF InStep
    <3>2. CASE k \notin DOMAIN sent
      BY <1>1, <2>1, <2>2, <3>2
    <3> QED BY <3>1, <3>2
  <2>4. clean => (Quiet \/ Published)'
    BY <1>1, <1>13, <2>1 DEF Transmit, InStep
  <2> QED BY <1>13, <2>3, <2>4 DEF Transmit, InStep
<1> QED BY <1>2, <1>3, <1>4, <1>5, <1>6, <1>7, <1>8, <1>9, <1>10, <1>11, <1>12, <1>13
        DEF Next, Transport

(* The invariant of the two sides is preserved by every step.              *)
LEMMA NextIrqInv ==
  ASSUME TypeOK, HasStatus, IrqInv, [Next]_vars
  PROVE  IrqInv'
<1>1. CASE UNCHANGED vars
  BY <1>1 DEF vars, irqVars, IrqInv, Order, Increasing, InStep, Before, After,
              Quiet, Published, Acknowledged, Released, Overlapped
<1>2. CASE Transmit /\ Next
  BY <1>2, TransmitOrder, NextInStep DEF IrqInv
<1>3. CASE UNCHANGED sent /\ Next
  <2>1. Increasing'
    BY <1>3 DEF IrqInv, Increasing
  <2> QED BY <1>3, <2>1, NextOrder, NextInStep DEF IrqInv
<1>4. Next => Transmit \/ UNCHANGED sent
  BY DEF Next, CtorScan, irqVars, CtorDel, Transport, LenUp, GetUp, GetDn, DelDn, DelUp,
         PutDn, Poll, RtlPut, RtlDel
<1> QED BY <1>1, <1>2, <1>3, <1>4

------------------------------------------------------------------------------

(* The keys, what transport has read of them and the state of the scan     *)
(* keep their types.                                                       *)
THEOREM IrqTypeCorrect == Spec => [](TypeOK /\ SlotsOK /\ ScanInv /\ HasStatus)
<1>1. Init => TypeOK /\ SlotsOK /\ ScanInv /\ HasStatus
  BY InitTypes
<1>2. (TypeOK /\ SlotsOK /\ ScanInv /\ HasStatus) /\ [Next]_vars
        => (TypeOK /\ SlotsOK /\ ScanInv /\ HasStatus)'
  BY NextTypes
<1> QED BY <1>1, <1>2, PTL DEF Spec

(* transport and RTL never lose their order, nor, without keys of an       *)
(* earlier run, their step.                                                *)
THEOREM IrqInvariant == Spec => []IrqInv
<1>1. Init => IrqInv
  BY InitIrqInv
<1>2. TypeOK /\ HasStatus /\ IrqInv /\ [Next]_vars => IrqInv'
  BY NextIrqInv
<1> QED BY <1>1, <1>2, IrqTypeCorrect, PTL DEF Spec

(* No change of the interrupt register reaches the line of the CPU twice   *)
(* or after a later one, whatever an earlier run left in the database; and *)
(* nothing but changes does, if it left nothing.                           *)
THEOREM LineInOrder == Spec => []InOrder
<1>1. TypeOK /\ IrqInv => InOrder
  <2> SUFFICES ASSUME TypeOK, IrqInv PROVE InOrder
    OBVIOUS
  <2>1. clean => \A k \in DOMAIN sent : sent[k] \in Change
    <3> SUFFICES ASSUME clean, NEW k \in DOMAIN sent PROVE sent[k] \in Change
      OBVIOUS
    <3>1. sent[k] = k /\ k \in Nat \ {0} /\ sent[k] <= last /\ last \in 0 .. MaxChange
      BY DEF TypeOK, IrqInv, InStep, Order
    <3> QED BY <3>1, IrqAssumption DEF Change
  <2> QED BY <2>1 DEF IrqInv, Increasing, InOrder
<1> QED BY <1>1, IrqInvariant, IrqTypeCorrect, PTL

(* When the RTL may publish the next change, every earlier one has been    *)
(* driven on the line or is about to be.                                   *)
THEOREM NoChangeSkipped == Spec => []NoneSkipped
<1>1. TypeOK /\ IrqInv => NoneSkipped
  <2> SUFFICES ASSUME TypeOK, IrqInv, clean, rtl = "run", NEW n \in 1 .. last
               PROVE  \/ \E k \in DOMAIN sent : sent[k] = n
                      \/ pc \in {"poll", "send"} /\ tpvUp = n
    BY DEF NoneSkipped
  <2>1. /\ last \in Nat /\ DOMAIN sent = 1 .. Len(sent) /\ Len(sent) \in Nat
        /\ \A k \in DOMAIN sent : sent[k] = k
    BY IrqAssumption DEF TypeOK, IrqInv, InStep
  <2>2. CASE Quiet
    BY <2>1, <2>2 DEF Quiet
  <2>3. CASE Released
    <3>1. CASE n = last
      BY <2>3, <3>1 DEF Released
    <3>2. CASE n # last
      <4>1. n \in DOMAIN sent
        BY <2>1, <2>3, <3>2 DEF Released
      <4> QED BY <2>1, <4>1
    <3> QED BY <3>1, <3>2
  <2> QED BY <2>2, <2>3 DEF IrqInv, InStep, Published, Acknowledged, Overlapped
<1> QED BY <1>1, IrqInvariant, IrqTypeCorrect, PTL

(* The constructor deletes every key of an earlier run if the first slot   *)
(* was free and no two keys were in adjacent slots: then the run starts    *)
(* with an empty database, and the results above hold without a proviso.   *)
THEOREM CleanStart == Spec /\ ~Taken(0) /\ Apart => []clean
<1> DEFINE Swept == clean /\ (pc = "ctor" => ~Taken(0) /\ Apart)
<1>1. Init /\ ~Taken(0) /\ Apart => Swept
  BY DEF Init
<1>2. ScanInv /\ Swept /\ [Next]_vars => Swept'
  <2> SUFFICES ASSUME ScanInv, Swept, [Next]_vars PROVE Swept'
    OBVIOUS
  <2>1. CASE CtorScan
    BY <2>1 DEF CtorScan, NxtKey, irqVars, Taken, Apart
  <2>2. CASE CtorDel
    <3>1. pc = "ctor" /\ Scanned
      BY <2>2 DEF CtorDel, DelListed
    <3>2. Left = {}
      BY <3>1, ScanInvListsAll DEF ListsAll, Left
    <3> QED BY <2>2, <3>2 DEF CtorDel
  <2>3. CASE Transport
    BY <2>3 DEF Transport, LenUp, GetUp, GetDn, DelDn, DelUp, PutDn, Poll, Transmit
  <2>4. CASE RtlPut \/ RtlDel
    BY <2>4 DEF RtlPut, RtlDel, scanVars, Taken, Apart
  <2>5. CASE UNCHANGED vars
    BY <2>5 DEF vars, irqVars, scanVars, Taken, Apart
  <2> QED BY <2>1, <2>2, <2>3, <2>4, <2>5 DEF Next
<1> QED BY <1>1, <1>2, IrqTypeCorrect, PTL DEF Spec

------------------------------------------------------------------------------

(* Every variable has the type the code declares for it.                   *)
MsiTypeOK ==
  /\ status \in BOOLEAN /\ msi \in BOOLEAN /\ readable \in BOOLEAN /\ requested \in BOOLEAN
  /\ at \in {"start", "wait", "peek", "ack", "send"} /\ value \in BOOLEAN
  /\ raises \in 0 .. MaxRaise /\ open \subseteq Raised /\ exposed \subseteq open
  /\ unheard \in BOOLEAN

(* An acknowledgement after which the line is driven low finds nothing but *)
(* what was raised since the peek, or before a peek that failed: whatever  *)
(* was pending before would have been read from the register.              *)
AckClearsLate == at = "ack" /\ ~value => open \subseteq exposed

(* The registers, the flags of the threads and the bookkeeping of          *)
(* interrupts keep their types; only interrupts that the CPU has not been  *)
(* told of count as exposed.                                               *)
THEOREM MsiTypeCorrect == MsiSpec => []MsiTypeOK
<1>1. MsiInit => MsiTypeOK
  <2>1. 0 \in 0 .. MaxRaise
    BY RaiseAssumption
  <2> QED BY <2>1, Zenon DEF MsiInit, MsiTypeOK
<1>2. MsiTypeOK /\ [MsiNext]_msiVars => MsiTypeOK'
  <2> SUFFICES ASSUME MsiTypeOK, [MsiNext]_msiVars PROVE MsiTypeOK'
    OBVIOUS
  <2>1. CASE Raise
    <3>1. raises + 1 \in Raised
      BY <2>1, RaiseAssumption DEF Raise, MsiTypeOK, Raised
    <3>2. msi' \in BOOLEAN
      BY <2>1 DEF Raise, MsiTypeOK
    <3> QED BY <2>1, <3>1, <3>2 DEF Raise, MsiTypeOK, Raised
  <2>2. CASE MsiArrives \/ PollMsi
    BY <2>2 DEF MsiArrives, PollMsi, MsiTypeOK, ghosts
  <2>3. CASE Update \/ UpdateEarly \/ MsiStart \/ Peek \/ Ack
    BY <2>3 DEF Update, UpdateEarly, MsiStart, Peek, Ack, NoWakeup, MsiTypeOK, ghosts
  <2>4. CASE MsiTransmit
    BY <2>4 DEF MsiTransmit, MsiTypeOK
  <2>5. CASE UNCHANGED msiVars
    BY <2>5 DEF msiVars, ghosts, MsiTypeOK
  <2> QED BY <2>1, <2>2, <2>3, <2>4, <2>5 DEF MsiNext, MsiTransport
<1> QED BY <1>1, <1>2, PTL DEF MsiSpec

(* No wake-up of transport is lost, although MSIs, polls of the descriptor *)
(* and update requests of thread_safe_event are all merged, but for one    *)
(* before transport has started and one whose acknowledgement has failed.  *)
THEOREM NoWakeupLost == MsiSpec => []WakeupPending
<1>1. MsiInit => WakeupPending
  BY DEF MsiInit, WakeupPending
<1>2. WakeupPending /\ [MsiNext]_msiVars => WakeupPending'
  <2> SUFFICES ASSUME WakeupPending, [MsiNext]_msiVars PROVE WakeupPending'
    OBVIOUS
  <2>1. CASE Raise
    <3>1. CASE status
      BY <2>1, <3>1 DEF Raise, WakeupPending
    <3>2. CASE ~status
      <4>1. msi' = TRUE
        BY <2>1, <3>2 DEF Raise
      <4> QED BY <4>1 DEF WakeupPending
    <3> QED BY <3>1, <3>2
  <2>2. CASE MsiArrives
    BY <2>2 DEF MsiArrives, WakeupPending, ghosts
  <2>3. CASE PollMsi
    BY <2>3 DEF PollMsi, WakeupPending, ghosts
  <2>4. CASE Update \/ UpdateEarly \/ MsiStart
    BY <2>4 DEF Update, UpdateEarly, MsiStart, NoWakeup, WakeupPending, ghosts
  <2>5. CASE Peek
    BY <2>5 DEF Peek, WakeupPending
  <2>6. CASE Ack
    BY <2>6 DEF Ack, NoWakeup, WakeupPending
  <2>7. CASE MsiTransmit
    BY <2>7 DEF MsiTransmit, WakeupPending
  <2>8. CASE UNCHANGED msiVars
    BY <2>8 DEF msiVars, ghosts, WakeupPending
  <2> QED BY <2>1, <2>2, <2>3, <2>4, <2>5, <2>6, <2>7, <2>8 DEF MsiNext, MsiTransport
<1> QED BY <1>1, <1>2, PTL DEF MsiSpec

(* An interrupt that the CPU has not been told of is still in the status   *)
(* register or in the line change being sent, but for those that the       *)
(* acknowledgement after a peek of 0, or after a failed one, clears.       *)
THEOREM NoInterruptLost == MsiSpec => []StillPending
<1>1. MsiInit => StillPending /\ AckClearsLate
  BY DEF MsiInit, StillPending, AckClearsLate
<1>2. StillPending /\ AckClearsLate /\ [MsiNext]_msiVars
        => StillPending' /\ AckClearsLate'
  <2> SUFFICES ASSUME StillPending, AckClearsLate, [MsiNext]_msiVars
               PROVE  StillPending' /\ AckClearsLate'
    OBVIOUS
  <2>1. CASE Raise
    BY <2>1 DEF Raise, StillPending, AckClearsLate
  <2>2. CASE MsiArrives \/ PollMsi \/ Update \/ UpdateEarly \/ MsiStart
    BY <2>2 DEF MsiArrives, PollMsi, Update, UpdateEarly, MsiStart, StillPending,
                AckClearsLate, ghosts
  <2>3. CASE Peek
    BY <2>3 DEF Peek, StillPending, AckClearsLate
  <2>4. CASE Ack
    BY <2>4 DEF Ack, StillPending, AckClearsLate
  <2>5. CASE MsiTransmit
    BY <2>5 DEF MsiTransmit, StillPending, AckClearsLate
  <2>6. CASE UNCHANGED msiVars
    BY <2>6 DEF msiVars, ghosts, StillPending, AckClearsLate
  <2> QED BY <2>1, <2>2, <2>3, <2>4, <2>5, <2>6 DEF MsiNext, MsiTransport
<1> QED BY <1>1, <1>2, PTL DEF MsiSpec
=============================================================================
