-------------------------- MODULE Gsgp2cosimProofs --------------------------
(***************************************************************************)
(* Proofs about the bridge to the RTL simulator, for any number of         *)
(* accesses, any timeout and any table an earlier run left.                *)
(***************************************************************************)
EXTENDS Gsgp2cosim, KeyScanProofs

(* The access has begun and has neither an answer nor run out of time.     *)
Asking == pc \in {"get_up", "del_up", "del_dn", "put_dn", "poll", "read"}

(* Nothing has happened in the direction that could leave a stray message. *)
Fresh(d) == d \notin left /\ expired[d] = {}

(* No message is under way in the direction.                               *)
Resting(d) == dn[d] = None /\ up[d] = None /\ rtl[d] = "idle" /\ req[d] = None

(* The one message of a fresh direction is the access in progress: it is   *)
(* in dn, in dn and taken by the RTL, in the RTL, or answered.             *)
OwnRequest ==
  \/ dn[dir] = tx /\ up[dir] = None /\ rtl[dir] = "idle" /\ req[dir] = None
  \/ dn[dir] = tx /\ up[dir] = None /\ rtl[dir] = "del" /\ req[dir] = tx
  \/ dn[dir] = None /\ up[dir] = None /\ rtl[dir] = "answer" /\ req[dir] = tx
OwnAnswer ==
  dn[dir] = None /\ up[dir] = tx /\ rtl[dir] = "idle" /\ req[dir] = None /\ tx \in done

(* A message that may be under way in a direction that is not fresh.       *)
Aged(d, v) ==
  \/ v = None \/ (v = Old /\ d \in left)
  \/ v \in 1 .. tx /\ (d \in left \/ \E e \in expired[d] : e <= v)

FreshInv ==
  /\ \A d \in Dir : Fresh(d) /\ (dir # d \/ pc \notin {"poll", "read", "del_answer"})
                      => Resting(d)
  /\ Fresh(dir) /\ pc = "poll" => OwnRequest \/ OwnAnswer
  /\ Fresh(dir) /\ pc \in {"read", "del_answer"} => OwnAnswer /\ got = tx
  /\ Fresh(dir) /\ pc = "idle" /\ tx > 0 => tx \in done /\ got = tx

AgedInv ==
  \A d \in Dir : ~Fresh(d) => Aged(d, dn[d]) /\ Aged(d, up[d]) /\ Aged(d, req[d])

(* Where the access stands, and what the ghosts may say by then.           *)
Progress ==
  /\ pc = "ctor" => left = {} /\ tx = 0 /\ \A d \in Dir : expired[d] = {}
  /\ got # None => pc \in {"read", "del_answer", "idle"}
  /\ \A d \in Dir : expired[d] \subseteq 1 .. tx /\ (Asking => tx \notin expired[d])
  /\ \A d \in Dir : up[d] \in done \union {None, Old}

BoxInv == Progress /\ FreshInv /\ AgedInv /\ AnswerExplained

(* An access has a number, the RTL works on nothing but requests, and the  *)
(* table of the database holds none but the keys of the mailboxes.         *)
Working ==
  /\ pc \notin {"ctor", "idle"} => tx > 0
  /\ \A d \in Dir : rtl[d] # "idle" => req[d] # None
SlotsOK == slots \in [Slot -> Keys \union {EMPTY, DELETED}]

BoxTypes == TypeOK /\ Working /\ SlotsOK /\ ScanInv

------------------------------------------------------------------------------

(* The types hold when the platform is started.                            *)
LEMMA InitTypes == Init => BoxTypes
<1> SUFFICES ASSUME Init PROVE BoxTypes
  OBVIOUS
<1>1. nxtChIdx = 0 /\ srchCnt = 0 /\ listed = {} /\ slots \in Tables(Keys)
  BY DEF Init, ScanInit
<1>2. ScanInv
  BY <1>1, ScanInitInv
<1>3. SlotsOK
  BY <1>1 DEF Tables, SlotsOK
<1>4. None \in Box /\ 0 \in 0 .. MaxTx /\ Timeout \in 0 .. Timeout /\ "wr" \in Dir
  BY TxAssumption DEF Box, Dir
<1>5. TypeOK
  BY <1>1, <1>2, <1>4 DEF Init, TypeOK, ScanInv, ScanTypeOK
<1>6. Working
  BY DEF Init, Working
<1> QED BY <1>2, <1>3, <1>5, <1>6 DEF BoxTypes

(* Every step of the bridge and of the RTL keeps them.                     *)
LEMMA NextTypes ==
  ASSUME BoxTypes, [Next]_vars
  PROVE  BoxTypes'
<1> USE DEF BoxTypes
<1>1. CASE CtorScan
  <2>1. SlotsOK' /\ ScanInv'
    BY <1>1, ScanStep DEF CtorScan, NxtKey, SlotsOK
  <2>2. listed' \subseteq Keys
    BY <2>1 DEF SlotsOK, ScanInv, ScanTypeOK, Present, Taken
  <2> QED BY <1>1, <2>1, <2>2 DEF CtorScan, boxVars, TypeOK, Working, ScanInv, ScanTypeOK
<1>2. CASE CtorDel
  <2>1. ScanInv'
    BY <1>2, DelListedInv DEF CtorDel
  <2>2. SlotsOK' /\ listed' = {}
    BY <1>2 DEF CtorDel, DelListed, SlotsOK, NoTable
  <2>3. dn' \in [Dir -> Box] /\ up' \in [Dir -> Box] /\ left' \subseteq Dir
    BY <1>2 DEF CtorDel, Box
  <2> QED BY <1>2, <2>1, <2>2, <2>3 DEF CtorDel, Go, rtlVars, TypeOK, Working, ScanInv, ScanTypeOK
<1>3. CASE UNCHANGED scanVars /\ (GetDn \/ Bridge \/ (\E d \in Dir : Rtl(d)) \/ UNCHANGED boxVars)
  <2>1. SlotsOK' /\ ScanInv'
    BY <1>3, ScanUnchanged DEF scanVars, SlotsOK
  <2>2. nxtChIdx' \in Slot /\ srchCnt' \in Nat /\ listed' \subseteq Keys
    BY <1>3 DEF scanVars, TypeOK
  <2> SUFFICES TypeOK' /\ Working'
    BY <2>1
  <2> USE DEF Go, rtlVars, ctorVars, TypeOK, Working
  <2>3. CASE GetDn
    BY <2>2, <2>3, TxAssumption DEF GetDn, Box, Tx
  <2>4. CASE GetUp \/ DelOldUp \/ DelOldDn \/ DelAnswer
    BY <2>2, <2>4 DEF GetUp, DelOldUp, DelOldDn, DelAnswer, Box
  <2>5. CASE PutDn
    <3>1. tx \in Box
      BY TxAssumption DEF Box, Tx, None
    <3> QED BY <2>2, <2>5, <3>1, TxAssumption DEF PutDn
  <2>6. CASE PollHit
    BY <2>2, <2>6 DEF PollHit
  <2>7. CASE PollRead
    <3>1. got' \in Box \union {Zeros}
      BY <2>7 DEF PollRead
    <3> QED BY <2>2, <2>7, <3>1 DEF PollRead
  <2>8. CASE PollMiss
    <3>1. CASE timeout = 0
      <4>1. tx \in Tx
        BY <2>8, TxAssumption DEF PollMiss, Tx
      <4> QED BY <2>2, <2>8, <3>1, <4>1 DEF PollMiss
    <3>2. CASE timeout > 0
      BY <2>2, <2>8, <3>2, TxAssumption DEF PollMiss
    <3> QED BY <3>1, <3>2, TxAssumption
  <2>9. ASSUME NEW d \in Dir, RtlGet(d) \/ RtlDel(d)
        PROVE  TypeOK' /\ Working'
    BY <2>2, <2>9 DEF RtlGet, RtlDel, Box
  <2>10. ASSUME NEW d \in Dir, RtlAnswer(d)
         PROVE  TypeOK' /\ Working'
    <3>1. req[d] \in Tx \union {Old}
      BY <2>10 DEF RtlAnswer, Box
    <3> QED BY <2>2, <2>10, <3>1 DEF RtlAnswer, Box
  <2>11. CASE UNCHANGED boxVars
    BY <2>2, <2>11 DEF boxVars
  <2> QED BY <1>3, <2>3, <2>4, <2>5, <2>6, <2>7, <2>8, <2>9, <2>10, <2>11 DEF Bridge, Rtl
<1>4. GetDn \/ Bridge \/ (\E d \in Dir : Rtl(d)) => UNCHANGED scanVars
  BY DEF GetDn, Bridge, GetUp, DelOldUp, DelOldDn, PutDn, PollHit, PollRead, PollMiss, DelAnswer,
         Rtl, RtlGet, RtlDel, RtlAnswer, ctorVars
<1> QED BY <1>1, <1>2, <1>3, <1>4 DEF Next, vars

(* A constructor that has not come to its end has left nothing behind.     *)
LEMMA InitBoxInv == Init => BoxInv
BY DEF Init, BoxInv, Progress, FreshInv, AgedInv, AnswerExplained, Fresh, Resting, Asking, None, Old

(* The bridge itself: no step of an access breaks the invariant, although  *)
(* what it read of the keys may be out of date when it is used.            *)
LEMMA BridgeBoxInv ==
  ASSUME BoxTypes, BoxInv, GetDn \/ Bridge
  PROVE  BoxInv'
<1> USE DEF BoxTypes, TypeOK, BoxInv, Tx, Box, None, Old, Zeros, Go, rtlVars, ctorVars, Fresh
<1>0. tx \in Nat
  BY TxAssumption
<1>1. CASE GetDn
  <2> USE <1>1 DEF GetDn
  <2>1. Progress'
    BY <1>0 DEF Progress, Asking, Working
  <2>2. FreshInv'
    BY <1>0 DEF Progress, FreshInv, Resting, OwnRequest, OwnAnswer, Working
  <2>3. AgedInv'
    BY <1>0 DEF AgedInv, Aged, Progress, FreshInv, Resting, OwnRequest, OwnAnswer
  <2>4. AnswerExplained'
    BY <1>0 DEF AnswerExplained, Progress, FreshInv, OwnAnswer, AgedInv, Aged, Asking
  <2> QED BY <2>1, <2>2, <2>3, <2>4
<1>2. CASE GetUp
  <2> USE <1>2 DEF GetUp
  <2>1. Progress'
    BY <1>0 DEF Progress, Asking, Working
  <2>2. FreshInv'
    BY <1>0 DEF Progress, FreshInv, Resting, OwnRequest, OwnAnswer, Working
  <2>3. AgedInv'
    BY <1>0 DEF AgedInv, Aged, Progress, FreshInv, Resting, OwnRequest, OwnAnswer
  <2>4. AnswerExplained'
    BY <1>0 DEF AnswerExplained, Progress, FreshInv, OwnAnswer, AgedInv, Aged, Asking
  <2> QED BY <2>1, <2>2, <2>3, <2>4
<1>3. CASE DelOldUp
  <2> USE <1>3 DEF DelOldUp
  <2>1. Progress'
    BY <1>0 DEF Progress, Asking, Working
  <2>2. FreshInv'
    BY <1>0 DEF Progress, FreshInv, Resting, OwnRequest, OwnAnswer, Working
  <2>3. AgedInv'
    BY <1>0 DEF AgedInv, Aged, Progress, FreshInv, Resting, OwnRequest, OwnAnswer
  <2>4. AnswerExplained'
    BY <1>0 DEF AnswerExplained, Progress, FreshInv, OwnAnswer, AgedInv, Aged, Asking
  <2> QED BY <2>1, <2>2, <2>3, <2>4
<1>4. CASE DelOldDn
  <2> USE <1>4 DEF DelOldDn
  <2>1. Progress'
    BY <1>0 DEF Progress, Asking, Working
  <2>2. FreshInv'
    BY <1>0 DEF Progress, FreshInv, Resting, OwnRequest, OwnAnswer, Working
  <2>3. AgedInv'
    BY <1>0 DEF AgedInv, Aged, Progress, FreshInv, Resting, OwnRequest, OwnAnswer
  <2>4. AnswerExplained'
    BY <1>0 DEF AnswerExplained, Progress, FreshInv, OwnAnswer, AgedInv, Aged, Asking
  <2> QED BY <2>1, <2>2, <2>3, <2>4
<1>5. CASE PutDn
  <2> USE <1>5 DEF PutDn
  <2>1. Progress'
    BY <1>0 DEF Progress, Asking, Working
  <2>2. FreshInv'
    BY <1>0 DEF Progress, FreshInv, Resting, OwnRequest, OwnAnswer, Working
  <2>3. AgedInv'
    BY <1>0 DEF AgedInv, Aged, Progress, FreshInv, Resting, OwnRequest, OwnAnswer
  <2>4. AnswerExplained'
    BY <1>0 DEF AnswerExplained, Progress, FreshInv, OwnAnswer, AgedInv, Aged, Asking
  <2> QED BY <2>1, <2>2, <2>3, <2>4
<1>6. CASE PollHit
  <2> USE <1>6 DEF PollHit
  <2>1. Progress'
    BY <1>0 DEF Progress, Asking, Working
  <2>2. FreshInv'
    BY <1>0 DEF Progress, FreshInv, Resting, OwnRequest, OwnAnswer, Working
  <2>3. AgedInv'
    BY <1>0 DEF AgedInv, Aged, Progress, FreshInv, Resting, OwnRequest, OwnAnswer
  <2>4. AnswerExplained'
    BY <1>0 DEF AnswerExplained, Progress, FreshInv, OwnAnswer, AgedInv, Aged, Asking
  <2> QED BY <2>1, <2>2, <2>3, <2>4
<1>7. CASE PollRead
  <2> USE <1>7 DEF PollRead
  <2>1. Progress'
    BY <1>0 DEF Progress, Asking, Working
  <2>2. FreshInv'
    BY <1>0 DEF Progress, FreshInv, Resting, OwnRequest, OwnAnswer, Working
  <2>3. AgedInv'
    BY <1>0 DEF AgedInv, Aged, Progress, FreshInv, Resting, OwnRequest, OwnAnswer
  <2>4. AnswerExplained'
    BY <1>0 DEF AnswerExplained, Progress, FreshInv, OwnAnswer, AgedInv, Aged, Asking
  <2> QED BY <2>1, <2>2, <2>3, <2>4
<1>8. CASE PollMiss
  <2> USE <1>8 DEF PollMiss
  <2>1. Progress'
    BY <1>0 DEF Progress, Asking, Working
  <2>2. FreshInv'
    BY <1>0 DEF Progress, FreshInv, Resting, OwnRequest, OwnAnswer, Working
  <2>3. AgedInv'
    BY <1>0 DEF AgedInv, Aged, Progress, FreshInv, Resting, OwnRequest, OwnAnswer
  <2>4. AnswerExplained'
    BY <1>0 DEF AnswerExplained, Progress, FreshInv, OwnAnswer, AgedInv, Aged, Asking
  <2> QED BY <2>1, <2>2, <2>3, <2>4
<1>9. CASE DelAnswer
  <2> USE <1>9 DEF DelAnswer
  <2>1. Progress'
    BY <1>0 DEF Progress, Asking, Working
  <2>2. FreshInv'
    BY <1>0 DEF Progress, FreshInv, Resting, OwnRequest, OwnAnswer, Working
  <2>3. AgedInv'
    BY <1>0 DEF AgedInv, Aged, Progress, FreshInv, Resting, OwnRequest, OwnAnswer
  <2>4. AnswerExplained'
    BY <1>0 DEF AnswerExplained, Progress, FreshInv, OwnAnswer, AgedInv, Aged, Asking
  <2> QED BY <2>1, <2>2, <2>3, <2>4
<1> QED BY <1>1, <1>2, <1>3, <1>4, <1>5, <1>6, <1>7, <1>8, <1>9 DEF Bridge

(* The RTL side: a request of a fresh direction is taken, deleted and      *)
(* answered before the bridge goes on; any other is of an access that ran  *)
(* out of time or later, or of an earlier run.                             *)
LEMMA RtlBoxInv ==
  ASSUME BoxTypes, BoxInv, NEW d \in Dir, Rtl(d)
  PROVE  BoxInv'
<1> USE DEF BoxTypes, TypeOK, BoxInv, Tx, Box, None, Old, Zeros, Go, rtlVars, ctorVars, Fresh
<1>0. tx \in Nat
  BY TxAssumption
<1>1. CASE RtlGet(d)
  <2> USE <1>1 DEF RtlGet
  <2>1. Progress'
    BY <1>0 DEF Progress, Asking
  <2>2. FreshInv'
    BY <1>0 DEF Progress, FreshInv, Resting, OwnRequest, OwnAnswer, Working
  <2>3. AgedInv'
    BY <1>0 DEF AgedInv, Aged, Progress, FreshInv, Resting, OwnRequest, OwnAnswer
  <2>4. AnswerExplained'
    BY <1>0 DEF AnswerExplained, Progress, FreshInv, OwnAnswer, AgedInv, Aged, Asking
  <2> QED BY <2>1, <2>2, <2>3, <2>4
<1>2. CASE RtlDel(d)
  <2> USE <1>2 DEF RtlDel
  <2>1. Progress'
    BY <1>0 DEF Progress, Asking
  <2>2. FreshInv'
    BY <1>0 DEF Progress, FreshInv, Resting, OwnRequest, OwnAnswer, Working
  <2>3. AgedInv'
    BY <1>0 DEF AgedInv, Aged, Progress, FreshInv, Resting, OwnRequest, OwnAnswer
  <2>4. AnswerExplained'
    BY <1>0 DEF AnswerExplained, Progress, FreshInv, OwnAnswer, AgedInv, Aged, Asking
  <2> QED BY <2>1, <2>2, <2>3, <2>4
<1>3. CASE RtlAnswer(d)
  <2> USE <1>3 DEF RtlAnswer
  <2>1. Progress'
    BY <1>0 DEF Progress, Asking
  <2>2. FreshInv'
    BY <1>0 DEF Progress, FreshInv, Resting, OwnRequest, OwnAnswer, Working
  <2>3. AgedInv'
    BY <1>0 DEF AgedInv, Aged, Progress, FreshInv, Resting, OwnRequest, OwnAnswer
  <2>4. AnswerExplained'
    BY <1>0 DEF AnswerExplained, Progress, FreshInv, OwnAnswer, AgedInv, Aged, Asking
  <2> QED BY <2>1, <2>2, <2>3, <2>4
<1> QED BY <1>1, <1>2, <1>3 DEF Rtl

(* The invariant of the mailboxes is preserved by every step; what the     *)
(* constructor leaves in the database makes its direction one that is not  *)
(* fresh.                                                                  *)
LEMMA NextBoxInv ==
  ASSUME BoxTypes, BoxInv, [Next]_vars
  PROVE  BoxInv'
<1>1. CASE CtorDel
  <2> USE <1>1 DEF CtorDel, BoxInv, Go, rtlVars, Fresh
  <2>1. Progress'
    BY DEF Progress, Asking
  <2>2. FreshInv'
    BY DEF Progress, FreshInv, Resting
  <2>3. AgedInv'
    BY DEF AgedInv, Aged, Progress, FreshInv, Resting
  <2>4. AnswerExplained'
    BY DEF AnswerExplained, Progress
  <2> QED BY <2>1, <2>2, <2>3, <2>4
<1>2. CASE UNCHANGED boxVars
  BY <1>2 DEF boxVars, BoxInv, Progress, FreshInv, AgedInv, AnswerExplained, Asking, Fresh,
              Resting, OwnRequest, OwnAnswer, Aged
<1> QED BY <1>1, <1>2, BridgeBoxInv, RtlBoxInv DEF Next, CtorScan, vars

------------------------------------------------------------------------------

(* The keys, the countdown, the RTL and the scan of the constructor keep   *)
(* their types; the timeout of 32 bits never wraps around.                 *)
THEOREM BoxTypeCorrect == Spec => []BoxTypes
<1>1. Init => BoxTypes
  BY InitTypes
<1>2. BoxTypes /\ [Next]_vars => BoxTypes'
  BY NextTypes
<1> QED BY <1>1, <1>2, PTL DEF Spec

(* The calls of the bridge and the RTL, the mailboxes and the clock keep   *)
(* their types.                                                            *)
THEOREM AccessTypeCorrect == Spec => []TypeOK
<1>1. BoxTypes => TypeOK
  BY DEF BoxTypes
<1> QED BY <1>1, BoxTypeCorrect, PTL

(* What is under way in either direction, at every moment.                 *)
THEOREM BoxInvariant == Spec => []BoxInv
<1>1. Init => BoxInv
  BY InitBoxInv
<1>2. BoxTypes /\ BoxInv /\ [Next]_vars => BoxInv'
  BY NextBoxInv
<1> QED BY <1>1, <1>2, BoxTypeCorrect, PTL DEF Spec

(* An access gets the answer to its own request, or one that an access     *)
(* which ran out of time, or an earlier run, accounts for.                 *)
THEOREM AnswersExplained == Spec => []AnswerExplained
<1>1. BoxInv => AnswerExplained
  BY DEF BoxInv
<1> QED BY <1>1, BoxInvariant, PTL

(* While nothing has run out of time and no key was left, every access     *)
(* that has returned was carried out, and the mailboxes are empty.         *)
THEOREM AccessesDone == Spec => []ReturnsDone
<1>1. BoxTypes /\ BoxInv => ReturnsDone
  BY DEF BoxTypes, TypeOK, BoxInv, FreshInv, Fresh, Resting, ReturnsDone
<1> QED BY <1>1, BoxTypeCorrect, BoxInvariant, PTL

(* The constructor of the bridge finds every key of an earlier run in a    *)
(* table whose first slot is free and that has no two keys side by side.   *)
THEOREM KeysListed == Spec => []ListsAll
<1>1. BoxTypes => ListsAll
  BY ScanInvListsAll DEF BoxTypes
<1> QED BY <1>1, BoxTypeCorrect, PTL
=============================================================================
