---------------------------- MODULE KeyScanProofs ----------------------------
(***************************************************************************)
(* Lemmas about getKeyStrs(), for a table of any size: where the search    *)
(* for the next key goes, and what one round of the loop preserves.  The   *)
(* proofs about the transactors that call it in their constructors cite    *)
(* them.                                                                   *)
(***************************************************************************)
EXTENDS KeyScan, WellFoundedInduction, TLAPS

(* A set of numbers that is not empty has a smallest one.                  *)
LEMMA Smallest ==
  ASSUME NEW T \in SUBSET Nat, T # {}
  PROVE  \E x \in T : \A y \in T : x <= y
<1>1. \E x \in T : \A y \in T : ~ (<<y, x>> \in OpToRel(<, Nat))
  BY WFMin, NatLessThanWellFounded
<1>2. PICK x \in T : \A y \in T : ~ (<<y, x>> \in OpToRel(<, Nat))
  BY <1>1
<1>3. \A y \in T : ~(y < x)
  BY <1>2 DEF OpToRel
<1> QED BY <1>3

(* How far a slot is from the start of a search that wraps around.         *)
LEMMA Distance ==
  ASSUME NEW j \in Slot, NEW st \in Slot
  PROVE  (j - st) % N = IF j >= st THEN j - st ELSE j - st + N
<1> USE SlotAssumption DEF Slot
<1>1. CASE j >= st
  BY <1>1
<1>2. CASE j < st
  BY <1>2
<1> QED BY <1>1, <1>2

(* CncrHsh::nxt() finds an entry if there is one, and the first one on its *)
(* way.                                                                    *)
LEMMA ChNxtFinds ==
  ASSUME NEW st \in Slot, \E j \in Slot : Taken(j)
  PROVE  /\ chNxt(st) \in Slot /\ Taken(chNxt(st))
         /\ \A l \in Slot : Taken(l) => (chNxt(st) - st) % N <= (l - st) % N
<1> DEFINE dist(j) == (j - st) % N
           D == {dist(j) : j \in {l \in Slot : Taken(l)}}
           Closest(j) == j \in Slot /\ Taken(j) /\ \A l \in Slot : Taken(l) => dist(j) <= dist(l)
<1>1. \A j \in Slot : dist(j) \in Nat
  BY Distance, SlotAssumption DEF Slot
<1>2. D \in SUBSET Nat /\ D # {}
  BY <1>1
<1>3. PICK x \in D : \A y \in D : x <= y
  BY <1>2, Smallest
<1>4. \E j : Closest(j)
  BY <1>3
<1>5. Closest(CHOOSE j : Closest(j))
  BY <1>4
<1>6. chNxt(st) = CHOOSE j \in Slot : Taken(j) /\ \A l \in Slot : Taken(l) => (j - st) % N <= (l - st) % N
  BY DEF chNxt
<1> QED BY <1>4, <1>6

------------------------------------------------------------------------------

(* The index and the count of the loop have their types, and what it has   *)
(* listed is in the table.                                                 *)
ScanTypeOK == nxtChIdx \in Slot /\ srchCnt \in Nat /\ listed \subseteq Present

(* The search has not come to the end of the table: it counts no more      *)
(* slots than it has passed, the slot it starts at next is free, and every *)
(* entry it has passed is listed.                                          *)
Early ==
  /\ srchCnt <= nxtChIdx /\ ~Taken(nxtChIdx)
  /\ \A j \in Slot : j < nxtChIdx /\ Taken(j) => slots[j] \in listed

(* The loop is on its first pass, or has listed every key.                 *)
ScanInv == ScanTypeOK /\ (~Taken(0) /\ Apart => listed = Present \/ Early)

(* One round of getKeyStrs() lists a key of the table and keeps the types. *)
LEMMA ScanTypeStep ==
  ASSUME ScanTypeOK, NxtKey
  PROVE  ScanTypeOK' /\ listed' = listed \union keyAt(chNxt(nxtChIdx)) /\ Present' = Present
<1> DEFINE found == chNxt(nxtChIdx)
<1> USE SlotAssumption
<1>1. Present' = Present
  BY DEF NxtKey, Present, Taken
<1>2. (found \in Slot /\ Taken(found)) \/ found = SLOT_END
  <2>1. CASE \E j \in Slot : Taken(j)
    BY <2>1, ChNxtFinds DEF ScanTypeOK
  <2>2. CASE ~\E j \in Slot : Taken(j)
    BY <2>2 DEF chNxt
  <2> QED BY <2>1, <2>2
<1>3. keyAt(found) \subseteq Present
  BY <1>2 DEF keyAt, Present, Slot, SLOT_END
<1>4. nxt(found) \in Slot
  BY <1>2 DEF nxt, Slot, SLOT_END, ScanTypeOK
<1>5. searched(nxtChIdx, nxt(found)) \in Nat
  BY <1>4 DEF searched, Slot, ScanTypeOK
<1>6. nxtChIdx' = nxt(found) /\ srchCnt' = srchCnt + searched(nxtChIdx, nxt(found))
      /\ listed' = listed \union keyAt(found)
  BY DEF NxtKey
<1>7. nxtChIdx' \in Slot /\ srchCnt' \in Nat
  BY <1>4, <1>5, <1>6 DEF ScanTypeOK
<1> QED BY <1>1, <1>3, <1>6, <1>7 DEF ScanTypeOK

(* One round keeps the invariant: with every entry followed by a free slot *)
(* the count of nxtKey() is never ahead of the search.                     *)
LEMMA ScanStep ==
  ASSUME ScanInv, NxtKey
  PROVE  ScanInv'
<1> DEFINE found == chNxt(nxtChIdx)
<1> USE SlotAssumption
<1>1. /\ ScanTypeOK /\ ScanTypeOK' /\ Present' = Present
      /\ listed' = listed \union keyAt(found)
  BY ScanTypeStep DEF ScanInv
<1>2. slots' = slots
  BY DEF NxtKey
<1>3. SUFFICES ASSUME ~Taken(0), Apart PROVE (listed = Present \/ Early)'
  BY <1>1, <1>2 DEF ScanInv, Taken, Apart
<1>4. CASE listed = Present
  BY <1>1, <1>4 DEF ScanTypeOK
<1>5. CASE ~\E j \in Slot : Taken(j)
  <2>1. Present = {}
    BY <1>5 DEF Present
  <2> QED BY <1>1, <2>1 DEF ScanTypeOK
<1>6. CASE Early /\ \E j \in Slot : Taken(j)
  <2>1. found \in Slot /\ Taken(found)
    BY <1>1, <1>6, ChNxtFinds DEF ScanTypeOK
  <2>2. \A l \in Slot : Taken(l) => (found - nxtChIdx) % N <= (l - nxtChIdx) % N
    BY <1>1, <1>6, ChNxtFinds DEF ScanTypeOK
  <2>3. \A l \in Slot : (l - nxtChIdx) % N = IF l >= nxtChIdx THEN l - nxtChIdx ELSE l - nxtChIdx + N
    BY <1>1, Distance DEF ScanTypeOK
  <2>4. found # nxtChIdx /\ nxtChIdx \in Slot /\ srchCnt \in Nat
    BY <1>1, <1>6, <2>1 DEF Early, ScanTypeOK
  <2>5. listed' = listed \union {slots[found]}
    BY <1>1, <2>1 DEF keyAt, SLOT_END, Slot
  <2>6. CASE found < nxtChIdx
    <3>1. \A l \in Slot : Taken(l) => l < nxtChIdx
      BY <2>1, <2>2, <2>3, <2>4, <2>6 DEF Slot
    <3>2. listed = Present
      BY <1>1, <1>6, <3>1 DEF Early, Present, ScanTypeOK
    <3> QED BY <1>4, <3>2
  <2>7. CASE found > nxtChIdx
    <3>1. \A l \in Slot : Taken(l) /\ l < found => l < nxtChIdx
      BY <2>1, <2>2, <2>3, <2>4, <2>7 DEF Slot
    <3>2. \A l \in Slot : Taken(l) /\ l <= found => slots[l] \in listed'
      <4> SUFFICES ASSUME NEW l \in Slot, Taken(l), l <= found PROVE slots[l] \in listed'
        OBVIOUS
      <4>1. CASE l = found
        BY <2>5, <4>1
      <4>2. CASE l # found
        <5>1. l < found
          BY <2>1, <4>2 DEF Slot
        <5> QED BY <1>6, <2>5, <3>1, <5>1 DEF Early
      <4> QED BY <4>1, <4>2
    <3>3. CASE found = N - 1
      <4>1. \A l \in Slot : Taken(l) => slots[l] \in listed'
        BY <3>2, <3>3 DEF Slot
      <4>2. Present \subseteq listed'
        BY <4>1 DEF Present
      <4> QED BY <1>1, <4>2 DEF ScanTypeOK
    <3>4. CASE found # N - 1
      <4>1. found + 1 \in Slot /\ (found + 1) % N = found + 1
        BY <2>1, <3>4 DEF Slot
      <4>2. nxt(found) = found + 1
        BY <2>1, <4>1 DEF nxt, Slot, SLOT_END
      <4>3. searched(nxtChIdx, nxt(found)) = found - nxtChIdx
        BY <2>1, <2>4, <2>7, <4>2 DEF searched, Slot
      <4>4. nxtChIdx' = found + 1 /\ srchCnt' = srchCnt + (found - nxtChIdx)
        BY <4>2, <4>3 DEF NxtKey
      <4>5. srchCnt' <= nxtChIdx'
        BY <1>6, <2>1, <2>4, <4>4 DEF Early, Slot
      <4>6. ~Taken(found + 1)
        BY <1>3, <2>1, <4>1 DEF Apart
      <4>7. \A j \in Slot : j < nxtChIdx' /\ Taken(j) => slots[j] \in listed'
        BY <2>1, <3>2, <4>4 DEF Slot
      <4> QED BY <1>2, <4>4, <4>5, <4>6, <4>7 DEF Early, Taken
    <3> QED BY <3>3, <3>4
  <2> QED BY <2>1, <2>4, <2>6, <2>7 DEF Slot
<1> QED BY <1>3, <1>4, <1>5, <1>6 DEF ScanInv

(* When the loop of getKeyStrs() ends, every key is listed.                *)
LEMMA ScanInvListsAll == ScanInv => ListsAll
<1> SUFFICES ASSUME ScanInv PROVE ListsAll
  OBVIOUS
<1>1. Early => ~Scanned
  BY SlotAssumption DEF ScanInv, ScanTypeOK, Early, Scanned, Slot
<1> QED BY <1>1 DEF ScanInv, ScanTypeOK, ListsAll

(* The loop starts in a state of its first pass.                           *)
LEMMA ScanInitInv ==
  ASSUME nxtChIdx = 0, srchCnt = 0, listed = {}
  PROVE  ScanInv
<1>1. 0 \in Slot /\ \A j \in Slot : ~(j < 0)
  BY SlotAssumption DEF Slot
<1> QED BY <1>1 DEF ScanInv, ScanTypeOK, Early

(* Once the listed keys are deleted the table holds nothing that the scan  *)
(* knows of.                                                               *)
LEMMA DelListedInv ==
  ASSUME DelListed
  PROVE  ScanInv'
<1>1. slots' = NoTable /\ nxtChIdx' = 0 /\ srchCnt' = N /\ listed' = {}
  BY DEF DelListed
<1>2. 0 \in Slot /\ N \in Nat
  BY SlotAssumption DEF Slot
<1>3. \A j \in Slot : ~Taken(j)'
  BY <1>1 DEF Taken, NoTable
<1>4. Present' = {}
  BY <1>3 DEF Present
<1> QED BY <1>1, <1>2, <1>4 DEF ScanInv, ScanTypeOK

(* A step that leaves the scan alone keeps its invariant.                  *)
LEMMA ScanUnchanged ==
  ASSUME ScanInv, UNCHANGED scanVars
  PROVE  ScanInv'
BY DEF scanVars, ScanInv, ScanTypeOK, Early, Apart, Taken, Present
=============================================================================
