---------------------------- MODULE CncrHshProofs ----------------------------
(***************************************************************************)
(* Proofs about the hash table, for any number of slots, keys, threads and *)
(* entries.  What every use of the table keeps is proved first: an entry   *)
(* has at most one owner, and one that has been freed has none.  What only *)
(* an orderly use keeps follows: with keys that hash to different slots    *)
(* nothing is lost and the table is a map, and with keys that each one     *)
(* thread puts, while they are absent, it is a map wherever they hash to.  *)
(***************************************************************************)
EXTENDS CncrHsh, FiniteSetTheorems, WellFoundedInduction, TLAPS

------------------------------------------------------------------------------
(* Slots and searches.                                                     *)

(* The next slot of a search is a slot.                                    *)
LEMMA NextSlot == ASSUME NEW j \in Slot PROVE nxtIdx(j) \in Slot
<1>1. j + 1 \in Nat /\ N \in Nat \ {0}
  BY SlotAssumption DEF Slot
<1>2. (j + 1) % N \in 0 .. N - 1
  BY <1>1
<1> QED BY <1>2 DEF nxtIdx, Slot

(* The n-th slot of a search, without the modulo.                          *)
LEMMA ProbeIs ==
  ASSUME NEW k \in Key, NEW n \in Slot
  PROVE  Probe(k, n) = IF Home[k] + n < N THEN Home[k] + n ELSE Home[k] + n - N
<1> DEFINE h == Home[k]
<1>1. h \in Nat /\ h < N /\ n \in Nat /\ n < N /\ N \in Nat \ {0}
  BY SlotAssumption, HomeAssumption DEF Slot
<1>2. \A x \in Nat : x < N => x % N = x
  BY <1>1
<1>3. \A x \in Nat : x >= N /\ x < N + N => x % N = x - N
  BY <1>1
<1>4. h + n \in Nat /\ h + n < N + N
  BY <1>1
<1>5. CASE h + n < N
  BY <1>2, <1>4, <1>5 DEF Probe
<1>6. CASE h + n >= N
  BY <1>1, <1>3, <1>4, <1>6 DEF Probe
<1> QED BY <1>1, <1>5, <1>6

(* A search begins at the home of its key and does not return there.       *)
LEMMA ProbeHome ==
  ASSUME NEW k \in Key
  PROVE  /\ 0 \in Slot /\ Home[k] \in Slot /\ Probe(k, 0) = Home[k]
         /\ \A n \in Slot : Probe(k, n) \in Slot
         /\ \A n \in Slot \ {0} : Probe(k, n) # Home[k]
<1>1. Home[k] \in Slot /\ 0 \in Slot
  BY SlotAssumption, HomeAssumption DEF Slot
<1>2. Probe(k, 0) = Home[k]
  <2>1. Probe(k, 0) = IF Home[k] + 0 < N THEN Home[k] + 0 ELSE Home[k] + 0 - N
    BY <1>1, ProbeIs
  <2> QED BY <1>1, <2>1, SlotAssumption DEF Slot
<1>3. \A n \in Slot : Probe(k, n) \in Slot
  BY <1>1, ProbeIs, SlotAssumption DEF Slot
<1>4. \A n \in Slot \ {0} : Probe(k, n) # Home[k]
  BY <1>1, ProbeIs, SlotAssumption DEF Slot
<1> QED BY <1>1, <1>2, <1>3, <1>4

(* A set of slots that is not empty has a first one.                       *)
LEMMA FirstSlot ==
  ASSUME NEW T, T \subseteq Slot, T # {}
  PROVE  \E n \in T : \A m \in T : ~(m < n)
<1>1. T \subseteq Nat
  BY SlotAssumption DEF Slot
<1>2. PICK n \in T : \A m \in T : ~(<<m, n>> \in OpToRel(<, Nat))
  BY <1>1, WFMin, NatLessThanWellFounded
<1>3. \A m \in T : m < n => <<m, n>> \in OpToRel(<, Nat)
  BY <1>1 DEF OpToRel
<1> QED BY <1>2, <1>3

(* What a search finds is an entry, or nothing.                            *)
LEMMA FoundType == \A k \in Key : Found(k) \in Entry \union {None}
<1> SUFFICES ASSUME NEW k \in Key PROVE Found(k) \in Entry \union {None}
  OBVIOUS
<1>1. CASE ~\E n \in Slot : Holds(k, n)
  BY <1>1 DEF Found
<1>2. CASE \E n \in Slot : Holds(k, n)
  <2> DEFINE T == {n \in Slot : Holds(k, n)}
             First(n) == Holds(k, n) /\ \A m \in 0 .. n - 1 : ~Holds(k, m)
  <2>1. PICK n \in T : \A m \in T : ~(m < n)
    <3>1. T \subseteq Slot /\ T # {}
      BY <1>2
    <3> HIDE DEF T
    <3> QED BY <3>1, FirstSlot
  <2>2. \A m \in 0 .. n - 1 : m \in Slot /\ m < n
    BY <2>1, SlotAssumption DEF Slot
  <2>3. First(n) /\ n \in Slot
    BY <2>1, <2>2
  <2>4. Holds(k, CHOOSE c \in Slot : First(c))
    <3>1. First(CHOOSE c \in Slot : First(c))
      <4> HIDE DEF First
      <4> QED BY <2>3, Zenon
    <3> QED BY <3>1
  <2>5. Found(k) = s_vis[Probe(k, CHOOSE c \in Slot : First(c))]
    BY <1>2 DEF Found
  <2> QED BY <2>4, <2>5 DEF Holds, Real
<1> QED BY <1>1, <1>2

(* The same after a step.                                                  *)
LEMMA FoundTypeNext == \A k \in Key : Found(k)' \in Entry \union {None}
<1>1. (\A k \in Key : Found(k) \in Entry \union {None})'
  BY FoundType, PTL
<1> QED BY <1>1

------------------------------------------------------------------------------
(* What every use of the table keeps.                                      *)

Storing == {"put_load", "put_cmp", "put_cas"}
Matching == {"get_cmp", "get_read", "del_cmp", "del_cas"}

(* The types without the ghost variable, which follows the others.         *)
Types ==
  /\ s_vis \in [Slot -> Entry \union {EMPTY, DELETED}]
  /\ ent \in [Entry -> [key : Key, used : BOOLEAN]]
  /\ nent \in 0 .. MaxEnt /\ pub \subseteq Entry
  /\ pc \in [Proc -> Pcs] /\ key \in [Proc -> Key] /\ i \in [Proc -> Slot]
  /\ vi \in [Proc -> Entry \union {EMPTY, DELETED}]
  /\ mine \in [Proc -> Entry \union {None}]
  /\ res \in [Proc -> Entry \union {None, EMPTY}]

(* A thread has an entry in its hands exactly while it stores or frees it, *)
(* and has not stored it before; what it compares was in a slot.           *)
Stages ==
  \A p \in Proc :
    /\ mine[p] # None <=> pc[p] \in Storing \union {"free"}
    /\ pc[p] \in Matching \union {"put_cmp"} => Real(vi[p])
    /\ Real(vi[p]) => vi[p] <= nent
    /\ pc[p] \in Storing => mine[p] \notin pub

(* Entries that have not been allocated are not in use.                    *)
Fresh ==
  /\ \A e \in Entry : ent[e].used => e <= nent
  /\ \A e \in pub : e <= nent

(* Slots and hands have entries in use, and no entry is in two of them.    *)
SlotsUsed == \A j \in Slot : Real(s_vis[j]) => ent[s_vis[j]].used
HandsUsed == \A p \in Proc : mine[p] # None => ent[mine[p]].used
SlotsDiffer == \A j, l \in Slot : Real(s_vis[j]) /\ s_vis[j] = s_vis[l] => j = l
HandsDiffer == \A p, q \in Proc : mine[p] # None /\ mine[p] = mine[q] => p = q
HandNotSlot == \A p \in Proc, j \in Slot : mine[p] # s_vis[j]
Once == SlotsUsed /\ HandsUsed /\ SlotsDiffer /\ HandsDiffer /\ HandNotSlot

TableInv == TypeOK /\ Stages /\ Fresh /\ Once

(* A step of one thread leaves the variables of the others alone.          *)
Apart(p) ==
  \A q \in Proc \ {p} :
    /\ pc'[q] = pc[q] /\ key'[q] = key[q] /\ i'[q] = i[q]
    /\ vi'[q] = vi[q] /\ mine'[q] = mine[q] /\ res'[q] = res[q]

(* A call without a key stands for one with some key.                      *)
LEMMA SomeKey == (CHOOSE k \in Key : TRUE) \in Key
BY HomeAssumption, Zenon

(* A call that returns gives up what it had.                               *)
LEMMA ReturnDoes ==
  ASSUME Types, NEW p \in Proc, Return(p)
  PROVE  /\ pc' \in [Proc -> Pcs] /\ key' \in [Proc -> Key] /\ i' \in [Proc -> Slot]
         /\ vi' \in [Proc -> Entry \union {EMPTY, DELETED}]
         /\ mine' \in [Proc -> Entry \union {None}]
         /\ res' \in [Proc -> Entry \union {None, EMPTY}]
         /\ Apart(p)
         /\ pc'[p] = "idle" /\ mine'[p] = None /\ vi'[p] = EMPTY /\ res'[p] = None
<1>1. PICK k \in Key : key' = [key EXCEPT ![p] = k]
  BY SomeKey DEF Return
<1>2. 0 \in Slot
  BY SlotAssumption DEF Slot
<1>3. /\ pc' = [pc EXCEPT ![p] = "idle"] /\ i' = [i EXCEPT ![p] = 0]
      /\ vi' = [vi EXCEPT ![p] = EMPTY] /\ mine' = [mine EXCEPT ![p] = None]
      /\ res' = [res EXCEPT ![p] = None]
  BY DEF Return, Go, Look
<1> QED BY <1>1, <1>2, <1>3 DEF Types, Apart, Pcs

(* The search goes on with the next slot.                                  *)
MoveOn(p, l) ==
  i[p] # en(p) /\ Look(p, nxtIdx(i[p])) /\ Go(p, l) /\ UNCHANGED <<key, vi, mine, res>>

(* A search that moves on changes nothing but its slot.                    *)
LEMMA MoveOnDoes ==
  ASSUME Types, NEW p \in Proc, NEW l \in Pcs, MoveOn(p, l)
  PROVE  /\ i' \in [Proc -> Slot] /\ pc' \in [Proc -> Pcs]
         /\ UNCHANGED <<key, vi, mine, res>> /\ Apart(p)
         /\ pc'[p] = l /\ i'[p] = nxtIdx(i[p])
<1>1. nxtIdx(i[p]) \in Slot
  BY NextSlot DEF Types
<1> QED BY <1>1 DEF MoveOn, Look, Go, Types, Apart

(* Every step keeps the types and the variables of the other threads.      *)
LEMMA StepTypes ==
  ASSUME Types, Stages, NEW p \in Proc, Act(p)
  PROVE  Types' /\ Apart(p)
<1>1. ASSUME NEW k \in Key, PutStart(p, k) PROVE Types' /\ Apart(p)
  <2>1. nent + 1 \in Entry /\ nent + 1 \in 0 .. MaxEnt /\ Home[k] \in Slot
    BY <1>1, SlotAssumption, HomeAssumption DEF PutStart, Types, Entry
  <2>2. ent' \in [Entry -> [key : Key, used : BOOLEAN]]
    BY <1>1, <2>1 DEF PutStart, Types
  <2> QED BY <1>1, <2>1, <2>2 DEF PutStart, Begin, Look, Go, Types, Apart, Pcs
<1>2. ASSUME NEW k \in Key, GetStart(p, k) \/ DelStart(p, k) PROVE Types' /\ Apart(p)
  <2>1. Home[k] \in Slot
    BY HomeAssumption
  <2> QED BY <1>2, <2>1 DEF GetStart, DelStart, Begin, Look, Go, Types, Apart, Pcs
<1>3. CASE PutLoad(p)
  BY <1>3 DEF PutLoad, Load, Go, Types, Apart, Pcs
<1>4. CASE PutCompare(p)
  <2>1. CASE Go(p, "put_cas") /\ UNCHANGED <<key, i, vi, mine, res>>
    BY <1>4, <2>1 DEF PutCompare, Go, Types, Apart, Pcs
  <2>2. CASE MoveOn(p, "put_load")
    <3>1. "put_load" \in Pcs
      BY DEF Pcs
    <3> QED BY <1>4, <2>2, <3>1, MoveOnDoes DEF PutCompare, Types
  <2>3. CASE Return(p)
    BY <1>4, <2>3, ReturnDoes DEF PutCompare, Types
  <2> QED BY <1>4, <2>1, <2>2, <2>3 DEF PutCompare, Onward, MoveOn
<1>5. CASE PutCas(p)
  <2>1. mine[p] \in Entry
    BY <1>5 DEF PutCas, Stages, Storing, Types
  <2>2. s_vis' \in [Slot -> Entry \union {EMPTY, DELETED}] /\ pub' \subseteq Entry
        /\ UNCHANGED <<ent, nent>>
    BY <1>5, <2>1 DEF PutCas, Types
  <2>3. CASE Return(p)
    BY <2>2, <2>3, ReturnDoes DEF Types
  <2>4. CASE /\ Real(vi[p]) /\ mine' = [mine EXCEPT ![p] = vi[p]]
             /\ Go(p, "free") /\ UNCHANGED <<key, i, vi, res>>
    BY <2>2, <2>4 DEF Real, Go, Types, Apart, Pcs
  <2> QED BY <1>5, <2>3, <2>4 DEF PutCas
<1>6. CASE PutRetry(p) \/ DelRetry(p)
  BY <1>6 DEF PutRetry, DelRetry, Go, Types, Apart, Pcs
<1>7. CASE Free(p)
  <2>1. mine[p] \in Entry
    BY <1>7 DEF Free, Stages, Types
  <2>2. ent' \in [Entry -> [key : Key, used : BOOLEAN]] /\ UNCHANGED <<s_vis, nent, pub>>
    BY <1>7, <2>1 DEF Free, Types
  <2>3. Return(p)
    BY <1>7 DEF Free
  <2> QED BY <2>2, <2>3, ReturnDoes DEF Types
<1>8. CASE GetLoad(p)
  <2>1. CASE Load(p) /\ Go(p, "get_cmp") /\ UNCHANGED <<key, i, mine, res>>
    BY <1>8, <2>1 DEF GetLoad, Load, Go, Types, Apart, Pcs
  <2>2. CASE MoveOn(p, "get_load")
    <3>1. "get_load" \in Pcs
      BY DEF Pcs
    <3> QED BY <1>8, <2>2, <3>1, MoveOnDoes DEF GetLoad, Types
  <2>3. CASE Missed(p)
    BY <1>8, <2>3 DEF GetLoad, Missed, Go, Types, Apart, Pcs
  <2> QED BY <1>8, <2>1, <2>2, <2>3 DEF GetLoad, Onward, MoveOn
<1>9. CASE GetCompare(p)
  <2>1. CASE Go(p, "get_read") /\ UNCHANGED <<key, i, vi, mine, res>>
    BY <1>9, <2>1 DEF GetCompare, Go, Types, Apart, Pcs
  <2>2. CASE MoveOn(p, "get_load")
    <3>1. "get_load" \in Pcs
      BY DEF Pcs
    <3> QED BY <1>9, <2>2, <3>1, MoveOnDoes DEF GetCompare, Types
  <2>3. CASE Missed(p)
    BY <1>9, <2>3 DEF GetCompare, Missed, Go, Types, Apart, Pcs
  <2> QED BY <1>9, <2>1, <2>2, <2>3 DEF GetCompare, Onward, MoveOn
<1>10. CASE GetRead(p)
  <2>1. vi[p] \in Entry
    BY <1>10 DEF GetRead, Stages, Matching, Real
  <2> QED BY <1>10, <2>1 DEF GetRead, Go, Types, Apart, Pcs
<1>11. CASE GetReturn(p)
  BY <1>11, ReturnDoes DEF GetReturn, Types
<1>12. CASE DelLoad(p)
  <2>1. CASE Return(p)
    BY <1>12, <2>1, ReturnDoes DEF DelLoad, Types
  <2>2. CASE Load(p) /\ Go(p, "del_cmp") /\ UNCHANGED <<key, i, mine, res>>
    BY <1>12, <2>2 DEF DelLoad, Load, Go, Types, Apart, Pcs
  <2>3. CASE Look(p, nxtIdx(i[p])) /\ UNCHANGED <<pc, key, vi, mine, res>>
    <3>1. nxtIdx(i[p]) \in Slot
      BY NextSlot DEF Types
    <3> QED BY <1>12, <2>3, <3>1 DEF DelLoad, Look, Types, Apart
  <2> QED BY <1>12, <2>1, <2>2, <2>3 DEF DelLoad
<1>13. CASE DelCompare(p)
  <2>1. CASE Go(p, "del_cas") /\ UNCHANGED <<key, i, vi, mine, res>>
    BY <1>13, <2>1 DEF DelCompare, Go, Types, Apart, Pcs
  <2>2. CASE MoveOn(p, "del_load")
    <3>1. "del_load" \in Pcs
      BY DEF Pcs
    <3> QED BY <1>13, <2>2, <3>1, MoveOnDoes DEF DelCompare, Types
  <2>3. CASE Return(p)
    BY <1>13, <2>3, ReturnDoes DEF DelCompare, Types
  <2> QED BY <1>13, <2>1, <2>2, <2>3 DEF DelCompare, Onward, MoveOn
<1>14. CASE DelCas(p)
  <2>1. vi[p] \in Entry
    BY <1>14 DEF DelCas, Stages, Matching, Real
  <2> QED BY <1>14, <2>1 DEF DelCas, Go, Types, Apart, Pcs
<1> QED BY <1>1, <1>2, <1>3, <1>4, <1>5, <1>6, <1>7, <1>8, <1>9, <1>10, <1>11, <1>12,
           <1>13, <1>14 DEF Act

(* A step of a search: it changes no slot, no entry and no hand.           *)
SearchStep(p) ==
  /\ UNCHANGED <<s_vis, ent, nent, pub>>
  /\ mine'[p] = mine[p] /\ vi'[p] \in {vi[p], s_vis[i[p]], EMPTY}
  /\ pc[p] \in Storing <=> pc'[p] \in Storing
  /\ pc[p] # "free" /\ pc'[p] # "free"
  /\ pc'[p] \in Matching \union {"put_cmp"} => Real(vi'[p])

(* put() comes to the end of its search and drops the entry.               *)
Drop(p) == pc[p] = "put_cmp" /\ UNCHANGED <<s_vis, ent, nent, pub>> /\ Return(p)

(* Every step but those that allocate, exchange, free or drop an entry is  *)
(* one of a search.                                                        *)
LEMMA StepKinds ==
  ASSUME Types, Stages, NEW p \in Proc, Act(p)
  PROVE  \/ \E k \in Key : PutStart(p, k)
         \/ PutCas(p) \/ DelCas(p) \/ Free(p) \/ Drop(p) \/ SearchStep(p)
<1> USE DEF SearchStep
<1>1. ASSUME NEW k \in Key, GetStart(p, k) \/ DelStart(p, k) PROVE SearchStep(p)
  BY <1>1 DEF GetStart, DelStart, Begin, Look, Go, Types, Storing, Matching
<1>2. CASE PutLoad(p)
  BY <1>2 DEF PutLoad, Load, Go, Types, Storing, Matching
<1>3. CASE PutCompare(p)
  <2>1. CASE Go(p, "put_cas") /\ UNCHANGED <<key, i, vi, mine, res>>
    BY <1>3, <2>1 DEF PutCompare, Go, Types, Storing, Matching
  <2>2. CASE MoveOn(p, "put_load")
    BY <1>3, <2>2 DEF PutCompare, MoveOn, Go, Types, Storing, Matching
  <2>3. CASE Return(p)
    BY <1>3, <2>3 DEF PutCompare, Drop
  <2> QED BY <1>3, <2>1, <2>2, <2>3 DEF PutCompare, Onward, MoveOn
<1>4. CASE PutRetry(p) \/ DelRetry(p)
  BY <1>4 DEF PutRetry, DelRetry, Go, Types, Storing, Matching
<1>5. CASE GetLoad(p)
  <2>1. CASE Real(s_vis[i[p]]) /\ Load(p) /\ Go(p, "get_cmp") /\ UNCHANGED <<key, i, mine, res>>
    BY <1>5, <2>1 DEF GetLoad, Load, Go, Types, Storing, Matching
  <2>2. CASE MoveOn(p, "get_load")
    BY <1>5, <2>2 DEF GetLoad, MoveOn, Go, Types, Storing, Matching
  <2>3. CASE Missed(p)
    BY <1>5, <2>3 DEF GetLoad, Missed, Go, Types, Storing, Matching
  <2> QED BY <1>5, <2>1, <2>2, <2>3 DEF GetLoad, Onward, MoveOn
<1>6. CASE GetCompare(p)
  <2>1. CASE Go(p, "get_read") /\ UNCHANGED <<key, i, vi, mine, res>>
    BY <1>6, <2>1 DEF GetCompare, Go, Types, Stages, Storing, Matching
  <2>2. CASE MoveOn(p, "get_load")
    BY <1>6, <2>2 DEF GetCompare, MoveOn, Go, Types, Storing, Matching
  <2>3. CASE Missed(p)
    BY <1>6, <2>3 DEF GetCompare, Missed, Go, Types, Storing, Matching
  <2> QED BY <1>6, <2>1, <2>2, <2>3 DEF GetCompare, Onward, MoveOn
<1>7. CASE GetRead(p)
  BY <1>7 DEF GetRead, Go, Types, Storing, Matching
<1>8. ASSUME pc[p] \in {"ret", "del_load", "del_cmp"}, UNCHANGED <<s_vis, ent, nent, pub>>,
             Return(p)
      PROVE  SearchStep(p)
  <2>1. pc'[p] = "idle" /\ mine'[p] = None /\ vi'[p] = EMPTY
    BY <1>8, ReturnDoes
  <2>2. mine[p] = None
    BY <1>8 DEF Stages, Storing
  <2> QED BY <1>8, <2>1, <2>2 DEF Storing, Matching
<1>9. CASE GetReturn(p)
  BY <1>8, <1>9 DEF GetReturn
<1>10. CASE DelLoad(p)
  <2>1. CASE Return(p)
    BY <1>8, <1>10, <2>1 DEF DelLoad
  <2>2. CASE Real(s_vis[i[p]]) /\ Load(p) /\ Go(p, "del_cmp") /\ UNCHANGED <<key, i, mine, res>>
    BY <1>10, <2>2 DEF DelLoad, Load, Go, Types, Storing, Matching
  <2>3. CASE Look(p, nxtIdx(i[p])) /\ UNCHANGED <<pc, key, vi, mine, res>>
    BY <1>10, <2>3 DEF DelLoad, Types, Storing, Matching
  <2> QED BY <1>10, <2>1, <2>2, <2>3 DEF DelLoad
<1>11. CASE DelCompare(p)
  <2>1. CASE Go(p, "del_cas") /\ UNCHANGED <<key, i, vi, mine, res>>
    BY <1>11, <2>1 DEF DelCompare, Go, Types, Stages, Storing, Matching
  <2>2. CASE MoveOn(p, "del_load")
    BY <1>11, <2>2 DEF DelCompare, MoveOn, Go, Types, Storing, Matching
  <2>3. CASE Return(p)
    BY <1>8, <1>11, <2>3 DEF DelCompare
  <2> QED BY <1>11, <2>1, <2>2, <2>3 DEF DelCompare, Onward, MoveOn
<1> QED BY <1>1, <1>2, <1>3, <1>4, <1>5, <1>6, <1>7, <1>9, <1>10, <1>11 DEF Act

(* Slots and hands keep their entries apart over every step.               *)
LEMMA StepOnce ==
  ASSUME Types, Stages, Fresh, Once, NEW p \in Proc, Act(p)
  PROVE  Stages' /\ Fresh' /\ Once'
<1>1. Types' /\ Apart(p)
  BY StepTypes
<1> USE DEF SlotsUsed, HandsUsed, SlotsDiffer, HandsDiffer, HandNotSlot
<1>0. /\ ~Real(DELETED) /\ ~Real(EMPTY)
      /\ \A j \in Slot : s_vis[j] # None /\ s_vis'[j] # None
      /\ \A j \in Slot : ~Real(s_vis[j]) => s_vis[j] \in {EMPTY, DELETED}
  BY <1>1 DEF Types, Entry, None, EMPTY, DELETED, Real
<1>2. /\ \A j \in Slot : Real(s_vis[j]) => s_vis[j] <= nent
      /\ \A q \in Proc : mine[q] # None => mine[q] \in Entry /\ mine[q] <= nent
  BY DEF Types, Fresh, Once, Real
<1>3. ASSUME NEW k \in Key, PutStart(p, k) PROVE Stages' /\ Fresh' /\ Once'
  <2>1. /\ nent' = nent + 1 /\ nent + 1 \in Entry /\ nent \in Nat
        /\ mine'[p] = nent + 1 /\ mine'[p] # None /\ pc[p] = "idle" /\ pc'[p] = "put_load"
        /\ vi'[p] = vi[p] /\ UNCHANGED <<s_vis, pub>>
        /\ ent'[nent + 1].used
        /\ \A e \in Entry \ {nent + 1} : ent'[e] = ent[e]
    BY <1>3, SlotAssumption DEF PutStart, Begin, Go, Types, Entry, None
  <2>2. Stages'
    BY <1>1, <1>2, <2>1 DEF Stages, Fresh, Apart, Types, Storing, Matching, Real, Entry, None
  <2>3. Fresh'
    BY <2>1 DEF Fresh, Types, Entry
  <2>4. Once'
    <3>1. SlotsUsed'
      BY <1>2, <2>1 DEF Once, Real
    <3>2. HandsUsed'
      BY <1>0, <1>1, <1>2, <2>1 DEF Once, Apart
    <3>3. SlotsDiffer'
      BY <1>0, <1>1, <1>2, <2>1 DEF Once, Apart
    <3>4. HandsDiffer'
      BY <1>0, <1>1, <1>2, <2>1 DEF Once, Apart
    <3>5. HandNotSlot'
      <4>1. \A j \in Slot : s_vis[j] # nent + 1
        BY <1>0, <1>2, <2>1 DEF EMPTY, DELETED
      <4> QED BY <1>1, <2>1, <4>1 DEF Once, Apart
    <3> QED BY <3>1, <3>2, <3>3, <3>4, <3>5 DEF Once
  <2> QED BY <2>2, <2>3, <2>4
<1>4. CASE PutCas(p)
  <2>1. mine[p] \in Entry /\ mine[p] # None /\ mine[p] \notin pub /\ ent[mine[p]].used
    BY <1>4 DEF PutCas, Stages, Storing, Types, Once
  <2>2. /\ s_vis[i[p]] = vi[p] /\ i[p] \in Slot /\ s_vis'[i[p]] = mine[p]
        /\ \A j \in Slot \ {i[p]} : s_vis'[j] = s_vis[j]
        /\ pub' = pub \union {mine[p]} /\ UNCHANGED <<ent, nent>>
    BY <1>4 DEF PutCas, CmpexOk, Types
  <2>3. \/ Real(vi[p]) /\ mine'[p] = vi[p] /\ pc'[p] = "free" /\ vi'[p] = vi[p]
        \/ ~Real(vi[p]) /\ mine'[p] = None /\ pc'[p] = "idle" /\ vi'[p] = EMPTY
    <3>1. CASE ~Real(vi[p]) /\ Return(p)
      BY <3>1, ReturnDoes
    <3>2. CASE /\ Real(vi[p]) /\ mine' = [mine EXCEPT ![p] = vi[p]]
               /\ Go(p, "free") /\ UNCHANGED <<key, i, vi, res>>
      BY <3>2 DEF Go, Types
    <3> QED BY <1>4, <3>1, <3>2 DEF PutCas
  <2>4. Stages'
    <3>1. ASSUME NEW q \in Proc, q # p, pc[q] \in Storing PROVE mine[q] \notin pub'
      <4>1. mine[q] # mine[p]
        BY <2>1, <3>1 DEF Once
      <4> QED BY <2>2, <3>1, <4>1 DEF Stages
    <3>2. None \notin Entry /\ ~Real(EMPTY)
      BY DEF Entry, None, EMPTY, Real
    <3> QED BY <1>1, <2>2, <2>3, <3>1, <3>2 DEF Stages, Apart, Storing, Matching, Real
  <2>5. Fresh'
    BY <1>2, <2>1, <2>2 DEF Fresh
  <2>6. Once'
    <3>1. SlotsUsed'
      BY <1>0, <1>1, <2>1, <2>2, <2>3 DEF Once, Apart
    <3>2. HandsUsed'
      BY <1>0, <1>1, <2>1, <2>2, <2>3 DEF Once, Apart
    <3>3. SlotsDiffer'
      BY <1>0, <1>1, <2>1, <2>2, <2>3 DEF Once, Apart
    <3>4. HandsDiffer'
      BY <1>0, <1>1, <2>1, <2>2, <2>3 DEF Once, Apart
    <3>5. HandNotSlot'
      BY <1>0, <1>1, <2>1, <2>2, <2>3 DEF Once, Apart
    <3> QED BY <3>1, <3>2, <3>3, <3>4, <3>5 DEF Once
  <2> QED BY <2>4, <2>5, <2>6
<1>5. CASE DelCas(p)
  <2>1. /\ s_vis[i[p]] = vi[p] /\ i[p] \in Slot /\ s_vis'[i[p]] = DELETED
        /\ \A j \in Slot \ {i[p]} : s_vis'[j] = s_vis[j]
        /\ mine'[p] = vi[p] /\ vi'[p] = vi[p] /\ pc'[p] = "free"
        /\ UNCHANGED <<ent, nent, pub>>
    BY <1>5 DEF DelCas, CmpexOk, Go, Types
  <2>2. Real(vi[p]) /\ mine[p] = None
    BY <1>5 DEF DelCas, Stages, Storing, Matching
  <2>3. Stages'
    BY <1>1, <2>1, <2>2 DEF Stages, Apart, Storing, Matching, Real, Entry, None
  <2>4. Fresh'
    BY <2>1 DEF Fresh
  <2>5. Once'
    <3>1. SlotsUsed'
      BY <1>0, <1>1, <2>1, <2>2 DEF Once, Apart
    <3>2. HandsUsed'
      BY <1>0, <1>1, <2>1, <2>2 DEF Once, Apart
    <3>3. SlotsDiffer'
      BY <1>0, <1>1, <2>1, <2>2 DEF Once, Apart
    <3>4. HandsDiffer'
      BY <1>0, <1>1, <2>1, <2>2 DEF Once, Apart
    <3>5. HandNotSlot'
      <4>1. \A q \in Proc : mine[q] # DELETED
        BY DEF Types, Entry, None, DELETED
      <4> QED BY <1>0, <1>1, <2>1, <2>2, <4>1 DEF Once, Apart
    <3> QED BY <3>1, <3>2, <3>3, <3>4, <3>5 DEF Once
  <2> QED BY <2>3, <2>4, <2>5
<1>6. CASE Free(p)
  <2>1. pc'[p] = "idle" /\ mine'[p] = None /\ vi'[p] = EMPTY
    BY <1>6, ReturnDoes DEF Free
  <2>2. mine[p] \in Entry /\ mine[p] # None
    BY <1>6 DEF Free, Stages, Types
  <2>3. /\ ~ent'[mine[p]].used /\ UNCHANGED <<s_vis, nent, pub>>
        /\ \A e \in Entry \ {mine[p]} : ent'[e] = ent[e]
    BY <1>6, <2>2 DEF Free, Types
  <2>4. Stages'
    BY <1>1, <2>1, <2>3 DEF Stages, Apart, Storing, Matching, Real, Entry, EMPTY
  <2>5. Fresh'
    BY <2>2, <2>3 DEF Fresh
  <2>6. Once'
    <3>1. SlotsUsed'
      BY <2>2, <2>3 DEF Once, Real
    <3>2. HandsUsed'
      BY <1>1, <1>2, <2>1, <2>2, <2>3 DEF Once, Apart
    <3>3. SlotsDiffer'
      BY <1>0, <1>1, <2>1, <2>2, <2>3 DEF Once, Apart
    <3>4. HandsDiffer'
      BY <1>0, <1>1, <2>1, <2>2, <2>3 DEF Once, Apart
    <3>5. HandNotSlot'
      BY <1>0, <1>1, <2>1, <2>2, <2>3 DEF Once, Apart
    <3> QED BY <3>1, <3>2, <3>3, <3>4, <3>5 DEF Once
  <2> QED BY <2>4, <2>5, <2>6
<1>7. CASE Drop(p)
  <2>1. /\ pc'[p] = "idle" /\ mine'[p] = None /\ vi'[p] = EMPTY
        /\ UNCHANGED <<s_vis, ent, nent, pub>>
    BY <1>7, ReturnDoes DEF Drop
  <2>2. Stages'
    BY <1>1, <2>1 DEF Stages, Apart, Storing, Matching, Real, Entry, EMPTY
  <2>3. Fresh'
    BY <2>1 DEF Fresh
  <2>4. Once'
    <3>1. SlotsUsed'
      BY <1>0, <1>1, <2>1 DEF Once, Apart
    <3>2. HandsUsed'
      BY <1>0, <1>1, <2>1 DEF Once, Apart
    <3>3. SlotsDiffer'
      BY <1>0, <1>1, <2>1 DEF Once, Apart
    <3>4. HandsDiffer'
      BY <1>0, <1>1, <2>1 DEF Once, Apart
    <3>5. HandNotSlot'
      BY <1>0, <1>1, <2>1 DEF Once, Apart
    <3> QED BY <3>1, <3>2, <3>3, <3>4, <3>5 DEF Once
  <2> QED BY <2>2, <2>3, <2>4
<1>8. CASE SearchStep(p)
  <2>1. Real(vi'[p]) => vi'[p] <= nent
    BY <1>2, <1>8 DEF SearchStep, Stages, Types, Real, Entry, EMPTY
  <2>2. Stages'
    BY <1>1, <1>8, <2>1 DEF SearchStep, Stages, Apart, Storing
  <2>3. Fresh' /\ Once'
    BY <1>1, <1>8 DEF SearchStep, Fresh, Once, Apart
  <2> QED BY <2>2, <2>3
<1> QED BY <1>3, <1>4, <1>5, <1>6, <1>7, <1>8, StepKinds

(* The ghost variable keeps its type.                                      *)
LEMMA WatchType ==
  ASSUME TypeOK, Types', Watch PROVE seen' \in [Proc -> SUBSET (Entry \union {None})]
<1>1. \A q \in Proc : kv'[key'[q]] \in Entry \union {None}
  BY FoundTypeNext DEF kv, Types
<1>2. \A q \in Proc :
        (IF pc'[q] = "idle" THEN {} ELSE seen[q] \union {kv'[key'[q]]})
          \in SUBSET (Entry \union {None})
  BY <1>1 DEF TypeOK
<1> QED BY <1>2 DEF Watch

(* The types of the code, apart from the ghost variable.                   *)
LEMMA TypeOKParts == TypeOK <=> Types /\ seen \in [Proc -> SUBSET (Entry \union {None})]
BY DEF TypeOK, Types

(* The invariant of the table, for every choice of homes, keys and calls   *)
(* of the threads, so also when keys collide and put() retries or drops    *)
(* its entry.                                                              *)
THEOREM TableInvariant == Spec => []TableInv
<1>1. Init => TableInv
  <2> SUFFICES ASSUME Init PROVE TableInv
    OBVIOUS
  <2> USE DEF Init
  <2>1. Types
    <3>1. 0 \in Slot /\ 0 \in 0 .. MaxEnt
      BY SlotAssumption DEF Slot
    <3>2. ent \in [Entry -> [key : Key, used : BOOLEAN]] /\ key \in [Proc -> Key]
      BY SomeKey
    <3> QED BY <3>1, <3>2 DEF Types, Pcs
  <2>2. TypeOK
    BY <2>1, TypeOKParts
  <2>3. ~Real(EMPTY) /\ None # EMPTY
    BY DEF Real, EMPTY, None, Entry
  <2>4. Stages
    BY <2>3 DEF Stages, Storing, Matching
  <2>5. Fresh
    BY DEF Fresh
  <2>6. Once
    BY <2>3 DEF Once, SlotsUsed, HandsUsed, SlotsDiffer, HandsDiffer, HandNotSlot
  <2> QED BY <2>2, <2>4, <2>5, <2>6 DEF TableInv
<1>2. TableInv /\ [Next]_vars => TableInv'
  <2> SUFFICES ASSUME TableInv, [Next]_vars PROVE TableInv'
    OBVIOUS
  <2>1. Types
    BY TypeOKParts DEF TableInv
  <2>2. CASE UNCHANGED vars
    <3>1. TypeOK'
      BY <2>2 DEF vars, TableInv, TypeOK
    <3>2. Stages' /\ Fresh'
      BY <2>2 DEF vars, TableInv, Stages, Fresh
    <3>3. Once'
      BY <2>2 DEF vars, TableInv, Once, SlotsUsed, HandsUsed, SlotsDiffer, HandsDiffer,
                  HandNotSlot
    <3> QED BY <3>1, <3>2, <3>3 DEF TableInv
  <2>3. ASSUME NEW p \in Proc, Act(p), Watch PROVE TableInv'
    <3>1. Types'
      BY <2>1, <2>3, StepTypes DEF TableInv
    <3>2. TypeOK'
      BY <2>3, <3>1, WatchType DEF TableInv, TypeOK, Types
    <3>3. Stages' /\ Fresh' /\ Once'
      BY <2>1, <2>3, StepOnce DEF TableInv
    <3> QED BY <3>2, <3>3 DEF TableInv
  <2> QED BY <2>2, <2>3 DEF Next
<1> QED BY <1>1, <1>2, PTL DEF Spec

(* Every variable of the table and of its calls keeps its type.            *)
THEOREM TableTypeCorrect == Spec => []TypeOK
<1>1. TableInv => TypeOK
  BY DEF TableInv
<1> QED BY <1>1, TableInvariant, PTL

(* An entry has at most one owner, a slot or the thread that is about to   *)
(* store or free it, and one that has been freed has none: no entry is     *)
(* freed twice, and none is freed while the table leads to it.             *)
AtMostOnce ==
  \A e \in Entry :
    Cardinality(At(e)) + Cardinality(InHand(e)) <= IF ent[e].used THEN 1 ELSE 0

(* Where the entries are, as sets.                                         *)
LEMMA Owners ==
  ASSUME TypeOK, Once, NEW e \in Entry
  PROVE  \/ At(e) = {} /\ InHand(e) = {}
         \/ ent[e].used /\ InHand(e) = {} /\ \E j \in Slot : At(e) = {j}
         \/ ent[e].used /\ At(e) = {} /\ \E p \in Proc : InHand(e) = {p}
<1> USE DEF Once, SlotsUsed, HandsUsed, SlotsDiffer, HandsDiffer, HandNotSlot
<1>1. e # None /\ Real(e)
  BY DEF Entry, None, Real
<1>2. CASE \E j \in Slot : s_vis[j] = e
  <2>1. PICK j \in Slot : s_vis[j] = e
    BY <1>2
  <2>2. At(e) = {j} /\ InHand(e) = {} /\ ent[e].used
    BY <1>1, <2>1 DEF At, InHand
  <2> QED BY <2>2
<1>3. CASE \E p \in Proc : mine[p] = e
  <2>1. PICK p \in Proc : mine[p] = e
    BY <1>3
  <2>2. At(e) = {} /\ InHand(e) = {p} /\ ent[e].used
    BY <1>1, <2>1 DEF At, InHand
  <2> QED BY <2>2
<1>4. CASE ~(\E j \in Slot : s_vis[j] = e) /\ ~(\E p \in Proc : mine[p] = e)
  BY <1>4 DEF At, InHand
<1> QED BY <1>2, <1>3, <1>4

(* No entry is in two places, and none that has been freed in any, however *)
(* keys collide and calls overlap.                                         *)
THEOREM NoSecondOwner == Spec => []AtMostOnce
<1>1. TableInv => AtMostOnce
  <2> SUFFICES ASSUME TableInv, NEW e \in Entry
               PROVE  Cardinality(At(e)) + Cardinality(InHand(e))
                        <= IF ent[e].used THEN 1 ELSE 0
    BY DEF AtMostOnce
  <2>1. \A x : Cardinality({x}) = 1
    BY FS_Singleton
  <2>2. Cardinality({}) = 0
    BY FS_EmptySet
  <2>3. TypeOK /\ Once
    BY DEF TableInv
  <2>4. CASE At(e) = {} /\ InHand(e) = {}
    <3>1. Cardinality(At(e)) + Cardinality(InHand(e)) = 0
      BY <2>2, <2>4
    <3>2. 0 <= IF ent[e].used THEN 1 ELSE 0
      OBVIOUS
    <3> QED BY <3>1, <3>2
  <2>5. CASE ent[e].used /\ InHand(e) = {} /\ \E j \in Slot : At(e) = {j}
    <3>1. PICK j \in Slot : At(e) = {j}
      BY <2>5
    <3>2. Cardinality(At(e)) = 1 /\ Cardinality(InHand(e)) = 0
      BY <2>1, <2>2, <2>5, <3>1
    <3> QED BY <2>5, <3>2
  <2>6. CASE ent[e].used /\ At(e) = {} /\ \E p \in Proc : InHand(e) = {p}
    <3>1. PICK p \in Proc : InHand(e) = {p}
      BY <2>6
    <3>2. Cardinality(InHand(e)) = 1 /\ Cardinality(At(e)) = 0
      BY <2>1, <2>2, <2>6, <3>1
    <3> QED BY <2>6, <3>2
  <2> QED BY <2>3, <2>4, <2>5, <2>6, Owners
<1> QED BY <1>1, TableInvariant, PTL

------------------------------------------------------------------------------
(* Keys that hash to different slots, one thread that puts a key, and no   *)
(* other thread that deletes a key whose value is replaced.                *)
HomesApart == \A k, l \in Key : Home[k] = Home[l] => k = l
OneWriter == \A p, q \in Proc : \A k \in Key : k \in Puts[p] /\ k \in Puts[q] => p = q
OneReplacer ==
  \A p, q \in Proc : \A k \in Replace : k \in Puts[p] /\ k \in Dels[q] => p = q
OwnKeys == HomesApart /\ OneWriter /\ OneReplacer

Searching == Matching \union {"get_load", "del_load"}

(* An entry in use is in a slot or in a hand.                              *)
Kept ==
  \A e \in Entry : ent[e].used =>
    (\E j \in Slot : s_vis[j] = e) \/ (\E p \in Proc : mine[p] = e)

(* An entry in a slot is in the home of its key.                           *)
AtHome == \A j \in Slot : Real(s_vis[j]) => Home[ent[s_vis[j]].key] = j

(* A put() stays at the home of its key.  Nobody else touches the slot:    *)
(* what put() has read there is still there, and it is no entry when the   *)
(* key is not replaced.                                                    *)
PutHome(p) ==
  pc[p] \in Storing =>
    /\ key[p] \in Puts[p] /\ i[p] = Home[key[p]] /\ ent[mine[p]].key = key[p]
    /\ key[p] \notin Replace => ~Real(s_vis[i[p]])
    /\ pc[p] # "put_load" => vi[p] = s_vis[i[p]]

(* What is read or taken out has the key of the call.                      *)
SameKey(p) ==
  /\ pc[p] \in {"del_load", "del_cmp", "del_cas"} => key[p] \in Dels[p]
  /\ pc[p] \in {"get_read", "del_cas"} => ent[vi[p]].key = key[p]

(* A search meets its key at home only.  The entry it has met there was    *)
(* the value of the key during the call and still is, or the key has been  *)
(* absent during the call.                                                 *)
Met(p) ==
  pc[p] \in Matching =>
    /\ i[p] = Home[key[p]] <=> ent[vi[p]].key = key[p]
    /\ i[p] = Home[key[p]] /\ key[p] \notin Replace =>
         vi[p] \in seen[p] /\ (s_vis[i[p]] = vi[p] \/ None \in seen[p])

(* A search that has left the home of its key has seen the key absent.     *)
Passed(p) ==
  pc[p] \in Searching /\ key[p] \notin Replace /\ i[p] # Home[key[p]] => None \in seen[p]

(* What a get() that is about to return found.                             *)
Result(p) ==
  /\ pc[p] # "ret" => res[p] = None
  /\ pc[p] = "ret" /\ key[p] \notin Replace =>
       res[p] \in seen[p] \/ (res[p] = EMPTY /\ None \in seen[p])

Thread(p) == PutHome(p) /\ SameKey(p) /\ Met(p) /\ Passed(p) /\ Result(p)

MapInv == TableInv /\ Kept /\ AtHome /\ \A p \in Proc : Thread(p)

(* The value of a key is the entry at its home.                            *)
AtKey(k) == IF Real(s_vis[Home[k]]) THEN s_vis[Home[k]] ELSE None

(* A search at rest finds what is at the home of the key.                  *)
LEMMA FoundAtHome ==
  HomesApart /\ Types /\ AtHome => \A k \in Key : Found(k) = AtKey(k)
<1> SUFFICES ASSUME HomesApart, Types, AtHome, NEW k \in Key PROVE Found(k) = AtKey(k)
  OBVIOUS
<1> DEFINE First(n) == Holds(k, n) /\ \A m \in 0 .. n - 1 : ~Holds(k, m)
<1>1. \A n \in Slot : Holds(k, n) => n = 0
  BY ProbeHome DEF Holds, AtHome
<1>2. Holds(k, 0) <=> Real(s_vis[Home[k]])
  <2>1. Probe(k, 0) = Home[k] /\ Home[k] \in Slot
    BY ProbeHome
  <2>2. Real(s_vis[Home[k]]) => ent[s_vis[Home[k]]].key = k
    BY <2>1 DEF AtHome, HomesApart, Types, Real
  <2> QED BY <2>1, <2>2 DEF Holds
<1>3. CASE Real(s_vis[Home[k]])
  <2>1. 0 \in Slot /\ First(0)
    BY <1>2, <1>3, ProbeHome
  <2>2. (CHOOSE c \in Slot : First(c)) \in Slot /\ First(CHOOSE c \in Slot : First(c))
    <3> HIDE DEF First
    <3> QED BY <2>1, Zenon
  <2>3. (CHOOSE c \in Slot : First(c)) = 0
    BY <1>1, <2>2
  <2>4. Found(k) = s_vis[Probe(k, CHOOSE c \in Slot : First(c))]
    BY <1>2, <1>3, <2>1 DEF Found
  <2> QED BY <1>3, <2>3, <2>4, ProbeHome DEF AtKey
<1>4. CASE ~Real(s_vis[Home[k]])
  <2>1. ~\E n \in Slot : Holds(k, n)
    BY <1>1, <1>2, <1>4
  <2> QED BY <1>4, <2>1 DEF Found, AtKey
<1> QED BY <1>3, <1>4

(* The same after a step.                                                  *)
LEMMA FoundAtHomeNext ==
  ASSUME HomesApart, Types', AtHome' PROVE \A k \in Key : Found(k)' = AtKey(k)'
<1>1. (HomesApart /\ Types /\ AtHome => \A k \in Key : Found(k) = AtKey(k))'
  BY FoundAtHome, PTL
<1> QED BY <1>1 DEF HomesApart

(* The end of a search is not the home of its key.                         *)
LEMMA EndNotHome == ASSUME Types, NEW p \in Proc PROVE en(p) # Home[key[p]]
<1>1. Home[key[p]] \in Slot
  BY HomeAssumption DEF Types
<1> QED BY <1>1, SlotAssumption DEF en, prevIdx, Slot

(* A call in progress remembers what it has seen, and sees what the key    *)
(* has now.                                                                *)
LEMMA Watched ==
  ASSUME HomesApart, Types', AtHome', Watch, NEW p \in Proc, pc'[p] # "idle",
         NEW k \in Key, key'[p] = k
  PROVE  seen[p] \subseteq seen'[p] /\ AtKey(k)' \in seen'[p]
<1>1. seen'[p] = seen[p] \union {kv'[key'[p]]}
  BY DEF Watch
<1>2. kv'[k] = AtKey(k)'
  BY FoundAtHomeNext DEF kv
<1> QED BY <1>1, <1>2

(* Between calls there is nothing to keep.                                 *)
LEMMA IdleThread ==
  ASSUME NEW p \in Proc, pc'[p] \in {"idle", "free"}, res'[p] = None PROVE Thread(p)'
BY DEF Thread, PutHome, SameKey, Met, Passed, Result, Storing, Matching, Searching

(* What a step of another thread leaves to a thread, provided it keeps the *)
(* slot of a put(), and shows the absence of its key to a search.          *)
LEMMA OtherThread ==
  ASSUME MapInv, Watch, NEW p \in Proc, Apart(p), NEW q \in Proc, q # p,
         \A e \in Entry : e <= nent => ent'[e].key = ent[e].key,
         pc[q] \in Storing => s_vis'[i[q]] = s_vis[i[q]],
         pc[q] \in Matching /\ i[q] = Home[key[q]] /\ key[q] \notin Replace =>
           s_vis'[i[q]] = s_vis[i[q]] \/ None \in seen'[q]
  PROVE  Thread(q)'
<1>1. /\ pc'[q] = pc[q] /\ key'[q] = key[q] /\ i'[q] = i[q]
      /\ vi'[q] = vi[q] /\ mine'[q] = mine[q] /\ res'[q] = res[q]
  BY DEF Apart
<1>2. Thread(q) /\ Types /\ Stages /\ Fresh /\ Once
  BY TypeOKParts DEF MapInv, TableInv
<1>3. CASE pc[q] = "idle"
  <2>1. pc'[q] = "idle" /\ res'[q] = None
    BY <1>1, <1>2, <1>3 DEF Thread, Result
  <2> QED BY <2>1, IdleThread
<1>4. CASE pc[q] # "idle"
  <2>1. seen[q] \subseteq seen'[q]
    BY <1>1, <1>4 DEF Watch
  <2>2. pc[q] \in Storing => ent'[mine[q]].key = ent[mine[q]].key
    <3>1. pc[q] \in Storing => mine[q] \in Entry /\ mine[q] <= nent
      BY <1>2 DEF Stages, Types, Fresh, Once, HandsUsed
    <3> QED BY <3>1
  <2>3. pc[q] \in Matching => ent'[vi[q]].key = ent[vi[q]].key
    BY <1>2 DEF Stages, Real
  <2>4. PutHome(q)'
    BY <1>1, <1>2, <2>2 DEF Thread, PutHome
  <2>5. SameKey(q)'
    BY <1>1, <1>2, <2>3 DEF Thread, SameKey, Matching
  <2>6. Met(q)'
    BY <1>1, <1>2, <2>1, <2>3 DEF Thread, Met
  <2>7. Passed(q)' /\ Result(q)'
    BY <1>1, <1>2, <2>1 DEF Thread, Passed, Result
  <2> QED BY <2>4, <2>5, <2>6, <2>7 DEF Thread
<1> QED BY <1>3, <1>4

(* A put() at home of its key compares equal: it neither moves on nor ends *)
(* without having stored its entry.                                        *)
LEMMA PutStays ==
  ASSUME OwnKeys, MapInv, NEW p \in Proc, PutCompare(p)
  PROVE  Go(p, "put_cas") /\ UNCHANGED <<s_vis, ent, nent, pub, key, i, vi, mine, res>>
<1>1. pc[p] = "put_cmp" /\ Thread(p) /\ Types /\ Stages /\ Once /\ AtHome
  BY TypeOKParts DEF PutCompare, MapInv, TableInv
<1>2. vi[p] = s_vis[i[p]] /\ i[p] = Home[key[p]] /\ i[p] \in Slot /\ key[p] \in Key
      /\ vi[p] \in Entry
  BY <1>1 DEF Thread, PutHome, Storing, Types, Stages, Real
<1>3. ent[vi[p]].key \in Key /\ Home[ent[vi[p]].key] = Home[key[p]]
  BY <1>1, <1>2 DEF AtHome, Types, Real
<1>4. ent[vi[p]].key = key[p]
  BY <1>2, <1>3 DEF OwnKeys, HomesApart
<1>5. ent[vi[p]].used
  BY <1>1, <1>2 DEF Once, SlotsUsed, Real
<1>6. compare(vi[p], key[p]) = {"TRUE"}
  BY <1>4, <1>5 DEF compare
<1> QED BY <1>6 DEF PutCompare

(* The search of a put() keeps what is said of its thread.                 *)
LEMMA OwnPut ==
  ASSUME OwnKeys, MapInv, Types', NEW p \in Proc,
         PutLoad(p) \/ PutCompare(p) \/ PutRetry(p)
  PROVE  Thread(p)'
<1>1. Thread(p) /\ Types
  BY TypeOKParts DEF MapInv, TableInv
<1>2. pc[p] \in Storing /\ pc'[p] \in Storing /\ key'[p] = key[p] /\ i'[p] = i[p]
      /\ mine'[p] = mine[p] /\ res'[p] = res[p] /\ UNCHANGED <<s_vis, ent>>
      /\ (pc'[p] # "put_load" => vi'[p] = s_vis[i[p]])
  <2>1. CASE PutLoad(p)
    BY <1>1, <2>1 DEF PutLoad, Load, Go, Types, Storing
  <2>2. CASE PutCompare(p)
    <3>1. Go(p, "put_cas") /\ UNCHANGED <<s_vis, ent, nent, pub, key, i, vi, mine, res>>
      BY <2>2, PutStays
    <3>2. pc[p] = "put_cmp"
      BY <2>2 DEF PutCompare
    <3> QED BY <1>1, <3>1, <3>2 DEF Go, Types, Storing, Thread, PutHome
  <2>3. CASE PutRetry(p)
    BY <1>1, <2>3 DEF PutRetry, Go, Types, Storing
  <2> QED BY <2>1, <2>2, <2>3
<1>3. PutHome(p)'
  BY <1>1, <1>2 DEF Thread, PutHome
<1>4. SameKey(p)' /\ Met(p)' /\ Passed(p)'
  BY <1>2 DEF SameKey, Met, Passed, Storing, Matching, Searching
<1>5. Result(p)'
  BY <1>1, <1>2 DEF Thread, Result, Storing
<1> QED BY <1>3, <1>4, <1>5 DEF Thread

(* A search that begins keeps it, at the home of its key.                  *)
LEMMA OwnStart ==
  ASSUME MapInv, Types', NEW p \in Proc, NEW k \in Key, GetStart(p, k) \/ DelStart(p, k)
  PROVE  Thread(p)'
<1>1. Thread(p) /\ Types
  BY TypeOKParts DEF MapInv, TableInv
<1>2. pc[p] = "idle" /\ key'[p] = k /\ i'[p] = Home[k] /\ res'[p] = res[p]
      /\ (pc'[p] = "get_load" \/ (pc'[p] = "del_load" /\ k \in Dels[p]))
  BY <1>1 DEF GetStart, DelStart, Begin, Look, Go, Types
<1> QED BY <1>1, <1>2
        DEF Thread, PutHome, SameKey, Met, Passed, Result, Storing, Matching, Searching

(* What a search finds in a slot: its key, at home; another one elsewhere. *)
LEMMA OwnLoad ==
  ASSUME OwnKeys, MapInv, Types', Watch, NEW p \in Proc,
         UNCHANGED <<s_vis, ent, nent, pub>>, Real(s_vis[i[p]]), Load(p),
         UNCHANGED <<key, i, mine, res>>,
         \/ pc[p] = "get_load" /\ pc'[p] = "get_cmp"
         \/ pc[p] = "del_load" /\ pc'[p] = "del_cmp"
  PROVE  Thread(p)'
<1>1. Thread(p) /\ Types /\ AtHome
  BY TypeOKParts DEF MapInv, TableInv
<1>2. PICK k \in Key : k = key[p]
  BY <1>1 DEF Types
<1>3. vi'[p] = s_vis[i[p]] /\ i[p] \in Slot /\ ent[s_vis[i[p]]].key \in Key
  BY <1>1 DEF Load, Types, Real
<1>4. i[p] = Home[k] <=> ent[s_vis[i[p]]].key = k
  BY <1>1, <1>2, <1>3 DEF AtHome, OwnKeys, HomesApart
<1>5. seen[p] \subseteq seen'[p] /\ AtKey(k)' \in seen'[p]
  <2>1. AtHome'
    BY <1>1 DEF AtHome
  <2>2. pc'[p] # "idle" /\ key'[p] = k /\ HomesApart
    BY <1>2 DEF OwnKeys
  <2> QED BY <2>1, <2>2, Watched
<1>6. i[p] = Home[k] => AtKey(k)' = s_vis[i[p]]
  BY DEF AtKey
<1>7. Met(p)'
  BY <1>2, <1>3, <1>4, <1>5, <1>6 DEF Met
<1>8. PutHome(p)' /\ SameKey(p)' /\ Passed(p)' /\ Result(p)'
  BY <1>1, <1>5
     DEF Thread, PutHome, SameKey, Passed, Result, Storing, Matching, Searching
<1> QED BY <1>7, <1>8 DEF Thread

(* An entry that does not compare equal has been deleted since it was met, *)
(* or is not where the key would be.                                       *)
LEMMA GoneOrElsewhere ==
  ASSUME MapInv, NEW p \in Proc, pc[p] \in Matching, key[p] \notin Replace,
         ~(ent[vi[p]].key = key[p] /\ ent[vi[p]].used)
  PROVE  None \in seen[p]
<1>1. Thread(p) /\ Types /\ Stages /\ Once
  BY TypeOKParts DEF MapInv, TableInv
<1>2. CASE i[p] # Home[key[p]]
  BY <1>1, <1>2 DEF Thread, Passed, Searching
<1>3. CASE i[p] = Home[key[p]]
  <2>1. ~ent[vi[p]].used
    BY <1>1, <1>3 DEF Thread, Met
  <2>2. Real(vi[p]) /\ i[p] \in Slot
    BY <1>1 DEF Stages, Types
  <2>3. s_vis[i[p]] # vi[p]
    BY <1>1, <2>1, <2>2 DEF Once, SlotsUsed
  <2> QED BY <1>1, <1>3, <2>3 DEF Thread, Met
<1> QED BY <1>2, <1>3

(* A search that moves on or misses has seen its key absent.               *)
LEMMA OwnMove ==
  ASSUME MapInv, NEW p \in Proc,
         pc[p] \in Searching, key'[p] = key[p], res'[p] = res[p],
         pc'[p] \in {"get_load", "ret"} \/ (pc'[p] = "del_load" /\ key[p] \in Dels[p]),
         key[p] \notin Replace => None \in seen'[p]
  PROVE  Thread(p)'
<1>1. res[p] = None
  BY DEF MapInv, Thread, Result, Searching, Matching
<1> QED BY <1>1
        DEF Thread, PutHome, SameKey, Met, Passed, Result, Storing, Matching, Searching

(* An empty or deleted slot: the key is absent if that is its home.        *)
LEMMA OwnEmpty ==
  ASSUME OwnKeys, MapInv, Types', Watch, NEW p \in Proc,
         UNCHANGED <<s_vis, ent, nent, pub>>, ~Real(s_vis[i[p]]),
         key'[p] = key[p], res'[p] = res[p],
         \/ pc[p] = "get_load" /\ pc'[p] \in {"get_load", "ret"}
         \/ pc[p] = "del_load" /\ pc'[p] = "del_load"
  PROVE  Thread(p)'
<1>1. Thread(p) /\ Types /\ AtHome
  BY TypeOKParts DEF MapInv, TableInv
<1>2. PICK k \in Key : k = key[p]
  BY <1>1 DEF Types
<1>3. seen[p] \subseteq seen'[p] /\ AtKey(k)' \in seen'[p]
  <2>1. AtHome'
    BY <1>1 DEF AtHome
  <2>2. pc'[p] # "idle" /\ key'[p] = k /\ HomesApart
    BY <1>2 DEF OwnKeys
  <2> QED BY <2>1, <2>2, Watched
<1>4. i[p] = Home[k] => AtKey(k)' = None
  BY DEF AtKey
<1>5. key[p] \notin Replace => None \in seen'[p]
  BY <1>1, <1>2, <1>3, <1>4 DEF Thread, Passed, Searching
<1>6. pc'[p] = "del_load" => key[p] \in Dels[p]
  BY <1>1 DEF Thread, SameKey
<1>7. pc[p] \in Searching
  BY DEF Searching
<1> QED BY <1>5, <1>6, <1>7, OwnMove

(* An entry that compares equal is read, or taken out, if it is the one    *)
(* with the key.                                                           *)
LEMMA OwnEqual ==
  ASSUME MapInv, Watch, NEW p \in Proc, UNCHANGED <<s_vis, ent, nent, pub>>,
         key'[p] = key[p], i'[p] = i[p], vi'[p] = vi[p], res'[p] = res[p],
         ent[vi[p]].key = key[p],
         \/ pc[p] = "get_cmp" /\ pc'[p] = "get_read"
         \/ pc[p] = "del_cmp" /\ pc'[p] = "del_cas"
  PROVE  Thread(p)'
<1>1. Thread(p)
  BY DEF MapInv
<1>2. seen[p] \subseteq seen'[p]
  BY DEF Watch
<1>3. Met(p)'
  BY <1>1, <1>2 DEF Thread, Met, Matching
<1> QED BY <1>1, <1>2, <1>3
        DEF Thread, PutHome, SameKey, Passed, Result, Storing, Matching, Searching

(* An entry that does not compare equal.                                   *)
LEMMA OwnUnequal ==
  ASSUME MapInv, Watch, NEW p \in Proc, key'[p] = key[p], res'[p] = res[p],
         ~(ent[vi[p]].key = key[p] /\ ent[vi[p]].used),
         \/ pc[p] = "get_cmp" /\ pc'[p] \in {"get_load", "ret"}
         \/ pc[p] = "del_cmp" /\ pc'[p] = "del_load"
  PROVE  Thread(p)'
<1>1. Thread(p)
  BY DEF MapInv
<1>2. seen[p] \subseteq seen'[p]
  BY DEF Watch
<1>3. key[p] \notin Replace => None \in seen'[p]
  BY <1>2, GoneOrElsewhere DEF Matching
<1>4. pc'[p] = "del_load" => key[p] \in Dels[p]
  BY <1>1 DEF Thread, SameKey
<1>5. pc[p] \in Searching
  BY DEF Searching, Matching
<1> QED BY <1>3, <1>4, <1>5, OwnMove

(* compare() tells an entry in use with the key from every other.          *)
LEMMA CompareTells ==
  ASSUME NEW e, NEW k, NEW m \in compare(e, k)
  PROVE  (m = "TRUE" => ent[e].key = k) /\ (m # "TRUE" => ~(ent[e].key = k /\ ent[e].used))
BY DEF compare

(* The steps of a get() keep what is said of its thread.                   *)
LEMMA OwnGet ==
  ASSUME OwnKeys, MapInv, Types', Watch, NEW p \in Proc,
         GetLoad(p) \/ GetCompare(p) \/ GetRead(p) \/ GetReturn(p)
  PROVE  Thread(p)'
<1>1. Thread(p) /\ Types
  BY TypeOKParts DEF MapInv, TableInv
<1>2. CASE GetLoad(p)
  <2>1. CASE Real(s_vis[i[p]]) /\ Load(p) /\ Go(p, "get_cmp") /\ UNCHANGED <<key, i, mine, res>>
    <3>1. pc[p] = "get_load" /\ pc'[p] = "get_cmp" /\ UNCHANGED <<s_vis, ent, nent, pub>>
      BY <1>1, <1>2, <2>1 DEF GetLoad, Go, Types
    <3> QED BY <2>1, <3>1, OwnLoad
  <2>2. CASE ~Real(s_vis[i[p]]) /\ Onward(p, "get_load", Missed(p))
    <3>1. /\ pc[p] = "get_load" /\ pc'[p] \in {"get_load", "ret"}
          /\ key'[p] = key[p] /\ res'[p] = res[p] /\ UNCHANGED <<s_vis, ent, nent, pub>>
      BY <1>1, <1>2, <2>2 DEF GetLoad, Onward, Missed, Go, Types
    <3> QED BY <2>2, <3>1, OwnEmpty
  <2> QED BY <1>2, <2>1, <2>2 DEF GetLoad
<1>3. CASE GetCompare(p)
  <2>1. PICK m \in compare(vi[p], key[p]) :
          \/ m = "TRUE" /\ Go(p, "get_read") /\ UNCHANGED <<key, i, vi, mine, res>>
          \/ m # "TRUE" /\ Onward(p, "get_load", Missed(p))
    BY <1>3 DEF GetCompare
  <2>2. pc[p] = "get_cmp" /\ UNCHANGED <<s_vis, ent, nent, pub>>
    BY <1>3 DEF GetCompare
  <2>3. CASE m = "TRUE"
    <3>1. pc'[p] = "get_read" /\ UNCHANGED <<key, i, vi, res>>
      BY <1>1, <2>1, <2>3 DEF Go, Types
    <3>2. ent[vi[p]].key = key[p]
      BY <2>3, CompareTells
    <3> QED BY <2>2, <3>1, <3>2, OwnEqual
  <2>4. CASE m # "TRUE"
    <3>1. pc'[p] \in {"get_load", "ret"} /\ key'[p] = key[p] /\ res'[p] = res[p]
      BY <1>1, <2>1, <2>4 DEF Onward, Missed, Go, Types
    <3>2. ~(ent[vi[p]].key = key[p] /\ ent[vi[p]].used)
      BY <2>4, CompareTells
    <3> QED BY <2>2, <3>1, <3>2, OwnUnequal
  <2> QED BY <2>3, <2>4
<1>4. CASE GetRead(p)
  <2>1. /\ pc[p] = "get_read" /\ pc'[p] = "ret" /\ key'[p] = key[p]
        /\ res'[p] = IF ent[vi[p]].used THEN vi[p] ELSE EMPTY
    BY <1>1, <1>4 DEF GetRead, Go, Types
  <2>2. seen[p] \subseteq seen'[p]
    BY <2>1 DEF Watch
  <2>3. i[p] = Home[key[p]]
    BY <1>1, <2>1 DEF Thread, SameKey, Met, Matching
  <2>4. key[p] \notin Replace => vi[p] \in seen[p]
    BY <1>1, <2>1, <2>3 DEF Thread, Met, Matching
  <2>5. key[p] \notin Replace /\ ~ent[vi[p]].used => None \in seen[p]
    BY <2>1, GoneOrElsewhere DEF Matching
  <2>6. Result(p)'
    BY <2>1, <2>2, <2>4, <2>5 DEF Result
  <2>7. PutHome(p)' /\ SameKey(p)' /\ Met(p)' /\ Passed(p)'
    BY <2>1 DEF PutHome, SameKey, Met, Passed, Storing, Matching, Searching
  <2> QED BY <2>6, <2>7 DEF Thread
<1>5. CASE GetReturn(p)
  <2>1. pc'[p] = "idle" /\ res'[p] = None
    BY <1>1, <1>5, ReturnDoes DEF GetReturn
  <2> QED BY <2>1, IdleThread
<1> QED BY <1>2, <1>3, <1>4, <1>5

(* The steps of a del() before its exchange.                               *)
LEMMA OwnDel ==
  ASSUME OwnKeys, MapInv, Types', Watch, NEW p \in Proc,
         DelLoad(p) \/ DelCompare(p) \/ DelRetry(p)
  PROVE  Thread(p)'
<1>1. Thread(p) /\ Types
  BY TypeOKParts DEF MapInv, TableInv
<1>2. ASSUME Return(p) PROVE Thread(p)'
  <2>1. pc'[p] = "idle" /\ res'[p] = None
    BY <1>1, <1>2, ReturnDoes
  <2> QED BY <2>1, IdleThread
<1>3. CASE DelLoad(p)
  <2>1. pc[p] = "del_load" /\ UNCHANGED <<s_vis, ent, nent, pub>>
    BY <1>3 DEF DelLoad
  <2>2. CASE Real(s_vis[i[p]]) /\ Load(p) /\ Go(p, "del_cmp") /\ UNCHANGED <<key, i, mine, res>>
    <3>1. pc'[p] = "del_cmp"
      BY <1>1, <2>2 DEF Go, Types
    <3> QED BY <2>1, <2>2, <3>1, OwnLoad
  <2>3. CASE ~Real(s_vis[i[p]]) /\ UNCHANGED <<pc, key, vi, mine, res>>
    BY <2>1, <2>3, OwnEmpty
  <2> QED BY <1>2, <1>3, <2>2, <2>3 DEF DelLoad
<1>4. CASE DelCompare(p)
  <2>1. PICK m \in compare(vi[p], key[p]) :
          \/ m = "TRUE" /\ Go(p, "del_cas") /\ UNCHANGED <<key, i, vi, mine, res>>
          \/ m = "REMOVED" /\ Return(p)
          \/ m = "FALSE" /\ Onward(p, "del_load", Return(p))
    BY <1>4 DEF DelCompare
  <2>2. pc[p] = "del_cmp" /\ UNCHANGED <<s_vis, ent, nent, pub>>
    BY <1>4 DEF DelCompare
  <2>3. CASE m = "TRUE"
    <3>1. pc'[p] = "del_cas" /\ UNCHANGED <<key, i, vi, res>>
      BY <1>1, <2>1, <2>3 DEF Go, Types
    <3>2. ent[vi[p]].key = key[p]
      BY <2>3, CompareTells
    <3> QED BY <2>2, <3>1, <3>2, OwnEqual
  <2>4. CASE m = "FALSE" /\ Go(p, "del_load") /\ UNCHANGED <<key, vi, mine, res>>
    <3>1. pc'[p] = "del_load" /\ key'[p] = key[p] /\ res'[p] = res[p]
      BY <1>1, <2>4 DEF Go, Types
    <3>2. ~(ent[vi[p]].key = key[p] /\ ent[vi[p]].used)
      BY <2>4, CompareTells
    <3> QED BY <2>2, <3>1, <3>2, OwnUnequal
  <2> QED BY <1>2, <2>1, <2>3, <2>4 DEF Onward
<1>5. CASE DelRetry(p)
  <2>1. /\ pc[p] = "del_cas" /\ pc'[p] = "del_load" /\ key'[p] = key[p] /\ i'[p] = i[p]
        /\ res'[p] = res[p]
    BY <1>1, <1>5 DEF DelRetry, Go, Types
  <2>2. i[p] = Home[key[p]]
    BY <1>1, <2>1 DEF Thread, SameKey, Met, Matching
  <2> QED BY <1>1, <2>1, <2>2
          DEF Thread, PutHome, SameKey, Met, Passed, Result, Storing, Matching, Searching
<1> QED BY <1>3, <1>4, <1>5

(* What the invariant adds for a table that is used this way.              *)
Homely == Kept /\ AtHome /\ \A p \in Proc : Thread(p)

(* alloc() at the start of a put(): the home of a key that is not replaced *)
(* is free, or put() would not have been called.                           *)
LEMMA HomelyPutStart ==
  ASSUME OwnKeys, MapInv, Types', Watch, NEW p \in Proc, Apart(p), NEW k \in Key,
         PutStart(p, k)
  PROVE  Homely'
<1>1. Types /\ Stages /\ Fresh /\ Once /\ Kept /\ AtHome /\ Thread(p)
  BY TypeOKParts DEF MapInv, TableInv
<1>2. /\ pc[p] = "idle" /\ pc'[p] = "put_load" /\ key'[p] = k /\ i'[p] = Home[k]
      /\ nent + 1 \in Entry /\ nent \in Nat /\ mine'[p] = nent + 1 /\ res'[p] = res[p]
      /\ ent'[nent + 1].key = k /\ \A e \in Entry \ {nent + 1} : ent'[e] = ent[e]
      /\ UNCHANGED s_vis /\ k \in Puts[p]
  BY <1>1, SlotAssumption DEF PutStart, Begin, Look, Go, Types, Entry
<1>3. \A e \in Entry : e <= nent => ent'[e] = ent[e]
  BY <1>2
<1>4. \A j \in Slot : Real(s_vis[j]) => s_vis[j] \in Entry /\ s_vis[j] <= nent
  BY <1>1 DEF Fresh, Once, SlotsUsed, Real
<1>5. AtHome'
  BY <1>1, <1>2, <1>3, <1>4 DEF AtHome
<1>6. Kept'
  <2>1. ASSUME NEW e \in Entry, ent'[e].used
        PROVE  (\E j \in Slot : s_vis'[j] = e) \/ (\E q \in Proc : mine'[q] = e)
    <3>1. CASE e = nent + 1
      BY <1>2, <3>1
    <3>2. CASE e # nent + 1
      <4>1. ent[e].used /\ e # None /\ mine[p] = None
        BY <1>1, <1>2, <2>1, <3>2 DEF Stages, Storing, Entry, None
      <4> QED BY <1>1, <1>2, <4>1 DEF Kept, Apart
    <3> QED BY <3>1, <3>2
  <2> QED BY <2>1 DEF Kept
<1>7. Thread(p)'
  <2>1. k \notin Replace => ~Real(s_vis[Home[k]])
    <3>1. Found(k) = AtKey(k)
      BY <1>1, FoundAtHome DEF OwnKeys
    <3>2. k \notin Replace => Found(k) = None
      BY DEF PutStart
    <3>3. ~Real(None)
      BY DEF Real, Entry, None
    <3> QED BY <3>1, <3>2, <3>3 DEF AtKey
  <2> QED BY <1>1, <1>2, <2>1
          DEF Thread, PutHome, SameKey, Met, Passed, Result, Storing, Matching, Searching
<1>8. ASSUME NEW q \in Proc, q # p PROVE Thread(q)'
  BY <1>2, <1>3, <1>8, OtherThread
<1> QED BY <1>5, <1>6, <1>7, <1>8 DEF Homely

(* The exchange of put(): nobody else puts the key, and a search that had  *)
(* met an entry of a key that is not replaced has seen it absent.          *)
LEMMA HomelyPutCas ==
  ASSUME OwnKeys, MapInv, Types', Watch, NEW p \in Proc, Apart(p), PutCas(p)
  PROVE  Homely'
<1>1. Types /\ Stages /\ Fresh /\ Once /\ Kept /\ AtHome /\ Thread(p)
  BY TypeOKParts DEF MapInv, TableInv
<1>2. /\ pc[p] = "put_cas" /\ pc[p] \in Storing /\ s_vis[i[p]] = vi[p] /\ i[p] \in Slot
      /\ s_vis'[i[p]] = mine[p] /\ UNCHANGED <<ent, nent>>
      /\ \A j \in Slot \ {i[p]} : s_vis'[j] = s_vis[j]
  BY <1>1 DEF PutCas, CmpexOk, Types, Storing
<1>3. /\ key[p] \in Puts[p] /\ key[p] \in Key /\ i[p] = Home[key[p]]
      /\ ent[mine[p]].key = key[p] /\ mine[p] \in Entry
      /\ key[p] \notin Replace => ~Real(s_vis[i[p]])
  BY <1>1, <1>2 DEF Thread, PutHome, Types, Stages
<1>4. /\ pc'[p] \in {"idle", "free"} /\ res'[p] = None
      /\ Real(vi[p]) => mine'[p] = vi[p]
  <2>1. CASE ~Real(vi[p]) /\ Return(p)
    BY <1>1, <2>1, ReturnDoes
  <2>2. CASE /\ Real(vi[p]) /\ mine' = [mine EXCEPT ![p] = vi[p]]
             /\ Go(p, "free") /\ UNCHANGED <<key, i, vi, res>>
    BY <1>1, <1>2, <2>2 DEF Go, Types, Thread, Result
  <2> QED BY <2>1, <2>2 DEF PutCas
<1>5. AtHome'
  BY <1>1, <1>2, <1>3 DEF AtHome
<1>6. Kept'
  <2>1. ASSUME NEW e \in Entry, ent'[e].used
        PROVE  (\E j \in Slot : s_vis'[j] = e) \/ (\E q \in Proc : mine'[q] = e)
    <3>1. CASE \E j \in Slot : s_vis[j] = e
      <4>1. PICK j \in Slot : s_vis[j] = e
        BY <3>1
      <4>2. CASE j = i[p]
        BY <1>2, <1>4, <4>1, <4>2 DEF Real
      <4>3. CASE j # i[p]
        BY <1>2, <4>1, <4>3
      <4> QED BY <4>2, <4>3
    <3>2. CASE \E q \in Proc : mine[q] = e
      BY <1>2, <3>2 DEF Apart
    <3> QED BY <1>1, <1>2, <2>1, <3>1, <3>2 DEF Kept
  <2> QED BY <2>1 DEF Kept
<1>7. Thread(p)'
  BY <1>4, IdleThread
<1>8. ASSUME NEW q \in Proc, q # p PROVE Thread(q)'
  <2>1. Thread(q) /\ i[q] \in Slot /\ key[q] \in Key
    BY <1>1 DEF MapInv, Types
  <2>2. i[q] = i[p] /\ i[q] = Home[key[q]] => key[q] = key[p]
    BY <1>3, <2>1 DEF OwnKeys, HomesApart
  <2>3. pc[q] \in Storing => s_vis'[i[q]] = s_vis[i[q]]
    BY <1>2, <1>3, <1>8, <2>1, <2>2 DEF OwnKeys, OneWriter, Thread, PutHome
  <2>4. pc[q] \in Matching /\ i[q] = Home[key[q]] /\ key[q] \notin Replace =>
          s_vis'[i[q]] = s_vis[i[q]] \/ None \in seen'[q]
    <3> SUFFICES ASSUME pc[q] \in Matching, i[q] = Home[key[q]], key[q] \notin Replace,
                        i[q] = i[p]
                 PROVE  None \in seen'[q]
      BY <1>2, <2>1
    <3>1. Real(vi[q]) /\ ~Real(s_vis[i[q]])
      BY <1>1, <1>3, <2>2 DEF Stages
    <3>2. None \in seen[q]
      BY <2>1, <3>1 DEF Thread, Met
    <3>3. pc'[q] # "idle"
      BY <1>8 DEF Apart, Matching
    <3> QED BY <3>2, <3>3 DEF Watch
  <2> QED BY <1>2, <1>8, <2>3, <2>4, OtherThread
<1> QED BY <1>5, <1>6, <1>7, <1>8 DEF Homely

(* The exchange of del(): no put() of the key is under way in another      *)
(* thread, and every search of the key sees it absent.                     *)
LEMMA HomelyDelCas ==
  ASSUME OwnKeys, MapInv, Types', Watch, NEW p \in Proc, Apart(p), DelCas(p)
  PROVE  Homely'
<1>1. Types /\ Stages /\ Fresh /\ Once /\ Kept /\ AtHome /\ Thread(p)
  BY TypeOKParts DEF MapInv, TableInv
<1>2. /\ pc[p] = "del_cas" /\ s_vis[i[p]] = vi[p] /\ i[p] \in Slot
      /\ s_vis'[i[p]] = DELETED /\ UNCHANGED <<ent, nent>>
      /\ \A j \in Slot \ {i[p]} : s_vis'[j] = s_vis[j]
      /\ mine'[p] = vi[p] /\ pc'[p] = "free" /\ res'[p] = res[p]
  BY <1>1 DEF DelCas, CmpexOk, Go, Types
<1>3. Real(vi[p]) /\ mine[p] = None /\ res[p] = None
  BY <1>1, <1>2 DEF Stages, Storing, Matching, Thread, Result
<1>4. key[p] \in Key /\ key[p] \in Dels[p] /\ i[p] = Home[key[p]]
  BY <1>1, <1>2 DEF Thread, SameKey, Met, Matching, Types
<1>5. ~Real(DELETED)
  BY DEF Real, Entry, DELETED
<1>6. AtHome'
  BY <1>1, <1>2, <1>5 DEF AtHome
<1>7. Kept'
  <2>1. ASSUME NEW e \in Entry, ent'[e].used
        PROVE  (\E j \in Slot : s_vis'[j] = e) \/ (\E q \in Proc : mine'[q] = e)
    <3>1. CASE \E j \in Slot : s_vis[j] = e
      BY <1>2, <3>1
    <3>2. CASE \E q \in Proc : mine[q] = e
      <4>1. e # None
        BY DEF Entry, None
      <4> QED BY <1>3, <3>2, <4>1 DEF Apart
    <3> QED BY <1>1, <1>2, <2>1, <3>1, <3>2 DEF Kept
  <2> QED BY <2>1 DEF Kept
<1>8. Thread(p)'
  BY <1>2, <1>3, IdleThread
<1>9. ASSUME NEW q \in Proc, q # p PROVE Thread(q)'
  <2>1. Thread(q) /\ i[q] \in Slot /\ key[q] \in Key
    BY <1>1 DEF MapInv, Types
  <2>2. i[q] = i[p] /\ i[q] = Home[key[q]] => key[q] = key[p]
    BY <1>4, <2>1 DEF OwnKeys, HomesApart
  <2>3. pc[q] \in Storing => s_vis'[i[q]] = s_vis[i[q]]
    <3> SUFFICES ASSUME pc[q] \in Storing, i[q] = i[p] PROVE FALSE
      BY <1>2, <2>1
    <3>1. key[q] = key[p] /\ key[q] \in Puts[q]
      BY <2>1, <2>2 DEF Thread, PutHome
    <3>2. key[q] \in Replace
      BY <1>2, <1>3, <2>1 DEF Thread, PutHome
    <3> QED BY <1>4, <1>9, <3>1, <3>2 DEF OwnKeys, OneReplacer
  <2>4. pc[q] \in Matching /\ i[q] = Home[key[q]] /\ key[q] \notin Replace =>
          s_vis'[i[q]] = s_vis[i[q]] \/ None \in seen'[q]
    <3> SUFFICES ASSUME pc[q] \in Matching, i[q] = Home[key[q]], i[q] = i[p]
                 PROVE  None \in seen'[q]
      BY <1>2, <2>1
    <3>1. PICK k \in Key : k = key[q]
      BY <2>1
    <3>2. pc'[q] # "idle" /\ key'[q] = k
      BY <1>9, <3>1 DEF Apart, Matching
    <3>3. AtKey(k)' \in seen'[q]
      BY <1>6, <3>2, Watched DEF OwnKeys
    <3>4. AtKey(k)' = None
      BY <1>2, <1>5, <3>1 DEF AtKey
    <3> QED BY <3>3, <3>4
  <2> QED BY <1>2, <1>9, <2>3, <2>4, OtherThread
<1> QED BY <1>6, <1>7, <1>8, <1>9 DEF Homely

(* free() and the end of the call.                                         *)
LEMMA HomelyFree ==
  ASSUME OwnKeys, MapInv, Types', Watch, NEW p \in Proc, Apart(p), Free(p)
  PROVE  Homely'
<1>1. Types /\ Stages /\ Fresh /\ Once /\ Kept /\ AtHome /\ Thread(p)
  BY TypeOKParts DEF MapInv, TableInv
<1>2. pc'[p] = "idle" /\ mine'[p] = None /\ res'[p] = None
  BY <1>1, ReturnDoes DEF Free
<1>3. mine[p] \in Entry
  BY <1>1 DEF Free, Stages, Types
<1>4. /\ UNCHANGED <<s_vis, nent>> /\ ~ent'[mine[p]].used
      /\ \A e \in Entry : ent'[e].key = ent[e].key
      /\ \A e \in Entry \ {mine[p]} : ent'[e] = ent[e]
  BY <1>1, <1>3 DEF Free, Types
<1>5. AtHome'
  BY <1>1, <1>4 DEF AtHome, Real
<1>6. Kept'
  BY <1>1, <1>4 DEF Kept, Apart
<1>7. Thread(p)'
  BY <1>2, IdleThread
<1>8. ASSUME NEW q \in Proc, q # p PROVE Thread(q)'
  BY <1>4, <1>8, OtherThread
<1> QED BY <1>5, <1>6, <1>7, <1>8 DEF Homely

(* No put() comes to the end of its search.                                *)
LEMMA NoDrop == ASSUME OwnKeys, MapInv, NEW p \in Proc, Act(p), Drop(p) PROVE FALSE
<1>1. Types
  BY TypeOKParts DEF MapInv, TableInv
<1>2. pc[p] = "put_cmp" /\ pc'[p] = "idle"
  BY <1>1, ReturnDoes DEF Drop
<1>3. PutCompare(p)
  BY <1>2 DEF Act, PutStart, GetStart, DelStart, Begin, PutLoad, PutCas, PutRetry, Free,
              GetLoad, GetCompare, GetRead, GetReturn, DelLoad, DelCompare, DelCas, DelRetry
<1>4. pc' = [pc EXCEPT ![p] = "put_cas"]
  BY <1>3, PutStays DEF Go
<1> QED BY <1>1, <1>2, <1>4 DEF Types

(* The steps of a search.                                                  *)
LEMMA HomelySearch ==
  ASSUME OwnKeys, MapInv, Types', Watch, NEW p \in Proc, Apart(p), SearchStep(p), Thread(p)'
  PROVE  Homely'
<1>1. Kept /\ AtHome
  BY DEF MapInv
<1>2. AtHome'
  BY <1>1 DEF AtHome, SearchStep
<1>3. Kept'
  <2>1. \A q \in Proc : mine'[q] = mine[q]
    BY DEF SearchStep, Apart
  <2> QED BY <1>1, <2>1 DEF Kept, SearchStep
<1>4. ASSUME NEW q \in Proc, q # p PROVE Thread(q)'
  BY <1>4, OtherThread DEF SearchStep
<1> QED BY <1>2, <1>3, <1>4 DEF Homely

(* Every step keeps entries accounted for and at home.                     *)
LEMMA StepHomely ==
  ASSUME OwnKeys, MapInv, NEW p \in Proc, Act(p), Watch PROVE Homely'
<1>1. Types /\ Stages
  BY TypeOKParts DEF MapInv, TableInv
<1>2. Types' /\ Apart(p)
  BY <1>1, StepTypes
<1>3. ASSUME NEW k \in Key, PutStart(p, k) PROVE Homely'
  BY <1>2, <1>3, HomelyPutStart
<1>4. CASE PutCas(p)
  BY <1>2, <1>4, HomelyPutCas
<1>5. CASE DelCas(p)
  BY <1>2, <1>5, HomelyDelCas
<1>6. CASE Free(p)
  BY <1>2, <1>6, HomelyFree
<1>7. CASE SearchStep(p)
  <2>1. ASSUME Thread(p)' PROVE Homely'
    BY <1>2, <1>7, <2>1, HomelySearch
  <2>2. ASSUME NEW k \in Key, GetStart(p, k) \/ DelStart(p, k) PROVE Thread(p)'
    BY <1>2, <2>2, OwnStart
  <2>3. CASE PutLoad(p) \/ PutCompare(p) \/ PutRetry(p)
    BY <1>2, <2>1, <2>3, OwnPut
  <2>4. CASE GetLoad(p) \/ GetCompare(p) \/ GetRead(p) \/ GetReturn(p)
    BY <1>2, <2>1, <2>4, OwnGet
  <2>5. CASE DelLoad(p) \/ DelCompare(p) \/ DelRetry(p)
    BY <1>2, <2>1, <2>5, OwnDel
  <2> QED BY <1>3, <1>4, <1>5, <1>6, <2>1, <2>2, <2>3, <2>4, <2>5 DEF Act
<1> QED BY <1>1, <1>3, <1>4, <1>5, <1>6, <1>7, StepKinds, NoDrop

(* The invariant of a table whose keys have homes of their own: every      *)
(* entry in use is kept, in the home of its key.                           *)
THEOREM MapInvariant == ASSUME OwnKeys PROVE Spec => []MapInv
<1>1. Init /\ TableInv => MapInv
  <2> SUFFICES ASSUME Init, TableInv PROVE MapInv
    OBVIOUS
  <2>1. Kept
    BY DEF Init, Kept
  <2>2. AtHome
    BY DEF Init, AtHome, Real, Entry, EMPTY
  <2>3. \A p \in Proc : Thread(p)
    BY DEF Init, Thread, PutHome, SameKey, Met, Passed, Result, Storing, Matching, Searching
  <2> QED BY <2>1, <2>2, <2>3 DEF MapInv
<1>2. MapInv /\ TableInv' /\ [Next]_vars => MapInv'
  <2> SUFFICES ASSUME MapInv, TableInv', [Next]_vars PROVE MapInv'
    OBVIOUS
  <2>1. CASE UNCHANGED vars
    <3>1. Kept' /\ AtHome'
      BY <2>1 DEF vars, MapInv, Kept, AtHome
    <3>2. ASSUME NEW p \in Proc PROVE Thread(p)'
      <4>1. Thread(p)
        BY DEF MapInv
      <4>2. PutHome(p)' /\ SameKey(p)'
        BY <2>1, <4>1 DEF vars, Thread, PutHome, SameKey
      <4>3. Met(p)' /\ Passed(p)' /\ Result(p)'
        BY <2>1, <4>1 DEF vars, Thread, Met, Passed, Result
      <4> QED BY <4>2, <4>3 DEF Thread
    <3> QED BY <3>1, <3>2 DEF MapInv
  <2>2. ASSUME NEW p \in Proc, Act(p), Watch PROVE MapInv'
    BY <2>2, StepHomely DEF Homely, MapInv
  <2> QED BY <2>1, <2>2 DEF Next
<1> QED BY <1>1, <1>2, TableInvariant, PTL DEF Spec

(* Every entry in use is in one slot or in the hands of one thread: none   *)
(* leaks, and none is freed twice or while the table leads to it.          *)
THEOREM NoEntryLost == ASSUME OwnKeys PROVE Spec => []EntryAccounted
<1>1. MapInv => EntryAccounted
  <2> SUFFICES ASSUME MapInv, NEW e \in Entry
               PROVE  Cardinality(At(e)) + Cardinality(InHand(e))
                        = IF ent[e].used THEN 1 ELSE 0
    BY DEF EntryAccounted
  <2>1. \A x : Cardinality({x}) = 1
    BY FS_Singleton
  <2>2. Cardinality({}) = 0
    BY FS_EmptySet
  <2>3. TypeOK /\ Once /\ Kept
    BY DEF MapInv, TableInv
  <2>4. CASE At(e) = {} /\ InHand(e) = {}
    <3>1. ~ent[e].used
      BY <2>3, <2>4 DEF Kept, At, InHand
    <3> QED BY <2>2, <2>4, <3>1
  <2>5. CASE ent[e].used /\ InHand(e) = {} /\ \E j \in Slot : At(e) = {j}
    <3>1. PICK j \in Slot : At(e) = {j}
      BY <2>5
    <3>2. Cardinality(At(e)) = 1 /\ Cardinality(InHand(e)) = 0
      BY <2>1, <2>2, <2>5, <3>1
    <3> QED BY <2>5, <3>2
  <2>6. CASE ent[e].used /\ At(e) = {} /\ \E p \in Proc : InHand(e) = {p}
    <3>1. PICK p \in Proc : InHand(e) = {p}
      BY <2>6
    <3>2. Cardinality(InHand(e)) = 1 /\ Cardinality(At(e)) = 0
      BY <2>1, <2>2, <2>6, <3>1
    <3> QED BY <2>6, <3>2
  <2> QED BY <2>3, <2>4, <2>5, <2>6, Owners
<1> QED BY <1>1, MapInvariant, PTL

(* A del() of a key that is put only while absent gives up only if the key *)
(* was absent during it.                                                   *)
THEOREM DelsCurrent == ASSUME OwnKeys PROVE Spec => DelIsCurrent
<1> DEFINE GivesUp(p) == pc[p] \in {"del_load", "del_cmp"} /\ pc'[p] = "idle" /\ key[p] \notin Replace
           Seen == \A p \in Proc : GivesUp(p) => None \in seen[p]
<1>1. MapInv /\ [Next]_vars => [Seen]_vars
  <2> SUFFICES ASSUME MapInv, NEW q \in Proc, Act(q), NEW p \in Proc, GivesUp(p)
               PROVE  None \in seen[p]
    BY DEF Next
  <2>1. Types /\ Stages /\ Thread(p)
    BY TypeOKParts DEF MapInv, TableInv
  <2>2. p = q
    <3>1. Apart(q)
      BY <2>1, StepTypes
    <3> QED BY <3>1 DEF Apart
  <2>3. CASE pc[p] = "del_load"
    <3>1. DelLoad(p)
      BY <2>2, <2>3 DEF Act, PutStart, GetStart, DelStart, Begin, PutLoad, PutCompare, PutCas,
           PutRetry, Free, GetLoad, GetCompare, GetRead, GetReturn, DelCompare, DelCas, DelRetry
    <3>2. i[p] = en(p)
      BY <2>1, <2>3, <3>1 DEF DelLoad, Go, Types
    <3>3. i[p] # Home[key[p]]
      BY <2>1, <3>2, EndNotHome
    <3> QED BY <2>1, <2>3, <3>3 DEF Thread, Passed, Searching
  <2>4. CASE pc[p] = "del_cmp"
    <3>1. DelCompare(p)
      BY <2>2, <2>4 DEF Act, PutStart, GetStart, DelStart, Begin, PutLoad, PutCompare, PutCas,
           PutRetry, Free, GetLoad, GetCompare, GetRead, GetReturn, DelLoad, DelCas, DelRetry
    <3>2. PICK m \in compare(vi[p], key[p]) : m # "TRUE"
      BY <2>1, <3>1 DEF DelCompare, Go, Types
    <3>3. ~(ent[vi[p]].key = key[p] /\ ent[vi[p]].used)
      BY <3>2, CompareTells
    <3> QED BY <2>4, <3>3, GoneOrElsewhere DEF Matching
  <2> QED BY <2>3, <2>4
<1> QED BY <1>1, MapInvariant, PTL DEF Spec, DelIsCurrent

(* A key has the same value before and after a step that leaves its home   *)
(* alone.                                                                  *)
LEMMA SameValue ==
  ASSUME OwnKeys, MapInv, MapInv', NEW k \in Key, s_vis'[Home[k]] = s_vis[Home[k]]
  PROVE  kv'[k] = kv[k]
<1>1. Types /\ AtHome /\ Types' /\ AtHome' /\ HomesApart
  BY TypeOKParts DEF MapInv, TableInv, OwnKeys, TypeOK, Types
<1>2. Found(k) = AtKey(k) /\ Found(k)' = AtKey(k)'
  BY <1>1, FoundAtHome, FoundAtHomeNext
<1> QED BY <1>2 DEF kv, AtKey

(* The values of the keys, at home.                                        *)
LEMMA ValueAtHome ==
  ASSUME OwnKeys, MapInv, NEW k \in Key PROVE kv[k] = AtKey(k)
<1>1. Types /\ AtHome /\ HomesApart
  BY TypeOKParts DEF MapInv, TableInv, OwnKeys
<1> QED BY <1>1, FoundAtHome DEF kv

(* The same after a step.                                                  *)
LEMMA ValueAtHomeNext ==
  ASSUME OwnKeys, MapInv', NEW k \in Key PROVE kv'[k] = AtKey(k)'
<1>1. Types' /\ AtHome' /\ HomesApart
  BY DEF MapInv, TableInv, OwnKeys, TypeOK, Types
<1> QED BY <1>1, FoundAtHomeNext DEF kv

(* The table implements a map: the exchange of put() is the moment a key   *)
(* gets its value, that of del() the moment it loses it, and no other step *)
(* changes the value of any key.                                           *)
THEOREM TableIsMap == ASSUME OwnKeys PROVE Spec => MapSpec
<1>1. Init /\ MapInv => Map!Init
  <2> SUFFICES ASSUME Init, MapInv PROVE Map!Init
    OBVIOUS
  <2>1. \A k \in Key : kv[k] = None
    <3> SUFFICES ASSUME NEW k \in Key PROVE kv[k] = None
      OBVIOUS
    <3>1. Home[k] \in Slot
      BY HomeAssumption
    <3>2. ~Real(s_vis[Home[k]])
      BY <3>1 DEF Init, Real, Entry, EMPTY
    <3> QED BY <3>2, ValueAtHome DEF AtKey
  <2>2. kv = [k \in Key |-> None]
    BY <2>1 DEF kv
  <2> QED BY <2>2 DEF Init, Map!Init
<1>2. MapInv /\ MapInv' /\ [Next]_vars => [Map!Next]_<<kv, pub>>
  <2> SUFFICES ASSUME MapInv, MapInv', [Next]_vars PROVE [Map!Next]_<<kv, pub>>
    OBVIOUS
  <2>1. Types /\ Stages
    BY TypeOKParts DEF MapInv, TableInv
  <2>2. kv = [k \in Key |-> kv[k]] /\ kv' = [k \in Key |-> kv'[k]]
    BY DEF kv
  <2>3. ASSUME UNCHANGED s_vis PROVE UNCHANGED kv
    <3>1. \A k \in Key : kv'[k] = kv[k]
      BY <2>3, SameValue
    <3> QED BY <2>2, <3>1
  <2>4. CASE UNCHANGED vars
    BY <2>3, <2>4 DEF vars
  <2>5. ASSUME NEW p \in Proc, PutCas(p) PROVE Map!Next
    <3>1. /\ pc[p] = "put_cas" /\ i[p] = Home[key[p]] /\ key[p] \in Key /\ mine[p] \in Entry
          /\ mine[p] \notin pub /\ pub' = pub \union {mine[p]}
      BY <2>1, <2>5 DEF PutCas, Stages, Types, MapInv, Thread, PutHome, Storing
    <3>2. s_vis' = [s_vis EXCEPT ![i[p]] = mine[p]]
      BY <2>5 DEF PutCas
    <3>3. \A k \in Key \ {key[p]} : kv'[k] = kv[k]
      <4> SUFFICES ASSUME NEW k \in Key, k # key[p] PROVE kv'[k] = kv[k]
        OBVIOUS
      <4>1. Home[k] # i[p] /\ Home[k] \in Slot
        BY <3>1, HomeAssumption DEF OwnKeys, HomesApart
      <4> QED BY <2>1, <3>2, <4>1, SameValue DEF Types
    <3>4. kv'[key[p]] = mine[p]
      <4>1. PICK k \in Key : k = key[p]
        BY <3>1
      <4>2. s_vis'[Home[k]] = mine[p]
        BY <2>1, <3>1, <3>2, <4>1 DEF Types
      <4>3. AtKey(k)' = mine[p]
        BY <3>1, <4>2 DEF AtKey, Real
      <4> QED BY <4>1, <4>3, ValueAtHomeNext
    <3>5. kv' = [kv EXCEPT ![key[p]] = mine[p]]
      BY <2>2, <3>1, <3>3, <3>4
    <3>6. Map!Put(key[p], mine[p])
      BY <3>1, <3>5 DEF Map!Put
    <3> QED BY <3>1, <3>6 DEF Map!Next
  <2>6. ASSUME NEW p \in Proc, DelCas(p) PROVE Map!Next
    <3>1. /\ pc[p] = "del_cas" /\ i[p] = Home[key[p]] /\ key[p] \in Key
          /\ s_vis[i[p]] = vi[p] /\ Real(vi[p]) /\ UNCHANGED pub
      BY <2>1, <2>6 DEF DelCas, CmpexOk, Stages, Types, MapInv, Thread, SameKey, Met, Matching
    <3>2. s_vis' = [s_vis EXCEPT ![i[p]] = DELETED]
      BY <2>6 DEF DelCas
    <3>3. \A k \in Key \ {key[p]} : kv'[k] = kv[k]
      <4> SUFFICES ASSUME NEW k \in Key, k # key[p] PROVE kv'[k] = kv[k]
        OBVIOUS
      <4>1. Home[k] # i[p] /\ Home[k] \in Slot
        BY <3>1, HomeAssumption DEF OwnKeys, HomesApart
      <4> QED BY <2>1, <3>2, <4>1, SameValue DEF Types
    <3>4. kv[key[p]] # None /\ kv'[key[p]] = None
      <4>1. PICK k \in Key : k = key[p]
        BY <3>1
      <4>2. s_vis'[Home[k]] = DELETED
        BY <2>1, <3>1, <3>2, <4>1 DEF Types
      <4>3. AtKey(k)' = None
        BY <4>2 DEF AtKey, Real, Entry, DELETED
      <4>4. AtKey(k) = vi[p] /\ vi[p] # None
        BY <3>1, <4>1 DEF AtKey, Real, Entry, None
      <4> QED BY <4>1, <4>3, <4>4, ValueAtHome, ValueAtHomeNext
    <3>5. kv' = [kv EXCEPT ![key[p]] = None]
      BY <2>2, <3>1, <3>3, <3>4
    <3>6. Map!Del(key[p])
      BY <3>1, <3>4, <3>5 DEF Map!Del
    <3> QED BY <3>1, <3>6 DEF Map!Next
  <2>7. ASSUME NEW p \in Proc, Act(p) PROVE [Map!Next]_<<kv, pub>>
    <3>1. ASSUME NEW k \in Key, PutStart(p, k) PROVE UNCHANGED <<s_vis, pub>>
      BY <3>1 DEF PutStart
    <3>2. CASE Free(p) \/ Drop(p) \/ SearchStep(p)
      BY <2>3, <3>2 DEF Free, Drop, SearchStep
    <3> QED BY <2>1, <2>3, <2>5, <2>6, <2>7, <3>1, <3>2, StepKinds
  <2> QED BY <2>4, <2>7 DEF Next
<1> QED BY <1>1, <1>2, MapInvariant, PTL DEF Spec, MapSpec, Map!Spec

------------------------------------------------------------------------------
(* Keys that are put only while absent, each by one thread, as the         *)
(* transactors put theirs: whatever they hash to, whoever deletes them,    *)
(* and whatever is done with the keys that are replaced.  Two of the keys  *)
(* of the mailboxes, which end in the number of a process, have the same   *)
(* home for some of these numbers.                                         *)

PutAbsent == Key \ Replace

SoleWriter ==
  \A p, q \in Proc : \A k \in PutAbsent : k \in Puts[p] /\ k \in Puts[q] => p = q

(* A slot holds a key.                                                     *)
HasKey(j, k) == Real(s_vis[j]) /\ ent[s_vis[j]].key = k

(* How far a slot is from the home of a key.                               *)
Dist(k, j) == IF j >= Home[k] THEN j - Home[k] ELSE j - Home[k] + N

(* Such a key is in one slot at most.                                      *)
InOneSlot ==
  \A k \in PutAbsent : \A j, l \in Slot : HasKey(j, k) /\ HasKey(l, k) => j = l

(* It is in no slot while its writer is about to store it.                 *)
Putting(p) ==
  pc[p] \in Storing =>
    /\ key[p] \in Puts[p] /\ ent[mine[p]].key = key[p]
    /\ key[p] \in PutAbsent => \A j \in Slot : ~HasKey(j, key[p])

(* What is taken out of its slot has the key of the call.                  *)
Taking(p) ==
  /\ pc[p] = "put_cas" /\ Real(vi[p]) => ent[vi[p]].key = key[p]
  /\ pc[p] = "del_cas" => ent[vi[p]].key = key[p]

LoneInv == TableInv /\ InOneSlot /\ \A p \in Proc : Putting(p) /\ Taking(p)

(* A search goes through the slots in the order of their distance.         *)
LEMMA Distances ==
  ASSUME NEW k \in Key
  PROVE  /\ \A j \in Slot : Dist(k, j) \in Slot
         /\ \A j, l \in Slot : Dist(k, j) = Dist(k, l) => j = l
         /\ Home[k] \in Slot /\ Dist(k, Home[k]) = 0
         /\ prevIdx(Home[k]) \in Slot /\ Dist(k, prevIdx(Home[k])) = N - 1
         /\ \A j \in Slot : j # prevIdx(Home[k]) =>
              nxtIdx(j) \in Slot /\ Dist(k, nxtIdx(j)) = Dist(k, j) + 1
         /\ \A j \in Slot : Probe(k, Dist(k, j)) = j
<1>1. Home[k] \in Slot /\ N \in Nat \ {0, 1}
  BY HomeAssumption, SlotAssumption
<1>2. \A j \in Slot : Dist(k, j) \in Slot
  BY <1>1 DEF Dist, Slot
<1>3. \A j, l \in Slot : Dist(k, j) = Dist(k, l) => j = l
  BY <1>1 DEF Dist, Slot
<1>4. /\ Dist(k, Home[k]) = 0
      /\ prevIdx(Home[k]) \in Slot /\ Dist(k, prevIdx(Home[k])) = N - 1
  BY <1>1 DEF Dist, Slot, prevIdx
<1>5. ASSUME NEW j \in Slot, j # prevIdx(Home[k])
      PROVE  nxtIdx(j) \in Slot /\ Dist(k, nxtIdx(j)) = Dist(k, j) + 1
  <2>1. nxtIdx(j) = IF j = N - 1 THEN 0 ELSE j + 1
    <3>1. CASE j = N - 1
      <4>1. N % N = 0
        BY <1>1
      <4> QED BY <1>1, <3>1, <4>1 DEF nxtIdx, Slot
    <3>2. CASE j # N - 1
      <4>1. j + 1 \in 0 .. N - 1
        BY <1>1, <3>2 DEF Slot
      <4> QED BY <1>1, <3>2, <4>1 DEF nxtIdx
    <3> QED BY <3>1, <3>2
  <2> QED BY <1>1, <1>5, <2>1 DEF Dist, Slot, prevIdx
<1>6. ASSUME NEW j \in Slot PROVE Probe(k, Dist(k, j)) = j
  <2>1. Dist(k, j) \in Slot
    BY <1>2
  <2>2. PICK n \in Slot : n = Dist(k, j)
    BY <2>1
  <2>3. Probe(k, n) = IF Home[k] + n < N THEN Home[k] + n ELSE Home[k] + n - N
    BY ProbeIs
  <2> QED BY <1>1, <2>2, <2>3 DEF Dist, Slot
<1> QED BY <1>1, <1>2, <1>3, <1>4, <1>5, <1>6

(* The value of a key is in a slot that holds the key; without such a slot *)
(* there is none.                                                          *)
LEMMA FoundIs ==
  Types => \A k \in Key :
    /\ Found(k) = None => \A j \in Slot : ~HasKey(j, k)
    /\ Found(k) # None => \E j \in Slot : HasKey(j, k) /\ Found(k) = s_vis[j]
<1> SUFFICES ASSUME Types, NEW k \in Key
             PROVE  /\ Found(k) = None => \A j \in Slot : ~HasKey(j, k)
                    /\ Found(k) # None => \E j \in Slot : HasKey(j, k) /\ Found(k) = s_vis[j]
  OBVIOUS
<1>1. CASE ~\E n \in Slot : Holds(k, n)
  <2>1. Found(k) = None
    BY <1>1 DEF Found
  <2>2. ASSUME NEW j \in Slot, HasKey(j, k) PROVE FALSE
    <3>1. Dist(k, j) \in Slot /\ Probe(k, Dist(k, j)) = j
      BY Distances
    <3>2. Holds(k, Dist(k, j))
      BY <2>2, <3>1 DEF Holds, HasKey
    <3> QED BY <1>1, <3>1, <3>2
  <2> QED BY <2>1, <2>2
<1>2. CASE \E n \in Slot : Holds(k, n)
  <2> DEFINE T == {n \in Slot : Holds(k, n)}
             First(n) == Holds(k, n) /\ \A m \in 0 .. n - 1 : ~Holds(k, m)
  <2>1. PICK n \in T : \A m \in T : ~(m < n)
    <3>1. T \subseteq Slot /\ T # {}
      BY <1>2
    <3> HIDE DEF T
    <3> QED BY <3>1, FirstSlot
  <2>2. \A m \in 0 .. n - 1 : m \in Slot /\ m < n
    BY <2>1, SlotAssumption DEF Slot
  <2>3. First(n) /\ n \in Slot
    BY <2>1, <2>2
  <2>4. PICK c : c = CHOOSE d \in Slot : First(d)
    OBVIOUS
  <2>5. c \in Slot /\ First(c)
    <3> HIDE DEF First
    <3> QED BY <2>3, <2>4, Zenon
  <2>6. Found(k) = s_vis[Probe(k, c)]
    BY <1>2, <2>4 DEF Found
  <2>7. Probe(k, c) \in Slot /\ HasKey(Probe(k, c), k)
    BY <2>5, ProbeHome DEF Holds, HasKey
  <2>8. Found(k) # None
    BY <2>6, <2>7 DEF HasKey, Real, Entry, None
  <2> QED BY <2>6, <2>7, <2>8
<1> QED BY <1>1, <1>2

(* The same after a step.                                                  *)
LEMMA FoundIsNext ==
  ASSUME Types'
  PROVE  \A k \in Key :
           /\ Found(k)' = None => \A j \in Slot : ~HasKey(j, k)'
           /\ Found(k)' # None => \E j \in Slot : HasKey(j, k)' /\ Found(k)' = s_vis'[j]
<1>1. (Types => \A k \in Key :
         /\ Found(k) = None => \A j \in Slot : ~HasKey(j, k)
         /\ Found(k) # None => \E j \in Slot : HasKey(j, k) /\ Found(k) = s_vis[j])'
  BY FoundIs, PTL
<1> QED BY <1>1

(* An entry that has been allocated keeps its key.                         *)
LEMMA KeysStay ==
  ASSUME Types, Stages, NEW p \in Proc, Act(p)
  PROVE  \A e \in Entry : e <= nent => ent'[e].key = ent[e].key
<1>1. ASSUME NEW k \in Key, PutStart(p, k)
      PROVE  \A e \in Entry : e <= nent => ent'[e].key = ent[e].key
  BY <1>1, SlotAssumption DEF PutStart, Types, Entry
<1>2. CASE Free(p)
  BY <1>2 DEF Free, Types
<1>3. CASE PutCas(p) \/ DelCas(p) \/ Drop(p) \/ SearchStep(p)
  BY <1>3 DEF PutCas, DelCas, Drop, SearchStep
<1> QED BY <1>1, <1>2, <1>3, StepKinds

(* What is in a slot has been allocated.                                   *)
LEMMA SlotsAllocated ==
  ASSUME TableInv
  PROVE  \A j \in Slot : Real(s_vis[j]) => s_vis[j] \in Entry /\ s_vis[j] <= nent
BY DEF TableInv, Once, SlotsUsed, Fresh, Real

(* A step that writes no slot leaves every key where it is.                *)
LEMMA SlotsStay ==
  ASSUME TableInv, NEW p \in Proc, Act(p), UNCHANGED s_vis
  PROVE  \A j \in Slot : \A k \in Key : HasKey(j, k)' <=> HasKey(j, k)
<1>1. Types /\ Stages
  BY TypeOKParts DEF TableInv
<1>2. \A e \in Entry : e <= nent => ent'[e].key = ent[e].key
  BY <1>1, KeysStay
<1> QED BY <1>2, SlotsAllocated DEF HasKey

(* What put() carries while it searches.                                   *)
LEMMA StoringStep ==
  ASSUME Types, Stages, NEW p \in Proc, Act(p), pc'[p] \in Storing
  PROVE  \/ \E k \in Key : PutStart(p, k)
         \/ /\ pc[p] \in Storing /\ key'[p] = key[p] /\ mine'[p] = mine[p]
            /\ UNCHANGED <<s_vis, ent>>
            /\ pc'[p] = "put_cas" /\ Real(vi'[p]) => ent[vi'[p]].key = key[p]
<1> USE DEF Storing
<1>1. CASE PutLoad(p)
  BY <1>1 DEF PutLoad, Load, Go, Types
<1>2. CASE PutCompare(p)
  <2>1. CASE /\ "TRUE" \in compare(vi[p], key[p])
             /\ Go(p, "put_cas") /\ UNCHANGED <<key, i, vi, mine, res>>
    <3>1. ent[vi[p]].key = key[p]
      BY <2>1 DEF compare
    <3> QED BY <1>2, <2>1, <3>1 DEF PutCompare, Go, Types
  <2>2. CASE MoveOn(p, "put_load")
    BY <1>2, <2>2 DEF PutCompare, MoveOn, Go, Types
  <2>3. CASE Return(p)
    BY <2>3, ReturnDoes
  <2> QED BY <1>2, <2>1, <2>2, <2>3 DEF PutCompare, Onward, MoveOn
<1>3. CASE PutRetry(p)
  BY <1>3 DEF PutRetry, Go, Types
<1>4. CASE PutCas(p)
  BY <1>4, ReturnDoes DEF PutCas, Go, Types
<1>5. CASE Free(p) \/ GetReturn(p)
  BY <1>5, ReturnDoes DEF Free, GetReturn
<1>6. CASE GetLoad(p) \/ GetCompare(p) \/ GetRead(p)
  BY <1>6 DEF GetLoad, GetCompare, GetRead, Onward, Missed, Go, Types
<1>7. CASE DelLoad(p)
  BY <1>7, ReturnDoes DEF DelLoad, Go, Types
<1>8. CASE DelCompare(p)
  BY <1>8, ReturnDoes DEF DelCompare, Onward, Go, Types
<1>9. CASE DelCas(p) \/ DelRetry(p)
  BY <1>9 DEF DelCas, DelRetry, Go, Types
<1>10. ASSUME NEW k \in Key, GetStart(p, k) \/ DelStart(p, k) PROVE FALSE
  BY <1>10 DEF GetStart, DelStart, Begin, Go, Types
<1> QED BY <1>1, <1>2, <1>3, <1>4, <1>5, <1>6, <1>7, <1>8, <1>9, <1>10 DEF Act

(* What del() is about to take out has its key.                            *)
LEMMA DelTakes ==
  ASSUME Types, Stages, NEW p \in Proc, Act(p), pc'[p] = "del_cas"
  PROVE  ent[vi'[p]].key = key'[p] /\ Real(vi'[p]) /\ UNCHANGED <<s_vis, ent>>
<1>1. CASE DelCompare(p)
  <2>1. CASE /\ "TRUE" \in compare(vi[p], key[p])
             /\ Go(p, "del_cas") /\ UNCHANGED <<key, i, vi, mine, res>>
    <3>1. ent[vi[p]].key = key[p]
      BY <2>1 DEF compare
    <3> QED BY <1>1, <2>1, <3>1 DEF DelCompare, Stages, Matching
  <2>2. CASE MoveOn(p, "del_load")
    BY <2>2 DEF MoveOn, Go, Types
  <2>3. CASE Return(p)
    BY <2>3, ReturnDoes
  <2> QED BY <1>1, <2>1, <2>2, <2>3 DEF DelCompare, Onward, MoveOn
<1>2. CASE PutLoad(p) \/ PutRetry(p) \/ DelRetry(p) \/ DelCas(p) \/ GetRead(p)
  BY <1>2 DEF PutLoad, PutRetry, DelRetry, DelCas, GetRead, Go, Types
<1>3. CASE PutCompare(p)
  BY <1>3, ReturnDoes DEF PutCompare, Onward, Go, Types
<1>4. CASE PutCas(p)
  BY <1>4, ReturnDoes DEF PutCas, Go, Types
<1>5. CASE Free(p) \/ GetReturn(p)
  BY <1>5, ReturnDoes DEF Free, GetReturn
<1>6. CASE GetLoad(p) \/ GetCompare(p)
  BY <1>6 DEF GetLoad, GetCompare, Onward, Missed, Go, Types
<1>7. CASE DelLoad(p)
  BY <1>7, ReturnDoes DEF DelLoad, Go, Types
<1>8. ASSUME NEW k \in Key, PutStart(p, k) \/ GetStart(p, k) \/ DelStart(p, k) PROVE FALSE
  BY <1>8 DEF PutStart, GetStart, DelStart, Begin, Go, Types
<1> QED BY <1>1, <1>2, <1>3, <1>4, <1>5, <1>6, <1>7, <1>8 DEF Act

(* The exchange of put(): the slot held nothing or the key of the call,    *)
(* and then the key is one that is replaced.                               *)
LEMMA PutWrites ==
  ASSUME LoneInv, NEW p \in Proc, PutCas(p)
  PROVE  /\ key[p] \in Key /\ key[p] \in Puts[p] /\ UNCHANGED ent
         /\ mine[p] \in Entry /\ mine[p] \notin pub /\ pub' = pub \union {mine[p]}
         /\ key[p] \in PutAbsent => \A j \in Slot : ~HasKey(j, key[p])
         /\ pc'[p] \in {"free", "idle"}
         /\ \E s \in Slot :
              /\ s_vis'[s] = mine[p]
              /\ \A k \in Key : HasKey(s, k)' <=> k = key[p]
              /\ \A k \in PutAbsent : ~HasKey(s, k)
              /\ \A j \in Slot \ {s} : s_vis'[j] = s_vis[j]
              /\ \A j \in Slot \ {s} : \A k \in Key : HasKey(j, k)' <=> HasKey(j, k)
<1>1. Types /\ Stages /\ Putting(p) /\ Taking(p)
  BY TypeOKParts DEF LoneInv, TableInv
<1>2. /\ pc[p] = "put_cas" /\ s_vis[i[p]] = vi[p]
      /\ s_vis' = [s_vis EXCEPT ![i[p]] = mine[p]]
      /\ UNCHANGED ent /\ pub' = pub \union {mine[p]}
  BY DEF PutCas, CmpexOk
<1>3. /\ i[p] \in Slot /\ key[p] \in Key /\ key[p] \in Puts[p]
      /\ mine[p] \in Entry /\ mine[p] \notin pub /\ ent[mine[p]].key = key[p]
      /\ key[p] \in PutAbsent => \A j \in Slot : ~HasKey(j, key[p])
  BY <1>1, <1>2 DEF Types, Stages, Putting, Storing
<1>4. PICK s \in Slot : s = i[p]
  BY <1>3
<1>5. s_vis'[s] = mine[p] /\ \A j \in Slot \ {s} : s_vis'[j] = s_vis[j]
  BY <1>1, <1>2, <1>4 DEF Types
<1>6. \A k \in Key : HasKey(s, k)' <=> k = key[p]
  BY <1>2, <1>3, <1>5 DEF HasKey, Real
<1>7. \A k \in PutAbsent : ~HasKey(s, k)
  BY <1>1, <1>2, <1>3, <1>4 DEF Taking, HasKey
<1>8. \A j \in Slot \ {s} : \A k \in Key : HasKey(j, k)' <=> HasKey(j, k)
  BY <1>2, <1>5 DEF HasKey
<1>9. pc'[p] \in {"free", "idle"}
  BY <1>1, ReturnDoes DEF PutCas, Go, Types
<1> QED BY <1>2, <1>3, <1>5, <1>6, <1>7, <1>8, <1>9

(* The exchange of del(): the key of the call leaves its slot.             *)
LEMMA DelWrites ==
  ASSUME LoneInv, NEW p \in Proc, DelCas(p)
  PROVE  /\ key[p] \in Key /\ UNCHANGED <<ent, pub>> /\ pc'[p] = "free"
         /\ \E s \in Slot :
              /\ HasKey(s, key[p])
              /\ \A k \in Key : ~HasKey(s, k)'
              /\ \A j \in Slot \ {s} : s_vis'[j] = s_vis[j]
              /\ \A j \in Slot \ {s} : \A k \in Key : HasKey(j, k)' <=> HasKey(j, k)
<1>1. Types /\ Stages /\ Taking(p)
  BY TypeOKParts DEF LoneInv, TableInv
<1>2. /\ pc[p] = "del_cas" /\ s_vis[i[p]] = vi[p] /\ Real(vi[p])
      /\ s_vis' = [s_vis EXCEPT ![i[p]] = DELETED] /\ UNCHANGED <<ent, pub>>
  BY <1>1 DEF DelCas, CmpexOk, Stages, Matching
<1>3. PICK s \in Slot : s = i[p]
  BY <1>1 DEF Types
<1>4. s_vis'[s] = DELETED /\ \A j \in Slot \ {s} : s_vis'[j] = s_vis[j]
  BY <1>1, <1>2, <1>3 DEF Types
<1>5. HasKey(s, key[p])
  BY <1>1, <1>2, <1>3 DEF Taking, HasKey
<1>6. \A k \in Key : ~HasKey(s, k)'
  BY <1>4 DEF HasKey, Real, Entry, DELETED
<1>7. \A j \in Slot \ {s} : \A k \in Key : HasKey(j, k)' <=> HasKey(j, k)
  BY <1>2, <1>4 DEF HasKey
<1>8. pc'[p] = "free" /\ key[p] \in Key
  BY <1>1 DEF DelCas, Go, Types
<1> QED BY <1>2, <1>4, <1>5, <1>6, <1>7, <1>8

(* The other steps write no slot.                                          *)
LEMMA StepWrites ==
  ASSUME TableInv, NEW p \in Proc, Act(p)
  PROVE  \/ PutCas(p) \/ DelCas(p)
         \/ /\ UNCHANGED s_vis
            /\ \A j \in Slot : \A k \in Key : HasKey(j, k)' <=> HasKey(j, k)
<1>1. Types /\ Stages
  BY TypeOKParts DEF TableInv
<1>2. ASSUME NEW k \in Key, PutStart(p, k) PROVE UNCHANGED s_vis
  BY <1>2 DEF PutStart
<1>3. CASE Free(p) \/ Drop(p) \/ SearchStep(p)
  BY <1>3, SlotsStay DEF Free, Drop, SearchStep
<1> QED BY <1>1, <1>2, <1>3, SlotsStay, StepKinds

(* Each such key stays in one slot, and out of every slot while it is put. *)
LEMMA StepLone ==
  ASSUME SoleWriter, LoneInv, TableInv', NEW p \in Proc, Act(p)
  PROVE  LoneInv'
<1>1. Types /\ Stages /\ TableInv
  BY TypeOKParts DEF LoneInv, TableInv
<1>2. Apart(p) /\ Types'
  BY <1>1, StepTypes
<1>3. PutAbsent \subseteq Key
  BY DEF PutAbsent
<1>4. InOneSlot'
  <2> SUFFICES ASSUME NEW k \in PutAbsent, NEW j \in Slot, NEW l \in Slot,
                      HasKey(j, k)', HasKey(l, k)'
               PROVE  j = l
    BY DEF InOneSlot
  <2>1. HasKey(j, k) /\ HasKey(l, k) => j = l
    BY DEF LoneInv, InOneSlot
  <2>2. CASE PutCas(p)
    BY <1>3, <2>1, <2>2, PutWrites
  <2>3. CASE DelCas(p)
    BY <1>3, <2>1, <2>3, DelWrites
  <2> QED BY <1>1, <1>3, <2>1, <2>2, <2>3, StepWrites
<1>5. ASSUME NEW q \in Proc PROVE Putting(q)'
  <2> SUFFICES ASSUME pc'[q] \in Storing
               PROVE  /\ key'[q] \in Puts[q] /\ ent'[mine'[q]].key = key'[q]
                      /\ key'[q] \in PutAbsent =>
                           \A j \in Slot, k \in Key : k = key'[q] => ~HasKey(j, k)'
    <3>1. key'[q] \in Key
      BY <1>2 DEF Types
    <3> QED BY <3>1 DEF Putting
  <2>1. CASE q = p
    <3>1. CASE \E k \in Key : PutStart(p, k)
      <4>1. PICK k \in Key : PutStart(p, k)
        BY <3>1
      <4>2. /\ k \in Puts[p] /\ key'[p] = k /\ mine'[p] = nent + 1 /\ nent + 1 \in Entry
            /\ ent'[nent + 1].key = k
            /\ k \in PutAbsent => Found(k) = None
            /\ UNCHANGED s_vis
        BY <1>1, <4>1, SlotAssumption DEF PutStart, Begin, Types, Entry, PutAbsent
      <4>3. k \in PutAbsent => \A j \in Slot : ~HasKey(j, k)
        BY <1>1, <4>2, FoundIs
      <4> QED BY <1>1, <2>1, <4>2, <4>3, SlotsStay
    <3>2. CASE /\ pc[p] \in Storing /\ key'[p] = key[p] /\ mine'[p] = mine[p]
               /\ UNCHANGED <<s_vis, ent>>
      BY <1>1, <1>2, <2>1, <3>2, SlotsStay DEF LoneInv, Putting, Types
    <3> QED BY <1>1, <2>1, <3>1, <3>2, StoringStep
  <2>2. CASE q # p
    <3>1. pc[q] \in Storing /\ key'[q] = key[q] /\ mine'[q] = mine[q] /\ key[q] \in Key
      BY <1>1, <1>2, <2>2 DEF Apart, Types
    <3>2. /\ key[q] \in Puts[q] /\ ent[mine[q]].key = key[q]
          /\ key[q] \in PutAbsent => \A j \in Slot : ~HasKey(j, key[q])
      BY <3>1 DEF LoneInv, Putting
    <3>3. ent'[mine[q]].key = ent[mine[q]].key
      <4>1. mine[q] \in Entry /\ mine[q] <= nent
        BY <1>1, <3>1 DEF TableInv, Stages, Storing, Types, Once, HandsUsed, Fresh
      <4> QED BY <1>1, <4>1, KeysStay
    <3>4. CASE PutCas(p)
      <4>1. key[q] \in PutAbsent => key[p] # key[q]
        BY <2>2, <3>2, <3>4, PutWrites DEF SoleWriter
      <4> QED BY <3>1, <3>2, <3>3, <3>4, <4>1, PutWrites
    <3>5. CASE DelCas(p)
      BY <3>1, <3>2, <3>3, <3>5, DelWrites
    <3> QED BY <1>1, <3>1, <3>2, <3>3, <3>4, <3>5, StepWrites
  <2> QED BY <2>1, <2>2
<1>6. ASSUME NEW q \in Proc PROVE Taking(q)'
  <2>1. CASE q = p
    <3>1. ASSUME pc'[p] = "put_cas", Real(vi'[p]) PROVE ent'[vi'[p]].key = key'[p]
      <4>1. ~\E k \in Key : PutStart(p, k)
        BY <1>1, <3>1 DEF PutStart, Begin, Go, Types
      <4> QED BY <1>1, <3>1, <4>1, StoringStep DEF Storing
    <3>2. ASSUME pc'[p] = "del_cas" PROVE ent'[vi'[p]].key = key'[p]
      BY <1>1, <3>2, DelTakes
    <3> QED BY <2>1, <3>1, <3>2 DEF Taking
  <2>2. CASE q # p
    <3>1. pc'[q] = pc[q] /\ key'[q] = key[q] /\ vi'[q] = vi[q]
      BY <1>2, <2>2 DEF Apart
    <3>2. Real(vi[q]) => ent'[vi[q]].key = ent[vi[q]].key
      <4>1. Real(vi[q]) => vi[q] \in Entry /\ vi[q] <= nent
        BY <1>1 DEF Stages, Real
      <4> QED BY <1>1, <4>1, KeysStay
    <3>3. pc[q] = "del_cas" => Real(vi[q])
      BY <1>1 DEF Stages, Matching
    <3> QED BY <3>1, <3>2, <3>3 DEF LoneInv, Taking
  <2> QED BY <2>1, <2>2
<1> QED BY <1>4, <1>5, <1>6 DEF LoneInv

(* Each such key is in one slot at most, and in none while it is put.      *)
THEOREM LoneInvariant == ASSUME SoleWriter PROVE Spec => []LoneInv
<1>1. Init /\ TableInv => LoneInv
  <2> SUFFICES ASSUME Init, TableInv PROVE LoneInv
    OBVIOUS
  <2>1. \A j \in Slot : \A k \in Key : ~HasKey(j, k)
    BY DEF Init, HasKey, Real, Entry, EMPTY
  <2>2. InOneSlot
    BY <2>1 DEF InOneSlot, PutAbsent
  <2>3. \A p \in Proc : Putting(p) /\ Taking(p)
    BY DEF Init, Putting, Taking, Storing
  <2> QED BY <2>2, <2>3 DEF LoneInv
<1>2. LoneInv /\ TableInv' /\ [Next]_vars => LoneInv'
  <2>1. ASSUME LoneInv, TableInv', UNCHANGED vars PROVE LoneInv'
    <3>1. \A j \in Slot : \A k \in Key : HasKey(j, k)' <=> HasKey(j, k)
      BY <2>1 DEF vars, HasKey
    <3>2. InOneSlot'
      BY <2>1, <3>1 DEF LoneInv, InOneSlot, PutAbsent
    <3>3. \A p \in Proc : Putting(p)' /\ Taking(p)'
      BY <2>1 DEF vars, LoneInv, Putting, Taking, HasKey
    <3> QED BY <2>1, <3>2, <3>3 DEF LoneInv
  <2> QED BY <2>1, StepLone DEF Next
<1> QED BY <1>1, <1>2, TableInvariant, PTL DEF Spec

(* Where the search of a get() has not looked yet.                         *)
Ahead(p, d) ==
  \A j \in Slot : HasKey(j, key[p]) => Dist(key[p], j) >= Dist(key[p], i[p]) + d

(* A get() of such a key has seen it absent, or the key is still ahead of  *)
(* the search, or the search has met it.                                   *)
Finding(p) ==
  /\ pc[p] # "ret" => res[p] = None
  /\ key[p] \in PutAbsent =>
       /\ pc[p] # "idle" => kv[key[p]] \in seen[p]
       /\ pc[p] = "get_load" => None \in seen[p] \/ Ahead(p, 0)
       /\ pc[p] = "get_cmp" /\ ent[vi[p]].key # key[p] => None \in seen[p] \/ Ahead(p, 1)
       /\ pc[p] \in {"get_cmp", "get_read"} /\ ent[vi[p]].key = key[p] =>
            vi[p] \in seen[p] /\ (None \in seen[p] \/ s_vis[i[p]] = vi[p])
       /\ pc[p] = "get_read" => ent[vi[p]].key = key[p]
       /\ pc[p] = "ret" => res[p] \in seen[p] \/ (res[p] = EMPTY /\ None \in seen[p])

(* A key that is present before and after a step is where it was.          *)
LEMMA Remains ==
  ASSUME LoneInv, LoneInv', NEW p \in Proc, Act(p), NEW k \in PutAbsent,
         Found(k) # None, Found(k)' # None
  PROVE  /\ \A j \in Slot : HasKey(j, k)' <=> HasKey(j, k)
         /\ \A j \in Slot : HasKey(j, k) => s_vis'[j] = s_vis[j]
<1>1. Types /\ Types' /\ TableInv /\ k \in Key
  BY TypeOKParts DEF LoneInv, TableInv, PutAbsent, TypeOK, Types
<1>2. PICK s \in Slot : HasKey(s, k)
  BY <1>1, FoundIs
<1>3. PICK t \in Slot : HasKey(t, k)'
  BY <1>1, FoundIsNext
<1>4. /\ \A j, l \in Slot : HasKey(j, k) /\ HasKey(l, k) => j = l
      /\ \A j, l \in Slot : HasKey(j, k)' /\ HasKey(l, k)' => j = l
  BY DEF LoneInv, InOneSlot
<1>5. HasKey(s, k)' /\ s_vis'[s] = s_vis[s]
  <2>1. CASE PutCas(p)
    BY <1>1, <1>2, <2>1, PutWrites
  <2>2. CASE DelCas(p)
    BY <1>1, <1>2, <1>3, <1>4, <2>2, DelWrites
  <2> QED BY <1>1, <1>2, <2>1, <2>2, StepWrites
<1> QED BY <1>2, <1>4, <1>5

(* A call in progress remembers what it has seen, and sees what the key    *)
(* has now.                                                                *)
LEMMA Sees ==
  ASSUME Watch, NEW q \in Proc, pc'[q] # "idle", NEW k \in Key, key'[q] = k
  PROVE  seen[q] \subseteq seen'[q] /\ Found(k)' \in seen'[q]
<1>1. seen'[q] = seen[q] \union {kv'[key'[q]]}
  BY DEF Watch
<1>2. kv'[k] = Found(k)'
  BY DEF kv
<1> QED BY <1>1, <1>2

(* A step of another thread.                                               *)
LEMMA OtherFinding ==
  ASSUME LoneInv, LoneInv', NEW p \in Proc, Act(p), Watch,
         NEW q \in Proc, q # p, Finding(q)
  PROVE  Finding(q)'
<1>1. Types /\ Stages /\ TableInv
  BY TypeOKParts DEF LoneInv, TableInv
<1>2. /\ pc'[q] = pc[q] /\ key'[q] = key[q] /\ i'[q] = i[q]
      /\ vi'[q] = vi[q] /\ res'[q] = res[q]
  BY <1>1, StepTypes DEF Apart
<1>3. CASE pc[q] = "idle" \/ key[q] \notin PutAbsent
  BY <1>2, <1>3 DEF Finding
<1>4. CASE pc[q] # "idle" /\ key[q] \in PutAbsent
  <2>1. PICK k \in PutAbsent : k = key[q]
    BY <1>4
  <2>2. k \in Key
    BY DEF PutAbsent
  <2>3. seen[q] \subseteq seen'[q] /\ Found(k)' \in seen'[q] /\ Found(k) \in seen[q]
    BY <1>2, <1>4, <2>1, <2>2, Sees DEF Finding, kv
  <2>4. ASSUME None \notin seen'[q]
        PROVE  /\ None \notin seen[q]
               /\ \A j \in Slot : HasKey(j, k)' <=> HasKey(j, k)
               /\ \A j \in Slot : HasKey(j, k) => s_vis'[j] = s_vis[j]
    BY <2>3, <2>4, Remains
  <2>5. pc[q] \in {"get_cmp", "get_read"} => Real(vi[q]) /\ ent'[vi[q]].key = ent[vi[q]].key
    <3>1. pc[q] \in {"get_cmp", "get_read"} => vi[q] \in Entry /\ vi[q] <= nent
      BY <1>1 DEF Stages, Matching, Real
    <3> QED BY <1>1, <3>1, KeysStay DEF Real
  <2>6. ASSUME NEW d \in {0, 1}, None \in seen[q] \/ Ahead(q, d)
        PROVE  None \in seen'[q] \/ Ahead(q, d)'
    <3>1. CASE None \in seen'[q]
      BY <3>1
    <3>2. CASE None \notin seen'[q]
      <4>1. \A j \in Slot : HasKey(j, k)' => Dist(k, j) >= Dist(k, i[q]) + d
        BY <2>1, <2>4, <2>6, <3>2 DEF Ahead
      <4> QED BY <1>2, <2>1, <4>1 DEF Ahead, Dist, HasKey
    <3> QED BY <3>1, <3>2
  <2>7. pc[q] \in {"get_cmp", "get_read"} /\ ent[vi[q]].key = k =>
          vi[q] \in seen'[q] /\ (None \in seen'[q] \/ s_vis'[i[q]] = vi[q])
    <3> SUFFICES ASSUME pc[q] \in {"get_cmp", "get_read"}, ent[vi[q]].key = k
                 PROVE  vi[q] \in seen'[q] /\ (None \in seen'[q] \/ s_vis'[i[q]] = vi[q])
      OBVIOUS
    <3>1. vi[q] \in seen[q] /\ (None \in seen[q] \/ s_vis[i[q]] = vi[q])
      BY <1>4, <2>1 DEF Finding
    <3>2. s_vis[i[q]] = vi[q] => HasKey(i[q], k) /\ i[q] \in Slot
      BY <1>1, <2>5 DEF HasKey, Types
    <3> QED BY <2>3, <2>4, <3>1, <3>2
  <2>8. /\ pc[q] # "ret" => res[q] = None
        /\ pc[q] = "get_load" => None \in seen'[q] \/ Ahead(q, 0)'
        /\ pc[q] = "get_cmp" /\ ent[vi[q]].key # k => None \in seen'[q] \/ Ahead(q, 1)'
        /\ pc[q] = "get_read" => ent[vi[q]].key = k
        /\ pc[q] = "ret" => res[q] \in seen'[q] \/ (res[q] = EMPTY /\ None \in seen'[q])
    BY <1>4, <2>1, <2>3, <2>6 DEF Finding
  <2>9. kv'[key'[q]] \in seen'[q]
    BY <1>2, <2>1, <2>2, <2>3 DEF kv
  <2> QED BY <1>2, <2>1, <2>5, <2>7, <2>8, <2>9 DEF Finding
<1> QED BY <1>3, <1>4

(* A get() looks at the next slot, or has looked at all of them.           *)
LEMMA LooksOn ==
  ASSUME Types, NEW p \in Proc, Ahead(p, 1)
  PROVE  /\ i[p] # en(p) =>
              \A j \in Slot : HasKey(j, key[p]) =>
                Dist(key[p], j) >= Dist(key[p], nxtIdx(i[p]))
         /\ i[p] = en(p) => Found(key[p]) = None
<1>1. PICK k \in Key : k = key[p]
  BY DEF Types
<1>2. i[p] \in Slot /\ N \in Nat /\ \A j \in Slot : Dist(k, j) \in Slot
  BY Distances, SlotAssumption DEF Types
<1>3. \A j \in Slot : HasKey(j, k) => Dist(k, j) >= Dist(k, i[p]) + 1
  BY <1>1 DEF Ahead
<1>4. CASE i[p] # en(p)
  <2>1. Dist(k, nxtIdx(i[p])) = Dist(k, i[p]) + 1
    BY <1>1, <1>2, <1>4, Distances DEF en
  <2> QED BY <1>1, <1>3, <1>4, <2>1
<1>5. CASE i[p] = en(p)
  <2>1. Dist(k, i[p]) = N - 1
    BY <1>1, <1>5, Distances DEF en
  <2>2. \A j \in Slot : ~HasKey(j, k)
    BY <1>2, <1>3, <2>1 DEF Slot
  <2>3. Found(k) = None
    BY <2>2, FoundIs
  <2> QED BY <1>1, <1>5, <2>3
<1> QED BY <1>4, <1>5

(* A slot that does not hold the key is behind the key.                    *)
LEMMA NotHere ==
  ASSUME Types, NEW p \in Proc, Ahead(p, 0), ~HasKey(i[p], key[p])
  PROVE  Ahead(p, 1)
<1>1. PICK k \in Key : k = key[p]
  BY DEF Types
<1>2. i[p] \in Slot /\ N \in Nat /\ \A j \in Slot : Dist(k, j) \in Slot
  BY Distances, SlotAssumption DEF Types
<1>3. ASSUME NEW j \in Slot, HasKey(j, k) PROVE Dist(k, j) >= Dist(k, i[p]) + 1
  <2>1. Dist(k, j) >= Dist(k, i[p]) + 0 /\ j # i[p]
    BY <1>1, <1>3 DEF Ahead
  <2>2. Dist(k, j) # Dist(k, i[p])
    BY <1>2, <2>1, Distances
  <2> QED BY <1>2, <2>1, <2>2 DEF Slot
<1> QED BY <1>1, <1>3 DEF Ahead

(* A step of a call that is not a get(), or that ends one.                 *)
LEMMA NoGet ==
  ASSUME Types, Stages, NEW p \in Proc, Act(p), Finding(p),
         ~GetLoad(p), ~GetCompare(p), ~GetRead(p), ~\E k \in Key : GetStart(p, k)
  PROVE  pc'[p] \notin {"get_load", "get_cmp", "get_read", "ret"} /\ res'[p] = None
<1>1. CASE Return(p)
  BY <1>1, ReturnDoes
<1>2. ASSUME ~Return(p)
      PROVE  /\ pc'[p] \notin {"get_load", "get_cmp", "get_read", "ret"}
             /\ UNCHANGED res /\ pc[p] # "ret"
  <2>1. CASE PutLoad(p) \/ PutRetry(p) \/ DelRetry(p) \/ DelCas(p)
    BY <2>1 DEF PutLoad, PutRetry, DelRetry, DelCas, Go, Types
  <2>2. CASE PutCompare(p) \/ DelCompare(p)
    BY <1>2, <2>2 DEF PutCompare, DelCompare, Onward, Go, Types
  <2>3. CASE PutCas(p)
    BY <1>2, <2>3 DEF PutCas, Go, Types
  <2>4. CASE Free(p) \/ GetReturn(p)
    BY <1>2, <2>4 DEF Free, GetReturn
  <2>5. CASE DelLoad(p)
    BY <1>2, <2>5 DEF DelLoad, Go, Types
  <2>6. ASSUME NEW k \in Key, PutStart(p, k) \/ DelStart(p, k)
        PROVE  /\ pc'[p] \notin {"get_load", "get_cmp", "get_read", "ret"}
               /\ UNCHANGED res /\ pc[p] # "ret"
    BY <2>6 DEF PutStart, DelStart, Begin, Go, Types
  <2> QED BY <2>1, <2>2, <2>3, <2>4, <2>5, <2>6 DEF Act
<1> QED BY <1>1, <1>2 DEF Finding

(* A get() that has met an entry, has not, or is at its end.               *)
Looks(p) ==
  \/ pc'[p] = "get_load" /\ i[p] # en(p) /\ i'[p] = nxtIdx(i[p]) /\ UNCHANGED <<vi, res>>
  \/ pc'[p] = "ret" /\ i[p] = en(p) /\ UNCHANGED <<i, vi, res>>

(* A get() that goes on, or ends, where its key is not.                    *)
LEMMA OnFinding ==
  ASSUME Types, NEW p \in Proc, Looks(p), UNCHANGED <<s_vis, ent, key>>, Watch,
         Finding(p), pc[p] \in {"get_load", "get_cmp"},
         key[p] \in PutAbsent => None \in seen[p] \/ Ahead(p, 1)
  PROVE  Finding(p)'
<1>1. res[p] = None /\ (pc'[p] # "ret" => res'[p] = None)
  BY DEF Finding, Looks
<1>2. CASE key[p] \notin PutAbsent
  BY <1>1, <1>2 DEF Finding
<1>3. CASE key[p] \in PutAbsent
  <2>1. PICK k \in PutAbsent : k = key[p]
    BY <1>3
  <2>2. k \in Key
    BY DEF PutAbsent
  <2>3. seen[p] \subseteq seen'[p] /\ kv'[key'[p]] \in seen'[p] /\ kv[k] \in seen[p]
    BY <1>3, <2>1, <2>2, Sees DEF Looks, kv, Finding
  <2>4. CASE pc'[p] = "get_load"
    <3>1. None \in seen[p] \/ \A j \in Slot : HasKey(j, k) => Dist(k, j) >= Dist(k, i'[p]) + 0
      <4>1. CASE None \in seen[p]
        BY <4>1
      <4>2. CASE Ahead(p, 1)
        <5>1. \A j \in Slot : HasKey(j, k) => Dist(k, j) >= Dist(k, i'[p])
          BY <2>1, <2>4, <4>2, LooksOn DEF Looks
        <5>2. i'[p] \in Slot
          BY <2>4, NextSlot DEF Looks, Types
        <5>3. Dist(k, i'[p]) \in Nat
          BY <2>2, <5>2, Distances, SlotAssumption DEF Slot
        <5> QED BY <5>1, <5>3
      <4> QED BY <1>3, <4>1, <4>2
    <3>2. None \in seen'[p] \/ Ahead(p, 0)'
      BY <2>1, <2>3, <3>1 DEF Ahead, HasKey, Dist
    <3> QED BY <1>1, <2>3, <2>4, <3>2 DEF Finding
  <2>5. CASE pc'[p] = "ret"
    <3>1. None \in seen[p]
      <4>1. CASE Ahead(p, 1)
        <5>1. Found(k) = None
          BY <2>1, <2>5, <4>1, LooksOn DEF Looks
        <5> QED BY <2>2, <2>3, <5>1 DEF kv
      <4> QED BY <1>3, <4>1
    <3>2. res'[p] \in seen'[p]
      BY <1>1, <2>3, <2>5, <3>1 DEF Looks
    <3> QED BY <2>3, <2>5, <3>2 DEF Finding
  <2> QED BY <2>4, <2>5 DEF Looks
<1> QED BY <1>2, <1>3

(* A step of the thread itself.                                            *)
LEMMA OwnFinding ==
  ASSUME LoneInv, LoneInv', NEW p \in Proc, Act(p), Watch, Finding(p)
  PROVE  Finding(p)'
<1>1. Types /\ Stages /\ TableInv
  BY TypeOKParts DEF LoneInv, TableInv
<1>2. Types'
  BY <1>1, StepTypes
<1>3. pc'[p] # "idle" => seen[p] \subseteq seen'[p] /\ kv'[key'[p]] \in seen'[p]
  BY DEF Watch
<1>4. ASSUME NEW k \in Key, GetStart(p, k) PROVE Finding(p)'
  <2>1. pc'[p] = "get_load" /\ i'[p] = Home[k] /\ key'[p] = k /\ res'[p] = None
    BY <1>1, <1>4 DEF GetStart, Begin, Look, Go, Types, Finding
  <2>2. \A j \in Slot : Dist(k, j) >= Dist(k, Home[k]) + 0
    BY Distances, SlotAssumption DEF Slot
  <2>3. Ahead(p, 0)'
    BY <2>1, <2>2 DEF Ahead, Dist
  <2> QED BY <1>3, <2>1, <2>3 DEF Finding
<1>5. CASE GetLoad(p)
  <2>1. pc[p] = "get_load" /\ UNCHANGED <<s_vis, ent, key>>
    BY <1>5 DEF GetLoad, Onward, Missed
  <2>2. CASE Real(s_vis[i[p]]) /\ Load(p) /\ Go(p, "get_cmp") /\ UNCHANGED <<key, i, mine, res>>
    <3>1. pc'[p] = "get_cmp" /\ vi'[p] = s_vis[i[p]] /\ res'[p] = None /\ i[p] \in Slot
      BY <1>1, <2>1, <2>2 DEF Load, Go, Types, Finding
    <3>2. CASE key[p] \notin PutAbsent
      BY <2>1, <3>1, <3>2 DEF Finding
    <3>3. CASE key[p] \in PutAbsent
      <4>1. PICK k \in PutAbsent : k = key[p]
        BY <3>3
      <4>1a. k \in Key
        BY DEF PutAbsent
      <4>2. CASE ent[s_vis[i[p]]].key = k
        <5>1. HasKey(i[p], k)
          BY <2>2, <4>2 DEF HasKey
        <5>2. PICK j \in Slot : HasKey(j, k) /\ Found(k) = s_vis[j]
          BY <1>1, <3>1, <4>1a, <5>1, FoundIs
        <5>3. Found(k) = s_vis[i[p]]
          BY <3>1, <5>1, <5>2 DEF LoneInv, InOneSlot
        <5>4. s_vis[i[p]] \in seen[p]
          BY <2>1, <3>3, <4>1, <4>1a, <5>3 DEF Finding, kv
        <5> QED BY <1>3, <2>1, <2>2, <3>1, <4>1, <4>2, <5>4 DEF Finding
      <4>3. CASE ent[s_vis[i[p]]].key # k
        <5>1. None \in seen[p] \/ Ahead(p, 1)
          BY <1>1, <2>1, <3>3, <4>1, <4>3, NotHere DEF Finding, HasKey
        <5>2. None \in seen'[p] \/ Ahead(p, 1)'
          BY <1>3, <2>1, <2>2, <3>1, <5>1 DEF Ahead, HasKey, Dist
        <5> QED BY <1>3, <2>1, <3>1, <4>1, <4>3, <5>2 DEF Finding
      <4> QED BY <4>2, <4>3
    <3> QED BY <3>2, <3>3
  <2>3. CASE ~Real(s_vis[i[p]]) /\ Onward(p, "get_load", Missed(p))
    <3>1. Looks(p)
      BY <1>1, <2>3 DEF Onward, Missed, Looks, Look, Go, Types
    <3>2. key[p] \in PutAbsent => None \in seen[p] \/ Ahead(p, 1)
      BY <1>1, <2>1, <2>3, NotHere DEF Finding, HasKey
    <3> QED BY <1>1, <2>1, <3>1, <3>2, OnFinding
  <2> QED BY <1>5, <2>2, <2>3 DEF GetLoad
<1>6. CASE GetCompare(p)
  <2>1. pc[p] = "get_cmp" /\ UNCHANGED <<s_vis, ent, key>> /\ Real(vi[p])
    BY <1>1, <1>6 DEF GetCompare, Onward, Missed, Stages, Matching
  <2>2. CASE /\ "TRUE" \in compare(vi[p], key[p])
             /\ Go(p, "get_read") /\ UNCHANGED <<key, i, vi, mine, res>>
    <3>1. ent[vi[p]].key = key[p] /\ pc'[p] = "get_read" /\ res'[p] = None
      BY <1>1, <2>1, <2>2 DEF compare, Go, Types, Finding
    <3> QED BY <1>3, <2>1, <2>2, <3>1 DEF Finding
  <2>3. ASSUME NEW m \in compare(vi[p], key[p]), m # "TRUE", Onward(p, "get_load", Missed(p))
        PROVE  Finding(p)'
    <3>1. Looks(p)
      BY <1>1, <2>3 DEF Onward, Missed, Looks, Look, Go, Types
    <3>2. ASSUME key[p] \in PutAbsent PROVE None \in seen[p] \/ Ahead(p, 1)
      <4>1. CASE ent[vi[p]].key # key[p]
        BY <2>1, <3>2, <4>1 DEF Finding
      <4>2. CASE ent[vi[p]].key = key[p]
        <5>1. ~ent[vi[p]].used
          BY <2>3, <4>2 DEF compare
        <5>2. s_vis[i[p]] # vi[p]
          BY <1>1, <2>1, <5>1 DEF TableInv, Once, SlotsUsed, Types
        <5> QED BY <2>1, <3>2, <4>2, <5>2 DEF Finding
      <4> QED BY <4>1, <4>2
    <3> QED BY <1>1, <2>1, <3>1, <3>2, OnFinding
  <2> QED BY <1>6, <2>2, <2>3 DEF GetCompare
<1>7. CASE GetRead(p)
  <2>1. /\ pc[p] = "get_read" /\ pc'[p] = "ret" /\ UNCHANGED <<s_vis, ent, key, i, vi>>
        /\ res'[p] = (IF ent[vi[p]].used THEN vi[p] ELSE EMPTY) /\ Real(vi[p])
    BY <1>1, <1>7 DEF GetRead, Go, Types, Stages, Matching
  <2>2. ASSUME key[p] \in PutAbsent
        PROVE  res'[p] \in seen'[p] \/ (res'[p] = EMPTY /\ None \in seen'[p])
    <3>1. vi[p] \in seen[p] /\ (None \in seen[p] \/ s_vis[i[p]] = vi[p])
      BY <2>1, <2>2 DEF Finding
    <3>2. s_vis[i[p]] = vi[p] => ent[vi[p]].used
      BY <1>1, <2>1 DEF TableInv, Once, SlotsUsed, Types
    <3> QED BY <1>3, <2>1, <3>1, <3>2
  <2> QED BY <1>3, <2>1, <2>2 DEF Finding
<1>8. CASE ~GetLoad(p) /\ ~GetCompare(p) /\ ~GetRead(p) /\ ~\E k \in Key : GetStart(p, k)
  <2>1. pc'[p] \notin {"get_load", "get_cmp", "get_read", "ret"} /\ res'[p] = None
    BY <1>1, <1>8, NoGet
  <2> QED BY <1>3, <2>1 DEF Finding
<1> QED BY <1>4, <1>5, <1>6, <1>7, <1>8

(* A get() of a key that is put only while absent returns a value the key  *)
(* had during the call, and misses only a key that was absent during it,   *)
(* wherever keys hash to, whoever deletes them, and whatever is done with  *)
(* the keys that are replaced.                                             *)
THEOREM GetsCurrent == ASSUME SoleWriter PROVE Spec => []GetIsCurrent
<1> DEFINE FindInv == \A p \in Proc : Finding(p)
<1>1. Init => FindInv
  BY DEF Init, Finding
<1>2. LoneInv /\ LoneInv' /\ FindInv /\ [Next]_vars => FindInv'
  <2>1. ASSUME FindInv, UNCHANGED vars PROVE FindInv'
    <3>1. UNCHANGED kv
      BY <2>1 DEF vars, kv, Found, Holds, Probe
    <3>2. \A p \in Proc : /\ (Ahead(p, 0)' <=> Ahead(p, 0))
                          /\ (Ahead(p, 1)' <=> Ahead(p, 1))
      BY <2>1 DEF vars, Ahead, HasKey, Dist
    <3> SUFFICES ASSUME NEW p \in Proc PROVE Finding(p)'
      OBVIOUS
    <3>3. Finding(p)
      BY <2>1
    <3> HIDE DEF kv, Ahead
    <3> QED BY <2>1, <3>1, <3>2, <3>3 DEF vars, Finding
  <2> QED BY <2>1, OwnFinding, OtherFinding DEF Next
<1>3. LoneInv /\ FindInv => GetIsCurrent
  <2> SUFFICES ASSUME LoneInv, FindInv, NEW p \in Proc, pc[p] = "ret", key[p] \notin Replace
               PROVE  res[p] \in seen[p] \/ (res[p] = EMPTY /\ None \in seen[p])
    BY DEF GetIsCurrent
  <2>1. key[p] \in PutAbsent
    BY TypeOKParts DEF LoneInv, TableInv, Types, PutAbsent
  <2> QED BY <2>1 DEF Finding
<1> QED BY <1>1, <1>2, <1>3, LoneInvariant, PTL DEF Spec

(* A key that is in the same slot before and after a step, or in none, has *)
(* the same value.                                                         *)
LEMMA SameFound ==
  ASSUME LoneInv, LoneInv', NEW k \in PutAbsent,
         \A j \in Slot : HasKey(j, k)' <=> HasKey(j, k),
         \A j \in Slot : HasKey(j, k) => s_vis'[j] = s_vis[j]
  PROVE  Found(k)' = Found(k)
<1>1. Types /\ Types' /\ k \in Key
  BY TypeOKParts DEF LoneInv, TableInv, PutAbsent, TypeOK, Types
<1>2. \A j, l \in Slot : HasKey(j, k) /\ HasKey(l, k) => j = l
  BY DEF LoneInv, InOneSlot
<1>3. PICK f : f = Found(k)'
  OBVIOUS
<1>4. /\ f = None => \A j \in Slot : ~HasKey(j, k)'
      /\ f # None => \E j \in Slot : HasKey(j, k)' /\ f = s_vis'[j]
  BY <1>1, <1>3, FoundIsNext
<1>5. /\ Found(k) = None => \A j \in Slot : ~HasKey(j, k)
      /\ Found(k) # None => \E j \in Slot : HasKey(j, k) /\ Found(k) = s_vis[j]
  BY <1>1, FoundIs
<1> QED BY <1>2, <1>3, <1>4, <1>5

(* When every key is put only while absent, by one thread, the table is a  *)
(* map whatever the keys hash to and whoever deletes them.                 *)
THEOREM CollidingIsMap == ASSUME SoleWriter, Replace = {} PROVE Spec => MapSpec
<1>k. PutAbsent = Key
  BY DEF PutAbsent
<1>1. Init /\ LoneInv => Map!Init
  <2> SUFFICES ASSUME Init, LoneInv PROVE Map!Init
    OBVIOUS
  <2>1. Types
    BY TypeOKParts DEF LoneInv, TableInv
  <2>2. \A j \in Slot : \A k \in Key : ~HasKey(j, k)
    BY DEF Init, HasKey, Real, Entry, EMPTY
  <2>3. \A k \in Key : Found(k) = None
    BY <2>1, <2>2, FoundIs
  <2>4. kv = [k \in Key |-> None]
    BY <2>3 DEF kv
  <2> QED BY <2>4 DEF Init, Map!Init
<1>2. LoneInv /\ LoneInv' /\ [Next]_vars => [Map!Next]_<<kv, pub>>
  <2> SUFFICES ASSUME LoneInv, LoneInv', [Next]_vars PROVE [Map!Next]_<<kv, pub>>
    OBVIOUS
  <2>1. Types /\ Types' /\ Stages /\ TableInv
    BY TypeOKParts DEF LoneInv, TableInv, TypeOK, Types
  <2>2. kv = [k \in Key |-> Found(k)] /\ kv' = [k \in Key |-> Found(k)']
    BY DEF kv
  <2>3. CASE UNCHANGED vars
    <3>1. UNCHANGED kv
      BY <2>3 DEF vars, kv, Found, Holds, Probe
    <3> QED BY <2>3, <3>1 DEF vars
  <2>4. ASSUME NEW p \in Proc, PutCas(p) PROVE Map!Next
    <3>1. PICK s \in Slot :
            /\ s_vis'[s] = mine[p]
            /\ \A k \in Key : HasKey(s, k)' <=> k = key[p]
            /\ \A k \in PutAbsent : ~HasKey(s, k)
            /\ \A j \in Slot \ {s} : s_vis'[j] = s_vis[j]
            /\ \A j \in Slot \ {s} : \A k \in Key : HasKey(j, k)' <=> HasKey(j, k)
      BY <2>4, PutWrites
    <3>2. /\ key[p] \in Key /\ mine[p] \in Entry
          /\ mine[p] \notin pub /\ pub' = pub \union {mine[p]}
      BY <2>4, PutWrites
    <3>3. \A k \in Key \ {key[p]} : Found(k)' = Found(k)
      BY <1>k, <3>1, SameFound
    <3>4. ASSUME NEW k \in Key, k = key[p] PROVE Found(k)' = mine[p]
      <4>1. HasKey(s, k)'
        BY <3>1, <3>4
      <4>2. \A j, l \in Slot : HasKey(j, k)' /\ HasKey(l, k)' => j = l
        BY <1>k DEF LoneInv, InOneSlot
      <4> QED BY <2>1, <3>1, <4>1, <4>2, FoundIsNext
    <3>5. kv' = [kv EXCEPT ![key[p]] = mine[p]]
      BY <2>2, <3>2, <3>3, <3>4
    <3>6. Map!Put(key[p], mine[p])
      BY <3>2, <3>5 DEF Map!Put
    <3> QED BY <3>2, <3>6 DEF Map!Next
  <2>5. ASSUME NEW p \in Proc, DelCas(p) PROVE Map!Next
    <3>1. PICK s \in Slot :
            /\ HasKey(s, key[p])
            /\ \A k \in Key : ~HasKey(s, k)'
            /\ \A j \in Slot \ {s} : s_vis'[j] = s_vis[j]
            /\ \A j \in Slot \ {s} : \A k \in Key : HasKey(j, k)' <=> HasKey(j, k)
      BY <2>5, DelWrites
    <3>2. key[p] \in Key /\ UNCHANGED pub
      BY <2>5, DelWrites
    <3>3. \A k \in Key \ {key[p]} : Found(k)' = Found(k)
      <4> SUFFICES ASSUME NEW k \in Key, k # key[p] PROVE Found(k)' = Found(k)
        OBVIOUS
      <4>1. ~HasKey(s, k)
        BY <3>1 DEF HasKey
      <4> QED BY <1>k, <3>1, <4>1, SameFound
    <3>4. Found(key[p]) # None
      BY <2>1, <3>1, <3>2, FoundIs
    <3>5. ASSUME NEW k \in Key, k = key[p] PROVE Found(k)' = None
      <4>1. \A j \in Slot : HasKey(j, k) => j = s
        BY <1>k, <3>1, <3>5 DEF LoneInv, InOneSlot
      <4>2. \A j \in Slot : ~HasKey(j, k)'
        BY <3>1, <4>1
      <4> QED BY <2>1, <4>2, FoundIsNext
    <3>6. kv' = [kv EXCEPT ![key[p]] = None] /\ kv[key[p]] # None
      BY <2>2, <3>2, <3>3, <3>4, <3>5
    <3>7. Map!Del(key[p])
      BY <3>2, <3>6 DEF Map!Del
    <3> QED BY <3>2, <3>7 DEF Map!Next
  <2>6. ASSUME NEW p \in Proc, Act(p) PROVE [Map!Next]_<<kv, pub>>
    <3>1. CASE ~PutCas(p) /\ ~DelCas(p)
      <4>1. UNCHANGED s_vis /\ \A j \in Slot : \A k \in Key : HasKey(j, k)' <=> HasKey(j, k)
        BY <2>1, <2>6, <3>1, StepWrites
      <4>2. \A k \in Key : Found(k)' = Found(k)
        BY <1>k, <4>1, SameFound
      <4>3. UNCHANGED pub
        <5>1. ASSUME NEW k \in Key, PutStart(p, k) PROVE UNCHANGED pub
          BY <5>1 DEF PutStart
        <5>2. CASE Free(p) \/ Drop(p) \/ SearchStep(p)
          BY <5>2 DEF Free, Drop, SearchStep
        <5> QED BY <2>1, <2>6, <3>1, <5>1, <5>2, StepKinds
      <4> QED BY <2>2, <4>2, <4>3
    <3> QED BY <2>4, <2>5, <3>1
  <2> QED BY <2>3, <2>6 DEF Next
<1> QED BY <1>1, <1>2, LoneInvariant, PTL DEF Spec, MapSpec, Map!Spec
=============================================================================
