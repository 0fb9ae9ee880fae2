------------------------------- MODULE KeyScan -------------------------------
(***************************************************************************)
(* Walking the slots of the hash table: simdb::nxt(), nxtKey() and         *)
(* getKeyStrs(), which the transactors of the co-simulation call in their  *)
(* constructors to find the keys an earlier run left, and then delete.     *)
(*                                                                         *)
(* The RTL simulator is started later, so the table is at rest.            *)
(***************************************************************************)
EXTENDS Integers, FiniteSets

CONSTANT N     \* m_blkCnt and m_sz, 1024 in the code

ASSUME SlotAssumption == N \in Nat \ {0, 1}

VARIABLES
  slots,       \* the key in each slot
  nxtChIdx,    \* m_nxtChIdx: where the next search starts
  srchCnt,     \* slots that count as searched
  listed       \* the keys found so far

scanVars == <<slots, nxtChIdx, srchCnt, listed>>

Slot == 0 .. N - 1
SLOT_END == N
EMPTY == "empty"
DELETED == "deleted"

Taken(j) == slots[j] \notin {EMPTY, DELETED}
Present == {slots[j] : j \in {j \in Slot : Taken(j)}}

(* What earlier runs may leave: each key in at most one slot, and slots    *)
(* that once held one.                                                     *)
Tables(Key) ==
  {t \in [Slot -> Key \union {EMPTY, DELETED}] :
     \A j, l \in Slot : j # l /\ t[j] \in Key => t[l] # t[j]}

NoTable == [j \in Slot |-> EMPTY]

ScanInit(tables) == slots \in tables /\ nxtChIdx = 0 /\ srchCnt = 0 /\ listed = {}

(* CncrHsh::nxt(): the first slot from st on that holds an entry.          *)
chNxt(st) ==
  IF \E j \in Slot : Taken(j)
  THEN CHOOSE j \in Slot :
         Taken(j) /\ \A l \in Slot : Taken(l) => (j - st) % N <= (l - st) % N
  ELSE SLOT_END

(* Mutant: the rest of the table counts as searched.                       *)
searchedRest(prev, inxt) == N - prev

(* What nxtKey() reports as searched: one less than the slots passed, and  *)
(* more than all of them if the first slot it looked at held an entry.     *)
searched(prev, inxt) ==
  IF inxt - prev - 1 > 0 THEN inxt - prev - 1 ELSE (N - prev) + inxt

(* simdb::nxt(): m_nxtChIdx moves behind the entry that was found, or one  *)
(* on if there is none.                                                    *)
nxt(found) == ((IF found = SLOT_END THEN nxtChIdx ELSE found) + 1) % N

(* len() and getKey() by index and version: a slot that holds no entry has *)
(* no key.                                                                 *)
keyAt(found) == IF found = SLOT_END THEN {} ELSE {slots[found]}

(* One round of getKeyStrs(), with its call of nxtKey().                   *)
NxtKey ==
  LET found == chNxt(nxtChIdx) IN
  /\ srchCnt < N
  /\ nxtChIdx' = nxt(found)
  /\ srchCnt' = srchCnt + searched(nxtChIdx, nxt(found))
  /\ listed' = listed \union keyAt(found)
  /\ UNCHANGED slots

Scanned == srchCnt >= N

(* The constructor deletes the keys it was given.  What it does not know   *)
(* of stays.  From here on the table is used by its keys only.             *)
Left == Present \ listed
DelListed ==
  /\ Scanned
  /\ slots' = NoTable /\ nxtChIdx' = 0 /\ srchCnt' = N /\ listed' = {}

------------------------------------------------------------------------------

Apart == \A j \in Slot : Taken(j) => ~Taken((j + 1) % N)

(* getKeyStrs() lists every key of a table at rest, provided the slot it   *)
(* starts at is free and no two entries are in adjacent slots: the count   *)
(* of searched slots runs ahead of the search only then.  It never lists a *)
(* key that is not there.                                                  *)
ListsAll ==
  /\ listed \subseteq Present
  /\ Scanned /\ ~Taken(0) /\ Apart => listed = Present
=============================================================================
