------------------------------ MODULE BlockPool ------------------------------
(***************************************************************************)
(* What the free list of block indices promises its callers: nxt() hands   *)
(* out an index nobody holds, and free() gives a whole list of indices     *)
(* back at once.  No links, no versions, no retries: one atomic step per   *)
(* completed call.  CncrLst is shown to implement this module.             *)
(***************************************************************************)
EXTENDS Naturals

CONSTANTS
  Idx,        \* the block indices
  Handle      \* the lists of blocks that may exist at one time

VARIABLE
  taken       \* taken[h]: the indices the list h has been given

Init == taken = [h \in Handle |-> {}]

(* An index that is in no list joins the list h.                           *)
Take(h, i) ==
  /\ \A g \in Handle : i \notin taken[g]
  /\ taken' = [taken EXCEPT ![h] = @ \union {i}]

(* All the indices of the list h become free together.                     *)
GiveBack(h) ==
  /\ taken[h] # {}
  /\ taken' = [taken EXCEPT ![h] = {}]

Next == \E h \in Handle : GiveBack(h) \/ \E i \in Idx : Take(h, i)

Spec == Init /\ [][Next]_taken
=============================================================================
