------------------------------- MODULE CncrLst -------------------------------
(***************************************************************************)
(* The lock-free free list of block indices of simdb.hpp (class CncrLst).  *)
(*                                                                         *)
(* Shared memory: the array s_lv of links and the 64-bit word s_h holding  *)
(* a version and the index of the first free block.  nxt() unlinks the     *)
(* first index, free(st, en) puts a whole chain back in front; both retry  *)
(* a compare-exchange of s_h.  One action is one access to shared memory.  *)
(*                                                                         *)
(* The callers are those of CncrStr: alloc() calls nxt() once per block    *)
(* and keeps the results as one block list, doFree() calls free() with the *)
(* first and the last block of a list.  A list may be freed by another     *)
(* process than the one that built it.  free(idx) is free(idx, idx).       *)
(***************************************************************************)
EXTENDS Integers

CONSTANTS
  Size,       \* number of blocks: SIMDB_BLOCK_COUNT in the co-simulation
  LIST_END,   \* end-of-list mark, 0xFFFFFFFF in the code
  VerMax,     \* largest version of the head word, 0xFFFFFFFF in the code
  MaxLag,     \* bound: head updates that may pass between a thread's load
              \* of the head and its compare-exchange
  MaxChain,   \* bound: blocks in one block list; with more than two, a
              \* refused alloc() walks links of earlier lists (not modelled)
  Interleaved,\* whether lists are freed whose blocks were not next to each
              \* other in the free list, because another call came between
  Proc,       \* threads of all processes that have the database open
  Handle,     \* block lists that may exist at one time
  NoHandle

Idx == 0 .. Size - 1

ASSUME SizeAssumption == Size \in Nat \ {0}
ASSUME EndAssumption == LIST_END \in Nat /\ LIST_END \notin Idx
ASSUME VersionAssumption == VerMax \in Nat /\ MaxLag \in Nat /\ MaxLag < VerMax
ASSUME ChainAssumption == MaxChain \in 1 .. 2 /\ Interleaved \in BOOLEAN
ASSUME HandleAssumption == NoHandle \notin Handle

VARIABLES
  head,       \* s_h: version and first free index
  lv,         \* s_lv: the link of every index
  pc,         \* where each thread stands
  cur,        \* curHead of the call in progress
  nidx,       \* nxtHead.idx read by nxt()
  tgt,        \* the list the call in progress works for
  lst,        \* the lists: first and last block, members, length, and
              \* whether alloc() gave up on it
  lag         \* ghost: head updates by others since this thread loaded it

vars == <<head, lv, pc, cur, nidx, tgt, lst, lag>>

Heads == [ver : 0 .. VerMax, idx : Idx \union {LIST_END}]
NoHead == [ver |-> 0, idx |-> LIST_END]

Lists == [st : Idx \union {LIST_END}, en : Idx \union {LIST_END},
          mem : SUBSET Idx, len : 0 .. MaxChain, lost : BOOLEAN]
EmptyList ==
  [st |-> LIST_END, en |-> LIST_END, mem |-> {}, len |-> 0, lost |-> FALSE]
Single(i) == [st |-> i, en |-> i, mem |-> {i}, len |-> 1, lost |-> FALSE]

(* Mutant: the end of a chain is taken to be its first block.              *)
GrowNoEnd(l, i) ==
  IF l.len = 0 THEN Single(i) ELSE [l EXCEPT !.mem = @ \union {i}, !.len = @ + 1]

(* A list after alloc() linked one more block at its end.                  *)
Grow(l, i) ==
  IF l.len = 0 THEN Single(i)
  ELSE [l EXCEPT !.en = i, !.mem = @ \union {i}, !.len = @ + 1]

(* A list that alloc() gives up on: nothing of it is freed.                *)
GiveUp(l) == IF l = EmptyList THEN l ELSE [l EXCEPT !.lost = TRUE]

(* The two ways the version advances: nxt() never produces 0, free() wraps *)
(* around like any 32-bit addition.                                        *)
incVersion(v) == IF v = VerMax THEN 1 ELSE v + 1

(* Mutant: a version counter that does not wrap.                           *)
freeVersionNoWrap(v) == v + 1

freeVersion(v) == (v + 1) % (VerMax + 1)

(* The links still lead from the first block of the list to the last.      *)
Linked(l) == l.st # l.en => lv[l.st] = l.en

FreeIdx == {i \in Idx : \A h \in Handle : i \notin lst[h].mem}

InNxt(p) == pc[p] \in {"nxt_lv", "nxt_cas"}
InFree(p) == pc[p] \in {"free_lv", "free_cas"}
InCall(p) == InNxt(p) \/ InFree(p)

(* Every list is built by one thread, and freed by one thread: CncrStr     *)
(* lets only the thread that wins the last reader's exchange free it.      *)
Untargeted(h) == \A q \in Proc : tgt[q] # h

------------------------------------------------------------------------------

(* The constructor, run by the owner of the shared memory.                 *)
Init ==
  /\ head = [ver |-> 0, idx |-> 0]
  /\ lv = [i \in Idx |-> IF i = Size - 1 THEN LIST_END ELSE i + 1]
  /\ pc = [p \in Proc |-> "idle"]
  /\ cur = [p \in Proc |-> NoHead]
  /\ nidx = [p \in Proc |-> LIST_END]
  /\ tgt = [p \in Proc |-> NoHandle]
  /\ lst = [h \in Handle |-> EmptyList]
  /\ lag = [p \in Proc |-> 0]

(* Thread p has just read the head into curHead.  nxt() returns LIST_END   *)
(* at once when the list is empty, and alloc() gives up.  A list of which  *)
(* it already had the first block is then lost: its free(st, ver) returns  *)
(* without effect, because s_bls[st].version was never set.                *)
NxtSees(p, h) ==
  /\ \/ /\ head.idx # LIST_END
        /\ cur' = [cur EXCEPT ![p] = head]
        /\ pc' = [pc EXCEPT ![p] = "nxt_lv"]
        /\ tgt' = [tgt EXCEPT ![p] = h]
        /\ UNCHANGED lst
     \/ /\ head.idx = LIST_END
        /\ cur' = [cur EXCEPT ![p] = NoHead]
        /\ pc' = [pc EXCEPT ![p] = "idle"]
        /\ tgt' = [tgt EXCEPT ![p] = NoHandle]
        /\ lst' = [lst EXCEPT ![h] = GiveUp(@)]
  /\ nidx' = [nidx EXCEPT ![p] = LIST_END]
  /\ lag' = [lag EXCEPT ![p] = 0]
  /\ UNCHANGED <<head, lv>>

(* alloc() calls nxt() for the first block of a new list h.                *)
NxtFirst(p, h) ==
  /\ pc[p] = "idle" /\ lst[h] = EmptyList /\ Untargeted(h)
  /\ NxtSees(p, h)

(* alloc() calls nxt() for a further block of the list it is building.     *)
NxtMore(p) ==
  /\ pc[p] = "grown" /\ lst[tgt[p]].len < MaxChain
  /\ NxtSees(p, tgt[p])

(* nxtHead.idx = s_lv[curHead.idx]                                         *)
NxtLink(p) ==
  /\ pc[p] = "nxt_lv"
  /\ nidx' = [nidx EXCEPT ![p] = lv[cur[p].idx]]
  /\ pc' = [pc EXCEPT ![p] = "nxt_cas"]
  /\ UNCHANGED <<head, lv, cur, tgt, lst, lag>>

(* Mutant: the exchange compares the index only.                           *)
HeadIsCurIdxOnly(p) == head.idx = cur[p].idx

(* The comparison of the compare-exchange: version and index together.     *)
HeadIsCur(p) == head = cur[p]

(* A successful exchange of the head by p: everyone else in a call falls   *)
(* one update behind, and nobody may fall more than MaxLag behind.         *)
SetHead(p, h) ==
  /\ \A q \in Proc : q # p /\ InCall(q) => lag[q] < MaxLag
  /\ head' = h
  /\ lag' = [q \in Proc |-> IF q # p /\ InCall(q) THEN lag[q] + 1 ELSE 0]

NxtCas(p) ==
  /\ pc[p] = "nxt_cas" /\ HeadIsCur(p)
  /\ SetHead(p, [ver |-> incVersion(cur[p].ver), idx |-> nidx[p]])
  /\ lst' = [lst EXCEPT ![tgt[p]] = Grow(@, cur[p].idx)]
  /\ pc' = [pc EXCEPT ![p] = "grown"]
  /\ cur' = [cur EXCEPT ![p] = NoHead]
  /\ nidx' = [nidx EXCEPT ![p] = LIST_END]
  /\ UNCHANGED <<lv, tgt>>

(* Mutant: a failed exchange does not refresh curHead.                     *)
NxtRetryStale(p) ==
  /\ pc[p] = "nxt_cas" /\ ~HeadIsCur(p)
  /\ pc' = [pc EXCEPT ![p] = "nxt_lv"]
  /\ UNCHANGED <<head, lv, cur, nidx, tgt, lst, lag>>

(* A failed exchange loads the head into curHead and starts over.          *)
NxtRetry(p) ==
  /\ pc[p] = "nxt_cas" /\ ~HeadIsCur(p)
  /\ NxtSees(p, tgt[p])

(* alloc() returns the list to its caller.                                 *)
AllocDone(p) ==
  /\ pc[p] = "grown"
  /\ pc' = [pc EXCEPT ![p] = "idle"]
  /\ tgt' = [tgt EXCEPT ![p] = NoHandle]
  /\ UNCHANGED <<head, lv, cur, nidx, lst, lag>>

(* doFree() enters free(st, en) for a complete list.                       *)
FreeLoad(p, h) ==
  /\ pc[p] = "idle" /\ lst[h] # EmptyList /\ ~lst[h].lost /\ Untargeted(h)
  /\ Interleaved \/ Linked(lst[h])
  /\ cur' = [cur EXCEPT ![p] = head]
  /\ pc' = [pc EXCEPT ![p] = "free_lv"]
  /\ tgt' = [tgt EXCEPT ![p] = h]
  /\ UNCHANGED <<head, lv, nidx, lst, lag>>

(* s_lv[en] = curHead.idx                                                  *)
FreeLink(p) ==
  /\ pc[p] = "free_lv"
  /\ lv' = [lv EXCEPT ![lst[tgt[p]].en] = cur[p].idx]
  /\ pc' = [pc EXCEPT ![p] = "free_cas"]
  /\ UNCHANGED <<head, cur, nidx, tgt, lst, lag>>

FreeCas(p) ==
  /\ pc[p] = "free_cas" /\ HeadIsCur(p)
  /\ SetHead(p, [ver |-> freeVersion(cur[p].ver), idx |-> lst[tgt[p]].st])
  /\ lst' = [lst EXCEPT ![tgt[p]] = EmptyList]
  /\ pc' = [pc EXCEPT ![p] = "idle"]
  /\ cur' = [cur EXCEPT ![p] = NoHead]
  /\ tgt' = [tgt EXCEPT ![p] = NoHandle]
  /\ UNCHANGED <<lv, nidx>>

FreeRetry(p) ==
  /\ pc[p] = "free_cas" /\ ~HeadIsCur(p)
  /\ cur' = [cur EXCEPT ![p] = head]
  /\ pc' = [pc EXCEPT ![p] = "free_lv"]
  /\ lag' = [lag EXCEPT ![p] = 0]
  /\ UNCHANGED <<head, lv, nidx, tgt, lst>>

(* The steps of a call that has begun.                                     *)
Step(p) ==
  \/ NxtLink(p) \/ NxtCas(p) \/ NxtRetry(p) \/ AllocDone(p)
  \/ FreeLink(p) \/ FreeCas(p) \/ FreeRetry(p)

Next ==
  \E p \in Proc :
    \/ \E h \in Handle : NxtFirst(p, h) \/ FreeLoad(p, h)
    \/ NxtMore(p)
    \/ Step(p)

Spec == Init /\ [][Next]_vars

(* A running thread keeps taking the steps of the call it is in.           *)
FairSpec == Spec /\ \A p \in Proc : WF_vars(Step(p))

------------------------------------------------------------------------------

Pcs == {"idle", "nxt_lv", "nxt_cas", "grown", "free_lv", "free_cas"}

(* Every variable has the type the code declares for it.                   *)
TypeOK ==
  /\ head \in Heads
  /\ lv \in [Idx -> Idx \union {LIST_END}]
  /\ pc \in [Proc -> Pcs]
  /\ cur \in [Proc -> Heads]
  /\ nidx \in [Proc -> Idx \union {LIST_END}]
  /\ tgt \in [Proc -> Handle \union {NoHandle}]
  /\ lst \in [Handle -> Lists]
  /\ lag \in [Proc -> 0 .. MaxLag]

(* No index is in two block lists: nxt() never hands out an index that     *)
(* some list still holds ("only one thread will deal with any single index *)
(* at a time", simdb.hpp:552).                                             *)
Exclusive ==
  \A g, h \in Handle : g # h => lst[g].mem \intersect lst[h].mem = {}

(* lnkCnt() walks the links from the head: what it has visited after n     *)
(* links, and what it visits on the way to the end.                        *)
Visited[n \in 0 .. Size] ==
  IF n = 0 THEN {head.idx} \ {LIST_END}
  ELSE LET v == Visited[n - 1] IN v \union ({lv[i] : i \in v} \ {LIST_END})

Walk == Visited[Size]

(* Nothing is lost and nothing is freed early: the indices that can be     *)
(* reached from the head are exactly those no list holds, at every moment, *)
(* in the middle of any number of nxt() and free() calls.  In particular   *)
(* nxt() returns LIST_END, which makes put() fail, only when every index   *)
(* is in some list.                                                        *)
NothingLost == Walk = FreeIdx

(* Lock freedom ("lock free and scales well with multiple threads",        *)
(* simdb.hpp:24): as long as there are calls in progress, calls return     *)
(* again and again, although any single one may retry for ever.            *)
LockFree ==
  []<>(\E p \in Proc : InCall(p))
    => []<><<\E p \in Proc : InCall(p) /\ ~InCall(p)'>>_vars

------------------------------------------------------------------------------

(* The parts of the invariant that carries Exclusive through every         *)
(* interleaving, for lists of one block and for linked lists of two.       *)

(* What a list holds is its first and its last block.                      *)
Shape ==
  \A h \in Handle :
    \/ lst[h] = EmptyList
    \/ /\ lst[h].st \in Idx /\ lst[h].en \in Idx
       /\ lst[h].mem = {lst[h].st, lst[h].en}
       /\ lst[h].len \in 1 .. MaxChain
       /\ lst[h].len = 1 => lst[h].st = lst[h].en

(* Calls work for different lists; nxt() for one that is not complete,     *)
(* free() for one that has its blocks, linked to each other.               *)
Targets ==
  /\ \A p \in Proc : pc[p] # "idle" => tgt[p] \in Handle
  /\ \A p \in Proc : pc[p] = "idle" => tgt[p] = NoHandle
  /\ \A p, q \in Proc : p # q /\ tgt[p] = tgt[q] => tgt[p] = NoHandle
  /\ \A p \in Proc : InNxt(p) => lst[tgt[p]].len < MaxChain
  /\ \A p \in Proc : InFree(p) => lst[tgt[p]] # EmptyList /\ Linked(lst[tgt[p]])

(* The head and the links of free indices lead to free indices, and no two *)
(* of them to the same one.                                                *)
Links ==
  LET Free == FreeIdx
  IN  /\ head.idx \in Free \union {LIST_END}
      /\ \A i \in Free : lv[i] \in Free \union {LIST_END}
      /\ \A i \in Free : lv[i] = head.idx => lv[i] = LIST_END
      /\ \A i, j \in Free : i # j /\ lv[i] = lv[j] => lv[i] = LIST_END

(* What a thread read of the head is the head, unless the head has been    *)
(* updated since; then the version tells them apart, having wrapped around *)
(* at most once.                                                           *)
VersionGap(p) ==
  head.ver \in {cur[p].ver + lag[p],
               cur[p].ver + lag[p] - VerMax,
               cur[p].ver + lag[p] - (VerMax + 1)}

Reads ==
  \A p \in Proc :
    /\ InCall(p) => VersionGap(p)
    /\ InCall(p) /\ lag[p] = 0 => cur[p] = head
    /\ InNxt(p) => cur[p].idx \in Idx
    /\ pc[p] = "nxt_cas" /\ lag[p] = 0 => nidx[p] = lv[cur[p].idx]
    /\ pc[p] = "free_cas" => lv[lst[tgt[p]].en] = cur[p].idx
    /\ ~InCall(p) => lag[p] = 0

(* The free list in the middle of any number of calls: what is free hangs  *)
(* together without sharing, and what each thread remembers is current or  *)
(* recognisably stale.                                                     *)
ListInv == TypeOK /\ Shape /\ Exclusive /\ Targets /\ Links /\ Reads

------------------------------------------------------------------------------

(* The calls implement the atomic pool of indices.                         *)
Pool == INSTANCE BlockPool WITH taken <- [h \in Handle |-> lst[h].mem]
PoolSpec == Pool!Spec
=============================================================================
