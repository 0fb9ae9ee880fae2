---------------------------- MODULE CncrLstProofs ----------------------------
(***************************************************************************)
(* Proofs about the free list of block indices, for every number of        *)
(* threads, of blocks and of lists, as long as the lists that are freed    *)
(* are linked: lists of one block always are, lists of two when no other   *)
(* call came between the two that took the blocks.                         *)
(***************************************************************************)
EXTENDS CncrLst, TLAPS, FiniteSetTheorems, WellFoundedInduction

(* free() advances the version by one and wraps to zero.                   *)
LEMMA FreeVersionWraps ==
  ASSUME NEW v \in 0 .. VerMax
  PROVE  freeVersion(v) = IF v = VerMax THEN 0 ELSE v + 1
<1>1. CASE v = VerMax
  <2>1. (VerMax + 1) % (VerMax + 1) = 0
    BY VersionAssumption
  <2> QED BY <1>1, <2>1 DEF freeVersion
<1>2. CASE v # VerMax
  <2>1. v + 1 \in 0 .. VerMax
    BY <1>2, VersionAssumption
  <2>2. (v + 1) % (VerMax + 1) = v + 1
    BY <2>1, VersionAssumption
  <2> QED BY <1>2, <2>2 DEF freeVersion
<1> QED BY <1>1, <1>2

(* One more update of the head keeps the version recognisable.             *)
LEMMA VersionStep ==
  ASSUME NEW c \in 0 .. VerMax, NEW l \in 0 .. MaxLag, l < MaxLag,
         NEW v \in 0 .. VerMax,
         v \in {c + l, c + l - VerMax, c + l - (VerMax + 1)},
         NEW w \in {incVersion(v), freeVersion(v)}
  PROVE  /\ w \in 0 .. VerMax
         /\ w \in {c + (l + 1), c + (l + 1) - VerMax, c + (l + 1) - (VerMax + 1)}
<1>1. freeVersion(v) = IF v = VerMax THEN 0 ELSE v + 1
  BY FreeVersionWraps
<1> QED BY <1>1, VersionAssumption DEF incVersion

(* A version read before at least one update differs from the present one. *)
LEMMA VersionTells ==
  ASSUME NEW c \in 0 .. VerMax, NEW l \in 0 .. MaxLag, l # 0,
         NEW v \in 0 .. VerMax,
         v \in {c + l, c + l - VerMax, c + l - (VerMax + 1)}
  PROVE  v # c
BY VersionAssumption

(* The constructor establishes the invariant.                              *)
LEMMA InitListInv == Init => ListInv
<1> SUFFICES ASSUME Init PROVE ListInv
  OBVIOUS
<1> USE SizeAssumption, EndAssumption, VersionAssumption, ChainAssumption, HandleAssumption
<1>1. TypeOK
  BY DEF Init, TypeOK, Heads, NoHead, Lists, EmptyList, Idx, Pcs
<1>2. Shape /\ Exclusive
  BY DEF Init, Shape, Exclusive, EmptyList
<1>3. Targets
  BY DEF Init, Targets, InNxt, InFree
<1>4. Links
  <2>1. FreeIdx = Idx
    BY DEF Init, FreeIdx, EmptyList
  <2> QED BY <2>1 DEF Init, Links, Idx
<1>5. Reads
  BY DEF Init, Reads, InCall, InNxt, InFree
<1> QED BY <1>1, <1>2, <1>3, <1>4, <1>5 DEF ListInv

------------------------------------------------------------------------------

(* Thread p has read the head for a list h that is not complete and that   *)
(* no other thread works for: first part of nxt(), at its start and at     *)
(* every retry.                                                            *)
LEMMA SeesListInv ==
  ASSUME ListInv, NEW p \in Proc, NEW h \in Handle,
         lst[h].len < MaxChain, \A q \in Proc : q # p => tgt[q] # h,
         NxtSees(p, h)
  PROVE  /\ ListInv'
         /\ \A g \in Handle : lst'[g].mem = lst[g].mem
<1> USE SizeAssumption, EndAssumption, VersionAssumption, HandleAssumption
<1>0. /\ TypeOK /\ Shape /\ Exclusive /\ Targets /\ Links /\ Reads
  BY DEF ListInv
<1>1. lv' = lv /\ head' = head
  BY DEF NxtSees
<1>2. /\ lst' \in [Handle -> Lists]
      /\ \A g \in Handle : g # h => lst'[g] = lst[g]
      /\ lst[h] = EmptyList => lst'[h] = lst[h]
      /\ lst'[h].st = lst[h].st /\ lst'[h].en = lst[h].en
      /\ lst'[h].mem = lst[h].mem /\ lst'[h].len = lst[h].len
  <2>1. lst[h] \in Lists /\ lst \in [Handle -> Lists]
    BY <1>0 DEF TypeOK
  <2>2. lst' = lst \/ lst' = [lst EXCEPT ![h] = GiveUp(lst[h])]
    BY <2>1 DEF NxtSees
  <2>3. /\ GiveUp(lst[h]) \in Lists
        /\ lst[h] = EmptyList => GiveUp(lst[h]) = lst[h]
        /\ GiveUp(lst[h]).st = lst[h].st /\ GiveUp(lst[h]).en = lst[h].en
        /\ GiveUp(lst[h]).mem = lst[h].mem /\ GiveUp(lst[h]).len = lst[h].len
    BY <2>1 DEF GiveUp, Lists
  <2> QED BY <2>1, <2>2, <2>3
<1>3. FreeIdx' = FreeIdx
  BY <1>2 DEF FreeIdx
<1>4. /\ nidx' = [nidx EXCEPT ![p] = LIST_END]
      /\ lag' = [lag EXCEPT ![p] = 0]
      /\ \/ /\ head.idx # LIST_END
            /\ cur' = [cur EXCEPT ![p] = head]
            /\ pc' = [pc EXCEPT ![p] = "nxt_lv"]
            /\ tgt' = [tgt EXCEPT ![p] = h]
         \/ /\ cur' = [cur EXCEPT ![p] = NoHead]
            /\ pc' = [pc EXCEPT ![p] = "idle"]
            /\ tgt' = [tgt EXCEPT ![p] = NoHandle]
  BY DEF NxtSees
<1>5. TypeOK'
  <2>1. NoHead \in Heads /\ 0 \in 0 .. MaxLag
    BY DEF NoHead, Heads
  <2>2. "nxt_lv" \in Pcs /\ "idle" \in Pcs
    BY DEF Pcs
  <2> QED BY <1>0, <1>1, <1>2, <1>4, <2>1, <2>2 DEF TypeOK
<1>6. Shape'
  BY <1>0, <1>2 DEF Shape
<1>7. Exclusive'
  BY <1>0, <1>2 DEF Exclusive
<1>8. Links'
  BY <1>0, <1>1, <1>3 DEF Links
<1>9. ASSUME NEW q \in Proc, q # p
      PROVE  /\ pc'[q] = pc[q] /\ tgt'[q] = tgt[q] /\ cur'[q] = cur[q]
             /\ nidx'[q] = nidx[q] /\ lag'[q] = lag[q]
             /\ tgt[q] \in Handle => lst'[tgt[q]] = lst[tgt[q]]
  BY <1>0, <1>2, <1>4, <1>9 DEF TypeOK
<1>10. Targets'
  <2>1. pc'[p] \in {"idle", "nxt_lv"} /\ tgt'[p] = IF pc'[p] = "idle" THEN NoHandle ELSE h
    BY <1>0, <1>4 DEF TypeOK
  <2>2. lst'[h].len < MaxChain
    BY <1>2
  <2> QED BY <1>0, <1>1, <1>9, <2>1, <2>2 DEF Targets, InNxt, InFree, Linked
<1>11. Reads'
  <2>1. /\ pc'[p] \in {"idle", "nxt_lv"} /\ lag'[p] = 0
        /\ pc'[p] = "nxt_lv" => cur'[p] = head /\ head.idx \in Idx
    BY <1>0, <1>4 DEF TypeOK, Heads
  <2>2. head.ver \in 0 .. VerMax
    BY <1>0 DEF TypeOK, Heads
  <2>3. \A q \in Proc : InFree(q) => tgt[q] \in Handle
    BY <1>0 DEF Targets, InFree
  <2> QED BY <1>0, <1>1, <1>9, <2>1, <2>2, <2>3
          DEF Reads, InCall, InNxt, InFree, VersionGap
<1> QED BY <1>2, <1>5, <1>6, <1>7, <1>8, <1>10, <1>11 DEF ListInv

(* nxt() reads the link of the index it saw.                               *)
LEMMA NxtLinkListInv ==
  ASSUME ListInv, NEW p \in Proc, NxtLink(p)
  PROVE  ListInv'
<1>0. TypeOK /\ Shape /\ Exclusive /\ Targets /\ Links /\ Reads
  BY DEF ListInv
<1>1. cur[p].idx \in Idx
  BY <1>0 DEF NxtLink, Reads, InNxt
<1>2. TypeOK'
  <2>1. "nxt_cas" \in Pcs
    BY DEF Pcs
  <2> QED BY <1>0, <1>1, <2>1 DEF TypeOK, NxtLink
<1>3. Shape' /\ Exclusive' /\ Links'
  BY <1>0 DEF NxtLink, Shape, Exclusive, Links, FreeIdx
<1>4. Targets'
  BY <1>0 DEF NxtLink, Targets, InNxt, InFree, Linked, TypeOK
<1>5. Reads'
  BY <1>0 DEF NxtLink, Reads, InCall, InNxt, InFree, VersionGap, TypeOK
<1> QED BY <1>2, <1>3, <1>4, <1>5 DEF ListInv

(* alloc() is done with the list it built.                                 *)
LEMMA AllocDoneListInv ==
  ASSUME ListInv, NEW p \in Proc, AllocDone(p)
  PROVE  ListInv'
<1>0. TypeOK /\ Shape /\ Exclusive /\ Targets /\ Links /\ Reads
  BY DEF ListInv
<1>1. TypeOK'
  <2>1. "idle" \in Pcs
    BY DEF Pcs
  <2> QED BY <1>0, <2>1 DEF TypeOK, AllocDone
<1>2. Shape' /\ Exclusive' /\ Links'
  BY <1>0 DEF AllocDone, Shape, Exclusive, Links, FreeIdx
<1>3. Targets'
  BY <1>0 DEF AllocDone, Targets, InNxt, InFree, Linked, TypeOK
<1>4. Reads'
  BY <1>0 DEF AllocDone, Reads, InCall, InNxt, InFree, VersionGap, TypeOK
<1> QED BY <1>1, <1>2, <1>3, <1>4 DEF ListInv

(* free() reads the head.                                                  *)
LEMMA FreeLoadListInv ==
  ASSUME MaxChain = 1 \/ ~Interleaved,
         ListInv, NEW p \in Proc, NEW h \in Handle, FreeLoad(p, h)
  PROVE  ListInv'
<1>0. TypeOK /\ Shape /\ Exclusive /\ Targets /\ Links /\ Reads
  BY DEF ListInv
<1>1. TypeOK'
  <2>1. "free_lv" \in Pcs
    BY DEF Pcs
  <2> QED BY <1>0, <2>1 DEF TypeOK, FreeLoad
<1>2. Shape' /\ Exclusive' /\ Links'
  BY <1>0 DEF FreeLoad, Shape, Exclusive, Links, FreeIdx
<1>3. Targets'
  <2>1. Linked(lst[h])
    <3>1. CASE ~Interleaved
      BY <3>1 DEF FreeLoad
    <3>2. CASE MaxChain = 1
      BY <1>0, <3>2 DEF FreeLoad, Shape, Linked
    <3> QED BY <3>1, <3>2
  <2>2. tgt' = [tgt EXCEPT ![p] = h] /\ pc' = [pc EXCEPT ![p] = "free_lv"]
    BY DEF FreeLoad
  <2>3. lst[h] # EmptyList /\ lst' = lst /\ lv' = lv /\ \A q \in Proc : tgt[q] # h
    BY DEF FreeLoad, Untargeted
  <2> QED BY <1>0, <2>1, <2>2, <2>3, HandleAssumption
          DEF Targets, InNxt, InFree, Linked, TypeOK
<1>4. Reads'
  <2>1. lag[p] = 0
    BY <1>0 DEF FreeLoad, Reads, InCall, InNxt, InFree
  <2>2. head.ver \in 0 .. VerMax
    BY <1>0 DEF TypeOK, Heads
  <2>3. tgt[p] = NoHandle
    BY <1>0 DEF FreeLoad, Targets
  <2> QED BY <1>0, <2>1, <2>2, <2>3, VersionAssumption
          DEF FreeLoad, Reads, InCall, InNxt, InFree, VersionGap, TypeOK
<1> QED BY <1>1, <1>2, <1>3, <1>4 DEF ListInv

(* free() reads the head again after a failed exchange.                    *)
LEMMA FreeRetryListInv ==
  ASSUME ListInv, NEW p \in Proc, FreeRetry(p)
  PROVE  ListInv'
<1>0. TypeOK /\ Shape /\ Exclusive /\ Targets /\ Links /\ Reads
  BY DEF ListInv
<1>1. TypeOK'
  <2>1. "free_lv" \in Pcs /\ 0 \in 0 .. MaxLag
    BY VersionAssumption DEF Pcs
  <2> QED BY <1>0, <2>1 DEF TypeOK, FreeRetry
<1>2. Shape' /\ Exclusive' /\ Links'
  BY <1>0 DEF FreeRetry, Shape, Exclusive, Links, FreeIdx
<1>3. Targets'
  BY <1>0 DEF FreeRetry, Targets, InNxt, InFree, Linked, TypeOK
<1>4. Reads'
  <2>1. head.ver \in 0 .. VerMax
    BY <1>0 DEF TypeOK, Heads
  <2> QED BY <1>0, <2>1, VersionAssumption
          DEF FreeRetry, Reads, InCall, InNxt, InFree, VersionGap, TypeOK
<1> QED BY <1>1, <1>2, <1>3, <1>4 DEF ListInv

(* free() links the block to what it saw as the first free one: the block  *)
(* is not free, so no link of the free list and no reader depends on it.   *)
LEMMA FreeLinkListInv ==
  ASSUME ListInv, NEW p \in Proc, FreeLink(p)
  PROVE  /\ ListInv'
         /\ FreeIdx' = FreeIdx /\ head' = head
         /\ \A i \in FreeIdx : lv'[i] = lv[i]
<1>0. TypeOK /\ Shape /\ Exclusive /\ Targets /\ Links /\ Reads
  BY DEF ListInv
<1> DEFINE h == tgt[p]
<1> DEFINE b == lst[h].en
<1>1. h \in Handle /\ lst[h] # EmptyList
  BY <1>0 DEF FreeLink, Targets, InFree
<1>3. b \in Idx /\ b \in lst[h].mem /\ b \notin FreeIdx
  BY <1>0, <1>1 DEF Shape, FreeIdx
<1>4. lv' = [lv EXCEPT ![b] = cur[p].idx] /\ FreeIdx' = FreeIdx
  BY <1>3 DEF FreeLink, FreeIdx
<1>5. TypeOK'
  <2>1. "free_cas" \in Pcs
    BY DEF Pcs
  <2>2. cur[p].idx \in Idx \union {LIST_END}
    BY <1>0 DEF TypeOK, Heads
  <2> QED BY <1>0, <1>4, <2>1, <2>2 DEF TypeOK, FreeLink
<1>6. Shape' /\ Exclusive'
  BY <1>0 DEF FreeLink, Shape, Exclusive
<1>6a. head' = head /\ \A i \in FreeIdx : lv'[i] = lv[i]
  <2>1. FreeIdx \subseteq Idx
    BY DEF FreeIdx
  <2> QED BY <1>0, <1>3, <1>4, <2>1 DEF TypeOK, FreeLink
<1>7. Links'
  BY <1>0, <1>4, <1>6a DEF Links
<1>8. Targets'
  <2>1. ASSUME NEW q \in Proc, InFree(q)
        PROVE  Linked(lst[tgt[q]])'
    <3>1. /\ tgt[q] \in Handle /\ lst[tgt[q]] # EmptyList /\ Linked(lst[tgt[q]])
          /\ tgt' = tgt /\ lst' = lst
      BY <1>0, <2>1 DEF Targets, InFree, FreeLink
    <3>2. lst[tgt[q]].st \in Idx /\ lst[tgt[q]].st \in lst[tgt[q]].mem
      BY <1>0, <3>1 DEF Shape
    <3>3. lst[tgt[q]].st # lst[tgt[q]].en => lst[tgt[q]].st # b
      BY <1>0, <1>1, <1>3, <3>1, <3>2 DEF Exclusive
    <3> QED BY <1>0, <1>4, <3>1, <3>2, <3>3 DEF Linked, TypeOK
  <2> QED BY <1>0, <2>1 DEF FreeLink, Targets, InNxt, InFree, TypeOK
<1>9. Reads'
  <2>1. ASSUME NEW q \in Proc, pc[q] = "nxt_cas", lag[q] = 0
        PROVE  lv'[cur[q].idx] = lv[cur[q].idx]
    <3>1. cur[q].idx = head.idx /\ cur[q].idx \in Idx
      BY <1>0, <2>1 DEF Reads, InCall, InNxt
    <3>2. cur[q].idx \in FreeIdx
      BY <1>0, <3>1, EndAssumption DEF Links
    <3> QED BY <1>0, <1>3, <1>4, <3>1, <3>2 DEF TypeOK
  <2>2. ASSUME NEW q \in Proc, q # p, pc[q] = "free_cas"
        PROVE  lv'[lst[tgt[q]].en] = lv[lst[tgt[q]].en]
    <3>1. tgt[q] \in Handle /\ lst[tgt[q]] # EmptyList /\ tgt[q] # h
      BY <1>0, <1>1, <2>2, HandleAssumption DEF Targets, InFree
    <3>2. lst[tgt[q]].en \in Idx /\ lst[tgt[q]].en \in lst[tgt[q]].mem
      BY <1>0, <3>1 DEF Shape
    <3>3. lst[tgt[q]].en # b
      BY <1>0, <1>1, <1>3, <3>1, <3>2 DEF Exclusive
    <3> QED BY <1>0, <1>4, <3>2, <3>3 DEF TypeOK
  <2>3. lv'[lst[h].en] = cur[p].idx
    BY <1>0, <1>3, <1>4 DEF TypeOK
  <2> QED BY <1>0, <2>1, <2>2, <2>3
          DEF FreeLink, Reads, InCall, InNxt, InFree, VersionGap, TypeOK
<1> QED BY <1>4, <1>5, <1>6, <1>6a, <1>7, <1>8, <1>9 DEF ListInv

------------------------------------------------------------------------------

(* An exchange succeeds only if the head has not moved since it was read:  *)
(* an index that went and came back is told by its version.                *)
LEMMA ExchangeIsCurrent ==
  ASSUME ListInv, NEW p \in Proc, InCall(p), HeadIsCur(p)
  PROVE  lag[p] = 0
<1>0. TypeOK /\ Reads
  BY DEF ListInv
<1>1. /\ cur[p].ver \in 0 .. VerMax /\ lag[p] \in 0 .. MaxLag
      /\ head.ver \in 0 .. VerMax /\ VersionGap(p)
  BY <1>0 DEF TypeOK, Heads, Reads
<1>2. lag[p] # 0 => head.ver # cur[p].ver
  BY <1>1, VersionTells DEF VersionGap
<1> QED BY <1>2 DEF HeadIsCur

(* A successful exchange leaves every other thread recognisably behind.    *)
LEMMA ExchangeLeavesBehind ==
  ASSUME ListInv, NEW p \in Proc, NEW w \in {incVersion(head.ver), freeVersion(head.ver)},
         NEW i, SetHead(p, [ver |-> w, idx |-> i])
  PROVE  /\ w \in 0 .. VerMax
         /\ lag' \in [Proc -> 0 .. MaxLag]
         /\ \A q \in Proc : q # p /\ InCall(q) =>
              /\ lag'[q] # 0
              /\ head'.ver \in {cur[q].ver + lag'[q],
                              cur[q].ver + lag'[q] - VerMax,
                              cur[q].ver + lag'[q] - (VerMax + 1)}
         /\ \A q \in Proc : q = p \/ ~InCall(q) => lag'[q] = 0
<1>0. TypeOK /\ Reads
  BY DEF ListInv
<1>1. head.ver \in 0 .. VerMax /\ lag \in [Proc -> 0 .. MaxLag]
  BY <1>0 DEF TypeOK, Heads
<1>2. w \in 0 .. VerMax
  BY <1>1, FreeVersionWraps, VersionAssumption DEF incVersion
<1>3. head'.ver = w
  BY DEF SetHead
<1>4. lag' \in [Proc -> 0 .. MaxLag]
  BY <1>1, VersionAssumption DEF SetHead
<1>5. ASSUME NEW q \in Proc, q # p, InCall(q)
      PROVE  /\ lag'[q] # 0
             /\ w \in {cur[q].ver + lag'[q],
                      cur[q].ver + lag'[q] - VerMax,
                      cur[q].ver + lag'[q] - (VerMax + 1)}
  <2>1. lag[q] < MaxLag /\ lag'[q] = lag[q] + 1 /\ lag[q] \in 0 .. MaxLag
    BY <1>1, <1>5 DEF SetHead
  <2>2. cur[q].ver \in 0 .. VerMax
    BY <1>0 DEF TypeOK, Heads
  <2>3. head.ver \in {cur[q].ver + lag[q], cur[q].ver + lag[q] - VerMax,
                     cur[q].ver + lag[q] - (VerMax + 1)}
    BY <1>0, <1>5 DEF Reads, VersionGap
  <2>4. w \in {cur[q].ver + (lag[q] + 1), cur[q].ver + (lag[q] + 1) - VerMax,
              cur[q].ver + (lag[q] + 1) - (VerMax + 1)}
    BY <1>1, <2>1, <2>2, <2>3, VersionStep
  <2> QED BY <2>1, <2>4
<1>6. \A q \in Proc : q = p \/ ~InCall(q) => lag'[q] = 0
  BY DEF SetHead
<1> QED BY <1>2, <1>3, <1>4, <1>5, <1>6

(* A list of one block that grows becomes the list of that block and the   *)
(* new one.                                                                *)
LEMMA GrowSecond ==
  ASSUME NEW l \in Lists, NEW i \in Idx, l.mem = {l.st}, l.len = 1
  PROVE  Grow(l, i) =
           [st |-> l.st, en |-> i, mem |-> {l.st, i}, len |-> 2, lost |-> l.lost]
<1>1. Grow(l, i) = [l EXCEPT !.en = i, !.mem = l.mem \union {i}, !.len = l.len + 1]
  BY DEF Grow
<1>2. l.mem \union {i} = {l.st, i} /\ l.len + 1 = 2
  OBVIOUS
<1>3. Grow(l, i) = [l EXCEPT !.en = i, !.mem = {l.st, i}, !.len = 2]
  BY <1>1, <1>2
<1>4. l = [st |-> l.st, en |-> l.en, mem |-> l.mem, len |-> l.len, lost |-> l.lost]
  BY DEF Lists
<1> QED BY <1>3, <1>4

(* nxt() takes the first free block.                                       *)
LEMMA NxtCasListInv ==
  ASSUME ListInv, NEW p \in Proc, NxtCas(p)
  PROVE  /\ ListInv'
         /\ tgt[p] \in Handle
         /\ head.idx \in FreeIdx
         /\ lst' = [lst EXCEPT ![tgt[p]] = Grow(lst[tgt[p]], head.idx)]
         /\ Grow(lst[tgt[p]], head.idx).mem = lst[tgt[p]].mem \union {head.idx}
         /\ FreeIdx' = FreeIdx \ {head.idx}
         /\ head'.idx = lv[head.idx] /\ lv' = lv
<1>0. TypeOK /\ Shape /\ Exclusive /\ Targets /\ Links /\ Reads
  BY DEF ListInv
<1> DEFINE h == tgt[p]
           b == head.idx
           l == lst[h]
           m == Grow(l, b)
<1>1. h \in Handle /\ l.len < MaxChain /\ l \in Lists
  BY <1>0 DEF NxtCas, Targets, InNxt, TypeOK
<1>2. lag[p] = 0 /\ cur[p] = head
  BY ExchangeIsCurrent DEF NxtCas, InCall, InNxt, HeadIsCur
<1>3. b \in FreeIdx /\ b \in Idx /\ nidx[p] = lv[b]
  <2>1. b \in Idx /\ nidx[p] = lv[b]
    BY <1>0, <1>2 DEF NxtCas, Reads, InNxt
  <2> QED BY <1>0, <2>1, EndAssumption DEF Links
<1>4. lst' = [lst EXCEPT ![h] = m]
  BY <1>2 DEF NxtCas
<1>4a. /\ m \in Lists /\ m # EmptyList /\ m.mem = l.mem \union {b}
       /\ m.st \in Idx /\ m.en \in Idx /\ m.mem = {m.st, m.en}
       /\ m.len \in 1 .. MaxChain
       /\ m.len = 1 => m.st = m.en
  <2>1. CASE l = EmptyList
    <3>1. m = Single(b) /\ l.mem = {}
      BY <2>1 DEF Grow, EmptyList
    <3> QED BY <1>3, <3>1, ChainAssumption DEF Single, Lists, EmptyList
  <2>2. CASE l # EmptyList
    <3>1. /\ l.st \in Idx /\ l.mem = {l.st} /\ l.len = 1 /\ MaxChain = 2
      BY <1>0, <1>1, <2>2, ChainAssumption DEF Shape
    <3>2. m = [st |-> l.st, en |-> b, mem |-> {l.st, b}, len |-> 2, lost |-> l.lost]
      BY <1>1, <1>3, <3>1, GrowSecond
    <3>2a. l.lost \in BOOLEAN
      BY <1>1 DEF Lists
    <3>3. /\ m.st = l.st /\ m.en = b /\ m.mem = {l.st, b} /\ m.len = 2
          /\ m \in Lists
      BY <1>3, <3>1, <3>2, <3>2a DEF Lists
    <3>4. m # EmptyList
      BY <3>3 DEF EmptyList
    <3> QED BY <1>3, <3>1, <3>3, <3>4
  <2> QED BY <2>1, <2>2
<1>5. FreeIdx' = FreeIdx \ {b}
  <2>1. \A g \in Handle : g # h => lst'[g] = lst[g]
    BY <1>0, <1>1, <1>4 DEF TypeOK
  <2>2. lst'[h].mem = lst[h].mem \union {b}
    BY <1>0, <1>1, <1>4, <1>4a DEF TypeOK
  <2> QED BY <1>1, <2>1, <2>2 DEF FreeIdx
<1>6. /\ SetHead(p, [ver |-> incVersion(head.ver), idx |-> lv[b]])
      /\ head' = [ver |-> incVersion(head.ver), idx |-> lv[b]]
  BY <1>2, <1>3 DEF NxtCas, SetHead
<1>7. /\ incVersion(head.ver) \in 0 .. VerMax
      /\ lag' \in [Proc -> 0 .. MaxLag]
      /\ \A q \in Proc : q # p /\ InCall(q) =>
              /\ lag'[q] # 0
              /\ head'.ver \in {cur[q].ver + lag'[q],
                              cur[q].ver + lag'[q] - VerMax,
                              cur[q].ver + lag'[q] - (VerMax + 1)}
      /\ \A q \in Proc : q = p \/ ~InCall(q) => lag'[q] = 0
  BY <1>6, ExchangeLeavesBehind
<1>8. TypeOK'
  <2>1. "grown" \in Pcs /\ NoHead \in Heads
    BY VersionAssumption DEF Pcs, NoHead, Heads
  <2>3. head' \in Heads
    BY <1>0, <1>3, <1>6, <1>7 DEF TypeOK, Heads
  <2> QED BY <1>0, <1>1, <1>4, <1>7, <1>4a, <2>1, <2>3 DEF TypeOK, NxtCas
<1>9. Shape'
  <2>1. \A g \in Handle : lst'[g] = IF g = h THEN m ELSE lst[g]
    BY <1>0, <1>1, <1>4 DEF TypeOK
  <2> QED BY <1>0, <1>4a, <2>1 DEF Shape
<1>10. Exclusive'
  <2>1. \A g \in Handle : g # h => lst'[g] = lst[g] /\ b \notin lst[g].mem
    BY <1>0, <1>1, <1>3, <1>4 DEF TypeOK, FreeIdx
  <2>2. lst'[h].mem = lst[h].mem \union {b}
    BY <1>0, <1>1, <1>4, <1>4a DEF TypeOK
  <2> QED BY <1>0, <1>1, <2>1, <2>2 DEF Exclusive
<1>10a. lv' = lv /\ head'.idx = lv[b]
  BY <1>6 DEF NxtCas
<1>11. Links'
  <2>2. lv[b] \in (FreeIdx \ {b}) \union {LIST_END}
    BY <1>0, <1>3, EndAssumption DEF Links
  <2>3. \A i \in FreeIdx \ {b} :
          /\ lv[i] \in (FreeIdx \ {b}) \union {LIST_END}
          /\ lv[i] = lv[b] => lv[i] = LIST_END
    BY <1>0, <1>3, EndAssumption DEF Links
  <2> QED BY <1>0, <1>5, <1>10a, <2>2, <2>3 DEF Links
<1>12. Targets'
  <2>1. /\ tgt' = tgt /\ lv' = lv /\ pc' = [pc EXCEPT ![p] = "grown"]
        /\ pc[p] # "idle"
    BY DEF NxtCas
  <2>2. \A q \in Proc : q # p /\ tgt[q] \in Handle => lst'[tgt[q]] = lst[tgt[q]]
    BY <1>0, <1>1, <1>4, HandleAssumption DEF Targets, TypeOK
  <2> QED BY <1>0, <1>1, <2>1, <2>2 DEF Targets, InNxt, InFree, Linked, TypeOK
<1>13. Reads'
  <2> SUFFICES ASSUME NEW q \in Proc
               PROVE  /\ InCall(q)' => VersionGap(q)'
                      /\ InCall(q)' /\ lag'[q] = 0 => cur'[q] = head'
                      /\ InNxt(q)' => cur'[q].idx \in Idx
                      /\ pc'[q] = "nxt_cas" /\ lag'[q] = 0 => nidx'[q] = lv'[cur'[q].idx]
                      /\ pc'[q] = "free_cas" => lv'[lst'[tgt'[q]].en] = cur'[q].idx
                      /\ ~InCall(q)' => lag'[q] = 0
    BY DEF Reads
  <2>1. CASE q = p
    BY <1>0, <1>7, <2>1 DEF NxtCas, InCall, InNxt, InFree, TypeOK
  <2>2. CASE q # p
    <3>1. pc'[q] = pc[q] /\ cur'[q] = cur[q] /\ tgt' = tgt /\ lv' = lv
      BY <1>0, <2>2 DEF NxtCas, TypeOK
    <3>2. pc[q] = "free_cas" => tgt[q] \in Handle /\ tgt[q] # h
      BY <1>0, <1>1, <2>2, HandleAssumption DEF Targets, InFree
    <3>3. pc[q] = "free_cas" => lst'[tgt[q]] = lst[tgt[q]]
      BY <1>0, <1>1, <1>4, <3>2 DEF TypeOK
    <3> QED BY <1>0, <1>7, <2>2, <3>1, <3>3
            DEF Reads, InCall, InNxt, InFree, VersionGap
  <2> QED BY <2>1, <2>2
<1> QED BY <1>1, <1>3, <1>4, <1>4a, <1>5, <1>8, <1>9, <1>10, <1>10a, <1>11, <1>12, <1>13
        DEF ListInv

(* free() puts its blocks in front of the free ones.                       *)
LEMMA FreeCasListInv ==
  ASSUME ListInv, NEW p \in Proc, FreeCas(p)
  PROVE  /\ ListInv'
         /\ tgt[p] \in Handle
         /\ lst[tgt[p]].mem # {}
         /\ lst' = [lst EXCEPT ![tgt[p]] = EmptyList]
         /\ FreeIdx' = FreeIdx \union {lst[tgt[p]].st, lst[tgt[p]].en}
         /\ lst[tgt[p]].st \in Idx /\ lst[tgt[p]].en \in Idx
         /\ Linked(lst[tgt[p]]) /\ lv[lst[tgt[p]].en] = head.idx
         /\ head'.idx = lst[tgt[p]].st /\ lv' = lv
<1>0. TypeOK /\ Shape /\ Exclusive /\ Targets /\ Links /\ Reads
  BY DEF ListInv
<1> DEFINE h == tgt[p]
           a == lst[h].st
           b == lst[h].en
<1>1. h \in Handle /\ lst[h] # EmptyList /\ Linked(lst[h])
  BY <1>0 DEF FreeCas, Targets, InFree
<1>2. a \in Idx /\ b \in Idx /\ lst[h].mem = {a, b}
  BY <1>0, <1>1 DEF Shape
<1>3. a # b => lv[a] = b
  BY <1>1 DEF Linked
<1>4. cur[p] = head /\ lv[b] = head.idx
  BY <1>0 DEF FreeCas, Reads, HeadIsCur
<1>5. lst' = [lst EXCEPT ![h] = EmptyList]
  BY DEF FreeCas
<1>6. a \notin FreeIdx /\ b \notin FreeIdx /\ FreeIdx' = FreeIdx \union {a, b}
  <2>1. \A g \in Handle : g # h => lst'[g] = lst[g] /\ a \notin lst[g].mem /\ b \notin lst[g].mem
    BY <1>0, <1>1, <1>2, <1>5 DEF TypeOK, Exclusive
  <2>2. lst'[h].mem = {}
    BY <1>0, <1>1, <1>5 DEF TypeOK, EmptyList
  <2> QED BY <1>1, <1>2, <2>1, <2>2 DEF FreeIdx
<1>7. /\ SetHead(p, [ver |-> freeVersion(head.ver), idx |-> a])
      /\ head' = [ver |-> freeVersion(head.ver), idx |-> a]
  BY <1>4 DEF FreeCas, SetHead
<1>8. /\ freeVersion(head.ver) \in 0 .. VerMax
      /\ lag' \in [Proc -> 0 .. MaxLag]
      /\ \A q \in Proc : q # p /\ InCall(q) =>
              /\ lag'[q] # 0
              /\ head'.ver \in {cur[q].ver + lag'[q],
                              cur[q].ver + lag'[q] - VerMax,
                              cur[q].ver + lag'[q] - (VerMax + 1)}
      /\ \A q \in Proc : q = p \/ ~InCall(q) => lag'[q] = 0
  BY <1>7, ExchangeLeavesBehind
<1>9. TypeOK'
  <2>1. "idle" \in Pcs /\ NoHead \in Heads
    BY VersionAssumption DEF Pcs, NoHead, Heads
  <2>2. EmptyList \in Lists
    BY ChainAssumption DEF EmptyList, Lists
  <2>3. head' \in Heads
    BY <1>2, <1>7, <1>8 DEF Heads
  <2> QED BY <1>0, <1>1, <1>5, <1>8, <2>1, <2>2, <2>3 DEF TypeOK, FreeCas
<1>10. Shape'
  BY <1>0, <1>1, <1>5 DEF Shape, TypeOK
<1>11. Exclusive'
  <2>1. \A g \in Handle : g # h => lst'[g] = lst[g]
    BY <1>0, <1>1, <1>5 DEF TypeOK
  <2>2. lst'[h].mem = {}
    BY <1>0, <1>1, <1>5 DEF TypeOK, EmptyList
  <2> QED BY <1>0, <2>1, <2>2 DEF Exclusive
<1>11a. lv' = lv /\ head'.idx = a
  BY <1>7 DEF FreeCas
<1>12. Links'
  <2>2. a # LIST_END /\ b # LIST_END
    BY <1>2, EndAssumption
  <2>3. \A i \in FreeIdx : lv[i] # a /\ lv[i] # b
    BY <1>0, <1>6, <2>2 DEF Links
  <2>4. lv[b] # a /\ lv[b] # b /\ lv[b] \in FreeIdx \union {LIST_END}
    BY <1>0, <1>4, <1>6, <2>2 DEF Links
  <2>5. \A i \in FreeIdx : lv[i] = lv[b] => lv[i] = LIST_END
    BY <1>0, <1>4 DEF Links
  <2>6. CASE a = b
    BY <1>0, <1>6, <1>11a, <2>3, <2>4, <2>5, <2>6 DEF Links
  <2>7. CASE a # b
    <3>1. lv[a] = b
      BY <1>3, <2>7
    <3> DEFINE F == FreeIdx \union {a, b}
    <3>2. \A i \in F : lv[i] \in F \union {LIST_END}
      BY <1>0, <2>4, <3>1 DEF Links
    <3>3. \A i \in F : lv[i] # a
      BY <2>3, <2>4, <2>7, <3>1
    <3>4. \A i, j \in F : i # j /\ lv[i] = lv[j] => lv[i] = LIST_END
      BY <1>0, <2>3, <2>4, <2>5, <3>1 DEF Links
    <3> QED BY <1>6, <1>11a, <3>2, <3>3, <3>4 DEF Links
  <2> QED BY <2>6, <2>7
<1>13. Targets'
  <2>1. /\ tgt' = [tgt EXCEPT ![p] = NoHandle] /\ pc' = [pc EXCEPT ![p] = "idle"]
        /\ lv' = lv
    BY DEF FreeCas
  <2>2. \A q \in Proc : q # p /\ tgt[q] \in Handle => lst'[tgt[q]] = lst[tgt[q]]
    BY <1>0, <1>1, <1>5, HandleAssumption DEF Targets, TypeOK
  <2> QED BY <1>0, <2>1, <2>2 DEF Targets, InNxt, InFree, Linked, TypeOK
<1>14. Reads'
  <2> SUFFICES ASSUME NEW q \in Proc
               PROVE  /\ InCall(q)' => VersionGap(q)'
                      /\ InCall(q)' /\ lag'[q] = 0 => cur'[q] = head'
                      /\ InNxt(q)' => cur'[q].idx \in Idx
                      /\ pc'[q] = "nxt_cas" /\ lag'[q] = 0 => nidx'[q] = lv'[cur'[q].idx]
                      /\ pc'[q] = "free_cas" => lv'[lst'[tgt'[q]].en] = cur'[q].idx
                      /\ ~InCall(q)' => lag'[q] = 0
    BY DEF Reads
  <2>1. CASE q = p
    BY <1>0, <1>8, <2>1 DEF FreeCas, InCall, InNxt, InFree, TypeOK
  <2>2. CASE q # p
    <3>1. pc'[q] = pc[q] /\ cur'[q] = cur[q] /\ tgt'[q] = tgt[q] /\ lv' = lv
      BY <1>0, <2>2 DEF FreeCas, TypeOK
    <3>2. pc[q] = "free_cas" => tgt[q] \in Handle /\ tgt[q] # h
      BY <1>0, <1>1, <2>2, HandleAssumption DEF Targets, InFree
    <3>3. pc[q] = "free_cas" => lst'[tgt[q]] = lst[tgt[q]]
      BY <1>0, <1>1, <1>5, <3>2 DEF TypeOK
    <3> QED BY <1>0, <1>8, <2>2, <3>1, <3>3
            DEF Reads, InCall, InNxt, InFree, VersionGap
  <2> QED BY <2>1, <2>2
<1> QED BY <1>1, <1>2, <1>4, <1>5, <1>6, <1>9, <1>10, <1>11, <1>11a, <1>12, <1>13, <1>14
        DEF ListInv

------------------------------------------------------------------------------

(* nxt() is entered or retries, for a list of its own that is not complete. *)
LEMMA NxtReadsListInv ==
  ASSUME ListInv, NEW p \in Proc,
         NxtMore(p) \/ NxtRetry(p) \/ \E h \in Handle : NxtFirst(p, h)
  PROVE  /\ ListInv'
         /\ \A g \in Handle : lst'[g].mem = lst[g].mem
<1>1. CASE NxtMore(p) \/ NxtRetry(p)
  <2>1. /\ NxtSees(p, tgt[p]) /\ tgt[p] \in Handle /\ lst[tgt[p]].len < MaxChain
        /\ \A q \in Proc : q # p => tgt[q] # tgt[p]
    BY <1>1, HandleAssumption DEF NxtMore, NxtRetry, ListInv, Targets, InNxt
  <2> QED BY <2>1, SeesListInv
<1>2. ASSUME NEW h \in Handle, NxtFirst(p, h)
      PROVE  /\ ListInv'
             /\ \A g \in Handle : lst'[g].mem = lst[g].mem
  <2>1. NxtSees(p, h) /\ lst[h].len < MaxChain /\ \A q \in Proc : q # p => tgt[q] # h
    BY <1>2, ChainAssumption DEF NxtFirst, Untargeted, EmptyList
  <2> QED BY <2>1, SeesListInv
<1> QED BY <1>1, <1>2

(* Every step of every thread preserves the invariant.                     *)
LEMMA NextListInv ==
  ASSUME MaxChain = 1 \/ ~Interleaved, ListInv, [Next]_vars
  PROVE  ListInv'
<1>1. CASE UNCHANGED vars
  BY <1>1 DEF vars, ListInv, TypeOK, Shape, Exclusive, Targets, Links, Reads,
              Linked, FreeIdx, InCall, InNxt, InFree, VersionGap
<1>2. ASSUME NEW p \in Proc, NEW h \in Handle, FreeLoad(p, h)
      PROVE  ListInv'
  BY <1>2, FreeLoadListInv
<1>3. ASSUME NEW p \in Proc, Step(p) \/ NxtMore(p) \/ \E h \in Handle : NxtFirst(p, h)
      PROVE  ListInv'
  BY <1>3, NxtReadsListInv, NxtLinkListInv, NxtCasListInv, AllocDoneListInv,
     FreeLinkListInv, FreeCasListInv, FreeRetryListInv DEF Step
<1> QED BY <1>1, <1>2, <1>3 DEF Next

(* What is free hangs together and what a thread remembers is current or   *)
(* recognisably stale, whatever the interleaving of nxt() and free().      *)
THEOREM ListInvariant ==
  ASSUME MaxChain = 1 \/ ~Interleaved
  PROVE  Spec => []ListInv
<1>1. Init => ListInv
  BY InitListInv
<1>2. ListInv /\ [Next]_vars => ListInv'
  BY NextListInv
<1> QED BY <1>1, <1>2, PTL DEF Spec

(* Versions stay within their width and indices within the list, although  *)
(* nxt() and free() count and link without looking.                        *)
THEOREM ListTypeCorrect ==
  ASSUME MaxChain = 1 \/ ~Interleaved
  PROVE  Spec => []TypeOK
<1>1. ListInv => TypeOK
  BY DEF ListInv
<1> QED BY <1>1, ListInvariant, PTL

(* nxt() never hands out an index that a list holds (simdb.hpp:552).       *)
THEOREM NeverSharedBlock ==
  ASSUME MaxChain = 1 \/ ~Interleaved
  PROVE  Spec => []Exclusive
<1>1. ListInv => Exclusive
  BY DEF ListInv
<1> QED BY <1>1, ListInvariant, PTL

(* The lock-free list implements the atomic pool of indices.               *)
THEOREM ImplementsPool ==
  ASSUME MaxChain = 1 \/ ~Interleaved
  PROVE  Spec => PoolSpec
<1> DEFINE taken == [h \in Handle |-> lst[h].mem]
<1>1. Init => Pool!Init
  BY DEF Init, Pool!Init, EmptyList
<1>2. ListInv /\ [Next]_vars => [Pool!Next]_taken
  <2> SUFFICES ASSUME ListInv, [Next]_vars
               PROVE  [Pool!Next]_taken
    OBVIOUS
  <2>1. ASSUME NEW p \in Proc, NxtCas(p)
        PROVE  \E h \in Handle, i \in Idx : Pool!Take(h, i)
    <3> DEFINE h == tgt[p]
               b == head.idx
    <3>1. /\ h \in Handle /\ b \in FreeIdx /\ b \in Idx
          /\ lst' = [lst EXCEPT ![h] = Grow(lst[h], b)]
          /\ Grow(lst[h], b).mem = lst[h].mem \union {b}
      BY <2>1, NxtCasListInv DEF FreeIdx
    <3>2. taken' = [taken EXCEPT ![h] = taken[h] \union {b}]
      BY <3>1 DEF ListInv, TypeOK
    <3>3. Pool!Take(h, b)
      BY <3>1, <3>2 DEF Pool!Take, FreeIdx
    <3> QED BY <3>1, <3>3 DEF Pool!Take
  <2>2. ASSUME NEW p \in Proc, FreeCas(p)
        PROVE  \E h \in Handle : Pool!GiveBack(h)
    <3> DEFINE h == tgt[p]
    <3>1. /\ h \in Handle /\ lst[h].mem # {}
          /\ lst' = [lst EXCEPT ![h] = EmptyList]
      BY <2>2, FreeCasListInv
    <3>2. taken' = [taken EXCEPT ![h] = {}]
      BY <3>1 DEF ListInv, TypeOK, EmptyList
    <3>3. Pool!GiveBack(h)
      BY <3>1, <3>2 DEF Pool!GiveBack
    <3> QED BY <3>1, <3>3 DEF Pool!GiveBack
  <2>3. ASSUME \A g \in Handle : lst'[g].mem = lst[g].mem
        PROVE  UNCHANGED taken
    BY <2>3
  <2>4. ASSUME NEW p \in Proc, NxtMore(p) \/ NxtRetry(p) \/ \E h \in Handle : NxtFirst(p, h)
        PROVE  UNCHANGED taken
    BY <2>3, <2>4, NxtReadsListInv
  <2>5. ASSUME NEW p \in Proc,
               \/ NxtLink(p) \/ AllocDone(p) \/ FreeLink(p) \/ FreeRetry(p)
               \/ \E h \in Handle : FreeLoad(p, h)
        PROVE  UNCHANGED taken
    BY <2>3, <2>5 DEF NxtLink, AllocDone, FreeLink, FreeRetry, FreeLoad
  <2>6. CASE UNCHANGED vars
    BY <2>3, <2>6 DEF vars
  <2> QED BY <2>1, <2>2, <2>4, <2>5, <2>6 DEF Next, Step, Pool!Next
<1> QED BY <1>1, <1>2, ListInvariant, PTL DEF Spec, PoolSpec, Pool!Spec

------------------------------------------------------------------------------
(* Nothing is lost.  The walk of lnkCnt() is compared with what is free.   *)

(* A set of numbers that is not empty has a least one.                     *)
LEMMA FirstNat ==
  ASSUME NEW T, T \subseteq Nat, T # {}
  PROVE  \E n \in T : \A m \in T : ~(m < n)
<1>1. PICK n \in T : \A m \in T : ~(<<m, n>> \in OpToRel(<, Nat))
  BY WFMin, NatLessThanWellFounded
<1>2. \A m \in T : m < n => <<m, n>> \in OpToRel(<, Nat)
  BY DEF OpToRel
<1> QED BY <1>1, <1>2

(* What holds of 0 and passes from a number to the next holds up to Size.  *)
LEMMA UpToSize ==
  ASSUME NEW S, 0 \in S, \A n \in 0 .. Size - 1 : n \in S => n + 1 \in S
  PROVE  \A n \in 0 .. Size : n \in S
<1> DEFINE T == (0 .. Size) \ S
<1> SUFFICES ASSUME T # {} PROVE FALSE
  OBVIOUS
<1>1. T \subseteq Nat
  BY SizeAssumption
<1>2. PICK n \in T : \A m \in T : ~(m < n)
  <2> HIDE DEF T
  <2> QED BY <1>1, FirstNat
<1>3. n # 0 /\ n \in 0 .. Size /\ n - 1 \in 0 .. Size - 1
  BY SizeAssumption
<1>4. n - 1 \in S
  BY <1>2, <1>3, SizeAssumption
<1> QED BY <1>3, <1>4, SizeAssumption

(* Where lnkCnt() starts, and what one more link adds to what it visited.  *)
From == {head.idx} \ {LIST_END}
Onward(v) == v \union ({lv[i] : i \in v} \ {LIST_END})

(* The recursive description of the walk has a solution, and so describes  *)
(* it: a walk of m links extends to one of m + 1.                          *)
LEMMA VisitedIs ==
  ASSUME head.idx \in Idx \union {LIST_END}, lv \in [Idx -> Idx \union {LIST_END}]
  PROVE  /\ Visited \in [0 .. Size -> SUBSET Idx]
         /\ Visited[0] = From
         /\ \A n \in 0 .. Size - 1 : Visited[n + 1] = Onward(Visited[n])
<1> DEFINE Walks(m) == {g \in [0 .. m -> SUBSET Idx] :
                         /\ g[0] = From
                         /\ \A k \in 0 .. m - 1 : g[k + 1] = Onward(g[k])}
           S == {m \in 0 .. Size : Walks(m) # {}}
           F(f) == [n \in 0 .. Size |-> IF n = 0 THEN From ELSE Onward(f[n - 1])]
<1>1. From \in SUBSET Idx /\ \A v \in SUBSET Idx : Onward(v) \in SUBSET Idx
  BY DEF From, Onward
<1>2. 0 \in S
  <2>1. [k \in 0 .. 0 |-> From] \in Walks(0)
    BY <1>1
  <2> QED BY <2>1, SizeAssumption
<1>3. ASSUME NEW m \in 0 .. Size - 1, m \in S
      PROVE  m + 1 \in S
  <2>1. PICK g : g \in Walks(m)
    BY <1>3
  <2> DEFINE e == [k \in 0 .. m + 1 |-> IF k = m + 1 THEN Onward(g[m]) ELSE g[k]]
  <2>2. m \in Nat /\ m + 1 \in 0 .. Size
    BY SizeAssumption
  <2>3. e \in [0 .. m + 1 -> SUBSET Idx]
    BY <1>1, <2>1, <2>2
  <2>4. e[0] = From
    BY <2>1, <2>2
  <2>5. ASSUME NEW k \in 0 .. m
        PROVE  e[k + 1] = Onward(e[k])
    <3>1. CASE k = m
      BY <2>2, <3>1
    <3>2. CASE k # m
      BY <2>1, <2>2, <3>2
    <3> QED BY <3>1, <3>2
  <2>6. e \in Walks(m + 1)
    <3>1. (m + 1) - 1 = m
      BY <2>2
    <3> HIDE DEF e
    <3> QED BY <2>3, <2>4, <2>5, <3>1
  <2> QED BY <2>2, <2>6
<1>4. Size \in S
  <2> HIDE DEF S
  <2> QED BY <1>2, <1>3, UpToSize, SizeAssumption
<1>5. PICK g : g \in Walks(Size)
  BY <1>4
<1>6. g = F(g)
  <2>1. ASSUME NEW n \in 0 .. Size, n # 0
        PROVE  g[n] = Onward(g[n - 1])
    <3>1. n - 1 \in 0 .. Size - 1 /\ (n - 1) + 1 = n
      BY <2>1, SizeAssumption
    <3> QED BY <1>5, <3>1
  <2>2. g = [n \in 0 .. Size |-> g[n]] /\ g[0] = From
    BY <1>5
  <2> QED BY <2>1, <2>2
<1>7. Visited = F(Visited)
  <2>1. Visited = CHOOSE f : f = F(f)
    BY DEF Visited, From, Onward
  <2> HIDE DEF F
  <2> QED BY <1>6, <2>1, Zenon
<1>8. ASSUME NEW n \in 0 .. Size - 1
      PROVE  Visited[n + 1] = Onward(Visited[n])
  <2>1. n + 1 \in 0 .. Size /\ n + 1 # 0 /\ (n + 1) - 1 = n
    BY SizeAssumption
  <2> QED BY <1>7, <2>1
<1>9. Visited[0] = From
  BY <1>7, SizeAssumption
<1>10. \A n \in 0 .. Size : Visited[n] \in SUBSET Idx
  <2> DEFINE D == {n \in 0 .. Size : Visited[n] \in SUBSET Idx}
  <2>1. 0 \in D
    BY <1>1, <1>9, SizeAssumption
  <2>2. ASSUME NEW n \in 0 .. Size - 1, n \in D
        PROVE  n + 1 \in D
    <3>1. n + 1 \in 0 .. Size
      BY SizeAssumption
    <3> QED BY <1>1, <1>8, <2>2, <3>1
  <2>3. \A n \in 0 .. Size : n \in D
    <3> HIDE DEF D
    <3> QED BY <2>1, <2>2, UpToSize
  <2> QED BY <2>3
<1>11. Visited = [n \in 0 .. Size |-> Visited[n]]
  BY <1>7
<1> QED BY <1>8, <1>9, <1>10, <1>11

(* A set of indices that the links do not lead out of.                     *)
Closed(v) == \A i \in v : lv[i] \in v \union {LIST_END}

(* The walk ends: every link either leads to an index not visited before,  *)
(* of which there are Size, or the links do not lead out of the visited    *)
(* ones any more.                                                          *)
LEMMA WalkCloses ==
  ASSUME head.idx \in Idx \union {LIST_END}, lv \in [Idx -> Idx \union {LIST_END}]
  PROVE  Walk \in SUBSET Idx /\ head.idx \in Walk \union {LIST_END} /\ Closed(Walk)
<1> DEFINE S == {n \in 0 .. Size : Closed(Visited[n]) \/ Cardinality(Visited[n]) > n}
<1>0. /\ Visited \in [0 .. Size -> SUBSET Idx]
      /\ Visited[0] = From
      /\ \A n \in 0 .. Size - 1 : Visited[n + 1] = Onward(Visited[n])
  BY VisitedIs
<1>1. /\ IsFiniteSet(Idx) /\ Cardinality(Idx) = Size
  BY FS_Interval, SizeAssumption DEF Idx
<1>2. ASSUME NEW v \in SUBSET Idx
      PROVE  IsFiniteSet(v) /\ Cardinality(v) \in Nat /\ Cardinality(v) <= Size
  BY <1>1, FS_Subset, FS_CardinalityType
<1>3. 0 \in S
  <2>1. CASE head.idx = LIST_END
    <3>1. Visited[0] = {}
      BY <1>0, <2>1 DEF From
    <3> QED BY <3>1, SizeAssumption DEF Closed
  <2>2. CASE head.idx # LIST_END
    <3>1. Visited[0] = {head.idx}
      BY <1>0, <2>2 DEF From
    <3>2. Cardinality(Visited[0]) = 1
      BY <3>1, FS_Singleton
    <3> QED BY <3>2, SizeAssumption
  <2> QED BY <2>1, <2>2
<1>4. ASSUME NEW n \in 0 .. Size - 1, n \in S
      PROVE  n + 1 \in S
  <2> DEFINE v == Visited[n]
             w == Visited[n + 1]
  <2>1. n + 1 \in 0 .. Size /\ n \in 0 .. Size /\ n \in Nat
    BY SizeAssumption
  <2>2. w = Onward(v) /\ v \in SUBSET Idx /\ w \in SUBSET Idx
    BY <1>0, <2>1
  <2>3. CASE Closed(v)
    <3>1. w = v
      BY <2>2, <2>3 DEF Onward, Closed
    <3> QED BY <2>1, <2>3, <3>1
  <2>4. CASE ~Closed(v)
    <3>1. v \subseteq w /\ v # w
      BY <2>2, <2>4 DEF Onward, Closed
    <3>2. IsFiniteSet(w) /\ Cardinality(w) \in Nat /\ Cardinality(v) \in Nat
      BY <1>2, <2>2
    <3>3. Cardinality(v) <= Cardinality(w) /\ Cardinality(w) # Cardinality(v)
      BY <3>1, <3>2, FS_Subset
    <3>4. Cardinality(v) > n
      BY <1>4, <2>4
    <3>5. Cardinality(w) > n + 1
      BY <2>1, <3>2, <3>3, <3>4
    <3> QED BY <2>1, <3>5
  <2> QED BY <2>3, <2>4
<1>5. Size \in S
  <2> HIDE DEF S
  <2> QED BY <1>3, <1>4, UpToSize, SizeAssumption
<1>6. Walk \in SUBSET Idx /\ Closed(Walk)
  <2>1. Walk \in SUBSET Idx
    BY <1>0, SizeAssumption DEF Walk
  <2>2. ~(Cardinality(Walk) > Size)
    BY <1>2, <2>1, SizeAssumption
  <2> QED BY <1>5, <2>1, <2>2 DEF Walk
<1>7. head.idx \in Walk \union {LIST_END}
  <2> DEFINE D == {n \in 0 .. Size : From \subseteq Visited[n]}
  <2>1. 0 \in D
    BY <1>0, SizeAssumption
  <2>2. ASSUME NEW n \in 0 .. Size - 1, n \in D
        PROVE  n + 1 \in D
    <3>1. n + 1 \in 0 .. Size
      BY SizeAssumption
    <3>2. Visited[n + 1] = Onward(Visited[n])
      BY <1>0
    <3> QED BY <2>2, <3>1, <3>2 DEF Onward
  <2>3. Size \in D
    <3> HIDE DEF D
    <3> QED BY <2>1, <2>2, UpToSize, SizeAssumption
  <2> QED BY <2>3 DEF From, Walk
<1> QED BY <1>6, <1>7

(* The walk stays in every set that holds the head and that the links do   *)
(* not lead out of.                                                        *)
LEMMA WalkStays ==
  ASSUME head.idx \in Idx \union {LIST_END}, lv \in [Idx -> Idx \union {LIST_END}],
         NEW v \in SUBSET Idx, head.idx \in v \union {LIST_END}, Closed(v)
  PROVE  Walk \subseteq v
<1> DEFINE S == {n \in 0 .. Size : Visited[n] \subseteq v}
<1>0. /\ Visited \in [0 .. Size -> SUBSET Idx]
      /\ Visited[0] = From
      /\ \A n \in 0 .. Size - 1 : Visited[n + 1] = Onward(Visited[n])
  BY VisitedIs
<1>1. 0 \in S
  BY <1>0, SizeAssumption DEF From
<1>2. ASSUME NEW n \in 0 .. Size - 1, n \in S
      PROVE  n + 1 \in S
  <2>1. n + 1 \in 0 .. Size
    BY SizeAssumption
  <2>2. Visited[n + 1] = Onward(Visited[n]) /\ Visited[n] \subseteq v
    BY <1>0, <1>2
  <2>3. Onward(Visited[n]) \subseteq v
    BY <2>2 DEF Onward, Closed
  <2> QED BY <2>1, <2>2, <2>3
<1>3. Size \in S
  <2> HIDE DEF S
  <2> QED BY <1>1, <1>2, UpToSize, SizeAssumption
<1> QED BY <1>3 DEF Walk

(* Whatever holds the head and is not left by the links has all that is    *)
(* free: there is no free index, and no circle of them, off the list.      *)
Reached ==
  \A v \in SUBSET Idx :
    head.idx \in v \union {LIST_END} /\ Closed(v) => FreeIdx \subseteq v

(* In the invariant, this says that the walk visits what is free.          *)
LEMMA ReachedMeans ==
  ASSUME ListInv, Reached
  PROVE  NothingLost
<1>1. head.idx \in Idx \union {LIST_END} /\ lv \in [Idx -> Idx \union {LIST_END}]
  BY DEF ListInv, TypeOK, Heads
<1>2. FreeIdx \subseteq Walk
  BY <1>1, WalkCloses DEF Reached
<1>3. FreeIdx \in SUBSET Idx
  BY DEF FreeIdx
<1>4. head.idx \in FreeIdx \union {LIST_END} /\ Closed(FreeIdx)
  BY DEF ListInv, Links, Closed
<1>5. Walk \subseteq FreeIdx
  BY <1>1, <1>3, <1>4, WalkStays
<1> QED BY <1>2, <1>5 DEF NothingLost

(* The constructor links every index to the next.                          *)
LEMMA InitReached == Init => Reached
<1> SUFFICES ASSUME Init, NEW v \in SUBSET Idx,
                    head.idx \in v \union {LIST_END}, Closed(v)
             PROVE  Idx \subseteq v
  BY DEF Reached, FreeIdx
<1> DEFINE S == v \union {Size}
<1>1. 0 \in S
  BY SizeAssumption, EndAssumption DEF Init, Idx
<1>2. ASSUME NEW n \in 0 .. Size - 1, n \in S
      PROVE  n + 1 \in S
  <2>1. n \in v
    BY <1>2, SizeAssumption
  <2>2. CASE n = Size - 1
    BY <2>2, SizeAssumption
  <2>3. CASE n # Size - 1
    <3>1. n \in Idx /\ n + 1 \in Idx
      BY <2>3, SizeAssumption DEF Idx
    <3>2. lv[n] = n + 1
      BY <2>3, <3>1 DEF Init
    <3> QED BY <2>1, <3>1, <3>2, EndAssumption DEF Closed
  <2> QED BY <2>2, <2>3
<1>3. \A n \in 0 .. Size : n \in S
  <2> HIDE DEF S
  <2> QED BY <1>1, <1>2, UpToSize
<1> QED BY <1>3, SizeAssumption DEF Idx

(* nxt() takes the first index off: what holds the rest, and the index, is *)
(* what held the list before.                                              *)
LEMMA NxtCasReached ==
  ASSUME ListInv, Reached, NEW p \in Proc, NxtCas(p)
  PROVE  Reached'
<1> SUFFICES ASSUME NEW v \in SUBSET Idx, head'.idx \in v \union {LIST_END},
                    \A i \in v : lv'[i] \in v \union {LIST_END}
             PROVE  FreeIdx' \subseteq v
  BY DEF Reached, Closed
<1>1. /\ head.idx \in FreeIdx /\ FreeIdx' = FreeIdx \ {head.idx}
      /\ head'.idx = lv[head.idx] /\ lv' = lv
  BY NxtCasListInv
<1> DEFINE w == v \union {head.idx}
<1>2. w \in SUBSET Idx /\ head.idx \in w
  BY <1>1 DEF FreeIdx
<1>3. Closed(w)
  BY <1>1 DEF Closed
<1>4. FreeIdx \subseteq w
  <2> HIDE DEF w
  <2> QED BY <1>2, <1>3 DEF Reached
<1> QED BY <1>1, <1>4

(* free() puts its chain in front: what holds its first block is led to    *)
(* the last, and from there to the head of before.                         *)
LEMMA FreeCasReached ==
  ASSUME ListInv, Reached, NEW p \in Proc, FreeCas(p)
  PROVE  Reached'
<1> SUFFICES ASSUME NEW v \in SUBSET Idx, head'.idx \in v \union {LIST_END},
                    \A i \in v : lv'[i] \in v \union {LIST_END}
             PROVE  FreeIdx' \subseteq v
  BY DEF Reached, Closed
<1> DEFINE a == lst[tgt[p]].st
           b == lst[tgt[p]].en
<1>1. /\ FreeIdx' = FreeIdx \union {a, b} /\ a \in Idx /\ b \in Idx
      /\ Linked(lst[tgt[p]]) /\ lv[b] = head.idx
      /\ head'.idx = a /\ lv' = lv
  BY FreeCasListInv
<1>2. a \in v /\ b \in v
  BY <1>1, EndAssumption DEF Linked
<1>3. head.idx \in v \union {LIST_END} /\ Closed(v)
  BY <1>1, <1>2 DEF Closed
<1>4. FreeIdx \subseteq v
  BY <1>3 DEF Reached
<1> QED BY <1>1, <1>2, <1>4

(* free() writes the link of a block that is not free: of what holds the   *)
(* head, the free part was held, and not left, before the write as well.   *)
LEMMA FreeLinkReached ==
  ASSUME ListInv, Reached, NEW p \in Proc, FreeLink(p)
  PROVE  Reached'
<1> SUFFICES ASSUME NEW v \in SUBSET Idx, head'.idx \in v \union {LIST_END},
                    \A i \in v : lv'[i] \in v \union {LIST_END}
             PROVE  FreeIdx' \subseteq v
  BY DEF Reached, Closed
<1>1. /\ FreeIdx' = FreeIdx /\ head' = head
      /\ \A i \in FreeIdx : lv'[i] = lv[i]
  BY FreeLinkListInv
<1>2. /\ head.idx \in FreeIdx \union {LIST_END}
      /\ \A i \in FreeIdx : lv[i] \in FreeIdx \union {LIST_END}
  BY DEF ListInv, Links
<1> DEFINE w == v \intersect FreeIdx
<1>3. w \in SUBSET Idx /\ head.idx \in w \union {LIST_END} /\ Closed(w)
  BY <1>1, <1>2 DEF Closed
<1>4. FreeIdx \subseteq w
  <2> HIDE DEF w
  <2> QED BY <1>3 DEF Reached
<1> QED BY <1>1, <1>4

(* The other steps write neither the head nor a link, and move no block    *)
(* between the lists.                                                      *)
LEMMA OthersReached ==
  ASSUME Reached, head' = head, lv' = lv,
         \A g \in Handle : lst'[g].mem = lst[g].mem
  PROVE  Reached'
<1>1. FreeIdx' = FreeIdx
  BY DEF FreeIdx
<1> QED BY <1>1 DEF Reached, Closed

(* Every step of every thread keeps the free indices on the list.          *)
LEMMA NextReached ==
  ASSUME ListInv, Reached, [Next]_vars
  PROVE  Reached'
<1>1. CASE UNCHANGED vars
  BY <1>1, OthersReached DEF vars
<1>2. ASSUME NEW p \in Proc, NxtMore(p) \/ NxtRetry(p) \/ \E h \in Handle : NxtFirst(p, h)
      PROVE  Reached'
  <2>1. \A g \in Handle : lst'[g].mem = lst[g].mem
    BY <1>2, NxtReadsListInv
  <2>2. head' = head /\ lv' = lv
    BY <1>2 DEF NxtMore, NxtRetry, NxtFirst, NxtSees
  <2> QED BY <2>1, <2>2, OthersReached
<1>3. ASSUME NEW p \in Proc,
             \/ NxtLink(p) \/ AllocDone(p) \/ FreeRetry(p)
             \/ \E h \in Handle : FreeLoad(p, h)
      PROVE  Reached'
  BY <1>3, OthersReached DEF NxtLink, AllocDone, FreeRetry, FreeLoad
<1>4. ASSUME NEW p \in Proc, NxtCas(p) \/ FreeCas(p) \/ FreeLink(p)
      PROVE  Reached'
  BY <1>4, NxtCasReached, FreeCasReached, FreeLinkReached
<1> QED BY <1>1, <1>2, <1>3, <1>4 DEF Next, Step

(* lnkCnt() visits exactly the indices that no list holds, in the middle   *)
(* of any number of nxt() and free() calls: no index is lost, and nxt()    *)
(* finds the list empty only when every index is in some list.             *)
THEOREM NothingIsLost ==
  ASSUME MaxChain = 1 \/ ~Interleaved
  PROVE  Spec => []NothingLost
<1>1. Init => Reached
  BY InitReached
<1>2. ListInv /\ Reached /\ [Next]_vars => Reached'
  BY NextReached
<1>3. ListInv /\ Reached => NothingLost
  BY ReachedMeans
<1> QED BY <1>1, <1>2, <1>3, ListInvariant, PTL DEF Spec
=============================================================================
