---------------------------- MODULE CncrStrProofs ----------------------------
(***************************************************************************)
(* Proofs about the concurrent store, for any number of blocks, threads    *)
(* and versions and any width of the reader count.                         *)
(***************************************************************************)
EXTENDS CncrStr, FiniteSetTheorems, TLAPS

InInc(p) == pc[p] \in {"inc_load", "inc_check", "inc_cas"}
InDec(p) == pc[p] \in {"dec_load", "dec_check", "dec_cas"}
Reads(p) == op[p] \in {"cmp", "get", "readBlock"}
Deleting(p) == op[p] = "del" /\ InDec(p)
Numbered(p) == pc[p] \in {"init", "mark", "clear", "write", "publish"}
Uses(p) == Allocating(p) \/ Freeing(p) \/ Deleting(p)
Matches(p) == pc[p] # "idle" /\ Bl(p).version = at[p].version

(* How often a call has counted itself where it stands.                    *)
Added(p) ==
  IF op[p] = "readBlock" THEN IF InInc(p) THEN 1 ELSE 2
  ELSE IF op[p] \in {"cmp", "get"} /\ (InDec(p) \/ pc[p] \in {"found", "copy"}) THEN 1 ELSE 0

(* Which calls come to which place.                                        *)
Flow(p) ==
  /\ pc[p] = "idle" <=> op[p] = "none"
  /\ Allocating(p) <=> op[p] = "put"
  /\ InInc(p) => Reads(p)
  /\ pc[p] = "found" => op[p] = "get"
  /\ pc[p] = "copy" => op[p] \in {"cmp", "readBlock"}
  /\ Freeing(p) => op[p] # "readBlock"
  /\ op[p] = "del" => Freeing(p) \/ InDec(p)
  /\ pc[p] # "idle" => at[p] \in VerIdx
  /\ pc[p] = "idle" => at[p] = NoVi
  /\ pc[p] \notin {"idle", "ver"} => at[p].version > 0
  /\ at[p].version < sver

(* A thread is a reader of the version it asked for exactly as often as it *)
(* has counted itself, as long as the block has that version; and it gets  *)
(* past a check of the version only where that cannot change any more.     *)
Counted(p) ==
  /\ held[p] = IF Matches(p) THEN Added(p) ELSE 0
  /\ pc[p] = "dec_cas" \/ (op[p] = "readBlock" /\ pc[p] \notin {"inc_load", "inc_check"})
       => Matches(p)
  /\ pc[p] = "inc_cas" => ~kr[p].isDeleted

(* The block as the thread that allocates, deletes or frees it finds it,   *)
(* and as a reader does whose version it still has.                        *)
Finds(p) ==
  /\ pc[p] \in {"ver", "init", "give"} => Bl(p).version = 0
  /\ pc[p] \in {"mark", "clear", "write", "publish", "zero"} \/ Deleting(p) => Matches(p)
  /\ pc[p] \in {"mark", "clear", "write", "publish"} \/ Deleting(p) => ~Bl(p).kr.isDeleted
  /\ pc[p] = "publish" \/ Deleting(p) => bytes[at[p].idx] = at[p].version
  /\ pc[p] = "zero" => Bl(p).kr.isDeleted
  /\ Reads(p) /\ Matches(p) => bytes[at[p].idx] = at[p].version

(* What has been copied is of the version asked for, except by a           *)
(* comparison that is going to find that it was not.                       *)
Copied(p) ==
  /\ ~Reads(p) => copied[p] = 0
  /\ \/ copied[p] \in {0, at[p].version}
     \/ op[p] = "cmp" /\ pc[p] \in {"dec_load", "dec_check"} /\ held[p] = 0

Local == \A p \in Proc : Flow(p) /\ Counted(p) /\ Finds(p) /\ Copied(p)

(* Free blocks have no version, and what the table holds is written.       *)
Tabled ==
  /\ \A b \in pool : bls[b].version = 0
  /\ \A r \in live :
       /\ bls[r.idx].version = r.version /\ ~bls[r.idx].kr.isDeleted
       /\ bytes[r.idx] = r.version /\ 0 < r.version /\ r.version < sver

(* A block that is being allocated, deleted or freed is in nobody else's   *)
(* hands.                                                                  *)
Alone ==
  \A p \in Proc : Uses(p) =>
    /\ at[p].idx \notin pool
    /\ \A r \in live : r.idx # at[p].idx
    /\ \A q \in Proc : q # p /\ Uses(q) => at[q].idx # at[p].idx

(* Nobody has seen the version of a block that is not yet in the table.    *)
Fresh ==
  \A p \in Proc : Numbered(p) =>
    /\ \A r \in live : r.version # at[p].version
    /\ \A q \in Proc : q # p => at[q].version # at[p].version

(* A block that is being freed has no readers.                             *)
Unread ==
  \A p, q \in Proc : pc[p] = "zero" /\ held[q] > 0 => at[q].idx # at[p].idx

Apart == Alone /\ Fresh /\ Unread

StrInv == TypeOK /\ Local /\ Tabled /\ Apart /\ CountCoversHolders

------------------------------------------------------------------------------

(* The steps of one thread.                                                *)
Step(p) ==
  \/ AllocNxt(p) \/ AllocVer(p) \/ AllocInit(p) \/ AllocMark(p) \/ AllocClear(p)
  \/ PutWrite(p) \/ PutPublish(p) \/ Delete(p) \/ Lookup(p)
  \/ IncLoad(p) \/ IncRefused(p) \/ IncAccepted(p) \/ IncCas(p) \/ IncRetry(p)
  \/ GetTooLong(p) \/ GetRead(p) \/ Copy(p)
  \/ DecLoad(p) \/ DecRefused(p) \/ DecAccepted(p) \/ DecCas(p) \/ DecRetry(p)
  \/ FreeZero(p) \/ FreeGive(p)

(* Filling in the list entry of a new block changes nothing else.          *)
LEMMA FillsEntry ==
  ASSUME NEW p \in Proc, AllocInit(p) \/ AllocMark(p) \/ AllocClear(p)
  PROVE  /\ pc[p] \in {"init", "mark", "clear"}
         /\ \E next \in {"mark", "clear", "write"} : pc' = [pc EXCEPT ![p] = next]
         /\ UNCHANGED <<pool, sver, bytes, live, op, at, kr, copied, held, short>>
<1>1. CASE AllocInit(p)
  BY <1>1 DEF AllocInit, Go
<1>2. CASE AllocMark(p)
  BY <1>2 DEF AllocMark, Go
<1>3. CASE AllocClear(p)
  BY <1>3 DEF AllocClear, Go
<1> QED BY <1>1, <1>2, <1>3

(* A thread changes the local variables of no other.                       *)
LEMMA OwnVariables ==
  ASSUME TypeOK, NEW p \in Proc, Step(p), NEW q \in Proc, q # p
  PROVE  /\ pc'[q] = pc[q] /\ op'[q] = op[q] /\ at'[q] = at[q]
         /\ kr'[q] = kr[q] /\ copied'[q] = copied[q] /\ held'[q] = held[q]
<1> USE DEF TypeOK, Go, Return, AfterDec
<1>1. CASE AllocNxt(p)
  BY <1>1 DEF AllocNxt
<1>2. CASE AllocVer(p)
  BY <1>2 DEF AllocVer
<1>3. CASE AllocInit(p)
  BY <1>3 DEF AllocInit
<1>4. CASE AllocMark(p)
  BY <1>4 DEF AllocMark
<1>5. CASE PutWrite(p)
  BY <1>5 DEF PutWrite
<1>6. CASE PutPublish(p)
  BY <1>6 DEF PutPublish
<1>7. CASE Delete(p)
  BY <1>7 DEF Delete
<1>8. CASE Lookup(p)
  BY <1>8 DEF Lookup
<1>9. CASE IncLoad(p)
  BY <1>9 DEF IncLoad
<1>10. CASE IncRefused(p)
  BY <1>10 DEF IncRefused
<1>11. CASE IncAccepted(p)
  BY <1>11 DEF IncAccepted
<1>12. CASE IncCas(p)
  BY <1>12 DEF IncCas
<1>13. CASE IncRetry(p)
  BY <1>13 DEF IncRetry
<1>14. CASE GetTooLong(p)
  BY <1>14 DEF GetTooLong
<1>15. CASE GetRead(p)
  BY <1>15 DEF GetRead
<1>16. CASE Copy(p)
  BY <1>16 DEF Copy
<1>17. CASE DecLoad(p)
  BY <1>17 DEF DecLoad
<1>18. CASE DecRefused(p)
  BY <1>18 DEF DecRefused
<1>19. CASE DecAccepted(p)
  BY <1>19 DEF DecAccepted
<1>20. CASE DecCas(p)
  BY <1>20 DEF DecCas
<1>21. CASE DecRetry(p)
  BY <1>21 DEF DecRetry
<1>22. CASE FreeZero(p)
  BY <1>22 DEF FreeZero
<1>23. CASE FreeGive(p)
  BY <1>23 DEF FreeGive
<1>24. CASE AllocClear(p)
  BY <1>24 DEF AllocClear
<1> QED BY <1>1, <1>2, <1>3, <1>4, <1>5, <1>6, <1>7, <1>8, <1>9, <1>10, <1>11,
           <1>12, <1>13, <1>14, <1>15, <1>16, <1>17, <1>18, <1>19, <1>20, <1>21, <1>22, <1>23,
           <1>24 DEF Step

------------------------------------------------------------------------------

(* Threads are finitely many, and so are the holders of a block.           *)
LEMMA FiniteHolders ==
  ASSUME NEW b
  PROVE  IsFiniteSet(Holders(b)) /\ Cardinality(Holders(b)) \in Nat
<1>1. IsFiniteSet({1, 2})
  <2>1. 1 \in Int /\ 2 \in Int /\ {1, 2} = 1 .. 2
    OBVIOUS
  <2>2. IsFiniteSet(1 .. 2)
    BY <2>1, FS_Interval
  <2> QED BY <2>1, <2>2
<1>2. IsFiniteSet(Proc \X {1, 2})
  BY <1>1, FS_Product, ProcAssumption
<1>3. Holders(b) \subseteq Proc \X {1, 2}
  BY DEF Holders
<1> QED BY <1>2, <1>3, FS_Subset, FS_CardinalityType

(* Whoever holds a block is counted, and two are counted twice.            *)
LEMMA HoldersCounted ==
  ASSUME TypeOK, CountCoversHolders, NEW b \in Blk, NEW g \in Holders(b)
  PROVE  /\ bls[b].kr.readers >= 1
         /\ \A h \in Holders(b) : h # g => bls[b].kr.readers >= 2
<1> DEFINE r == bls[b].kr.readers
           H == Holders(b)
<1>1. r \in Nat /\ Cardinality(H) <= r
  BY BlkAssumption DEF TypeOK, KeyReaders, CountCoversHolders
<1>2. IsFiniteSet(H) /\ Cardinality(H) \in Nat
  BY FiniteHolders
<1>3. IsFiniteSet(H \ {g}) /\ Cardinality(H \ {g}) = Cardinality(H) - 1
  BY <1>2, FS_RemoveElement
<1>4. Cardinality(H \ {g}) \in Nat
  BY <1>3, FS_CardinalityType
<1>5. ASSUME NEW h \in H, h # g PROVE Cardinality(H \ {g}) >= 1
  <2>1. h \in H \ {g} /\ H \ {g} # {}
    BY <1>5
  <2> QED BY <1>3, <1>4, <2>1, FS_EmptySet
<1> QED BY <1>1, <1>2, <1>3, <1>4, <1>5

(* A thread that is to take itself off the readers is one of them.         *)
LEMMA ReaderCounted ==
  ASSUME StrInv, NEW p \in Proc, pc[p] = "dec_cas", op[p] # "del"
  PROVE  held[p] = Added(p) /\ held[p] \in 1 .. 2 /\ Bl(p).kr.readers >= 1
<1>1. Reads(p) /\ Matches(p) /\ at[p].idx \in Blk
  BY DEF StrInv, Local, Flow, Counted, Reads, TypeOK, Ops, Allocating, VerIdx
<1>2. held[p] = Added(p) /\ held[p] \in 1 .. 2
  BY <1>1 DEF StrInv, Local, Counted, Added, Reads, InDec, InInc
<1>3. <<p, 1>> \in Holders(at[p].idx)
  BY <1>2 DEF Holders
<1> QED BY <1>1, <1>2, <1>3, HoldersCounted DEF StrInv, Bl

(* Every step keeps the types; in particular nobody counts a reader down   *)
(* from zero.                                                              *)
LEMMA StepTypes ==
  ASSUME StrInv, NEW p \in Proc, Step(p)
  PROVE  TypeOK'
<1> USE BlkAssumption, ShortAssumption DEF TypeOK, Go, Return, AfterDec, SetBl
<1>0. /\ TypeOK
      /\ pc[p] # "idle" => at[p] \in VerIdx /\ at[p].idx \in Blk /\ at[p].version \in Vers
      /\ pc[p] # "idle" => /\ Bl(p) \in [kr : KeyReaders, version : Vers]
                           /\ Bl(p).kr \in KeyReaders
      /\ NoKr \in KeyReaders /\ 0 \in Vers /\ NoVi \in VerIdx \union {NoVi}
  BY DEF StrInv, Local, Flow, VerIdx, Bl, KeyReaders, NoKr, Vers
<1>1. CASE AllocNxt(p)
  <2>1. PICK b \in pool : pool' = pool \ {b} /\ at' = [at EXCEPT ![p] = [idx |-> b, version |-> 0]]
    BY <1>1 DEF AllocNxt
  <2>2. [idx |-> b, version |-> 0] \in VerIdx
    BY <1>0, <2>1 DEF VerIdx
  <2> QED BY <1>0, <1>1, <2>1, <2>2 DEF AllocNxt, Pcs, Ops
<1>2. CASE AllocVer(p)
  <2>1. [at[p] EXCEPT !.version = sver] \in VerIdx /\ sver + 1 \in 1 .. MaxVer + 1
    BY <1>0, <1>2 DEF AllocVer, VerIdx, Vers
  <2>2. at' \in [Proc -> VerIdx \union {NoVi}]
    BY <1>0, <1>2, <2>1 DEF AllocVer
  <2> QED BY <1>0, <1>2, <2>1, <2>2 DEF AllocVer, Pcs
<1>3. CASE AllocInit(p)
  <2>1. [kr |-> NoKr, version |-> at[p].version] \in [kr : KeyReaders, version : Vers]
    BY <1>0, <1>3 DEF AllocInit
  <2>2. bls' \in [Blk -> [kr : KeyReaders, version : Vers]]
    BY <1>0, <1>3, <2>1 DEF AllocInit
  <2> QED BY <1>0, <1>3, <2>2 DEF AllocInit, Pcs
<1>4. CASE AllocMark(p)
  <2>1. [Bl(p) EXCEPT !.kr.isKey = TRUE] \in [kr : KeyReaders, version : Vers]
    BY <1>0, <1>4 DEF AllocMark, KeyReaders
  <2>2. bls' \in [Blk -> [kr : KeyReaders, version : Vers]]
    BY <1>0, <1>4, <2>1 DEF AllocMark
  <2> QED BY <1>0, <1>4, <2>2 DEF AllocMark, Pcs
<1>5. CASE PutWrite(p)
  BY <1>0, <1>5 DEF PutWrite, Pcs, Ops
<1>6. CASE PutPublish(p)
  <2>1. /\ live' \subseteq VerIdx /\ at' \in [Proc -> VerIdx \union {NoVi}]
        /\ op' \in [Proc -> Ops] /\ pc' \in [Proc -> Pcs]
    <3>1. at[p] \in VerIdx /\ {"none", "del"} \subseteq Ops /\ {"idle", "dec_load"} \subseteq Pcs
      BY <1>0, <1>6 DEF PutPublish, Ops, Pcs
    <3>2. CASE live' = live \union {at[p]} /\ Return(p)
      BY <1>0, <3>1, <3>2
    <3>3. CASE \E r \in live : /\ live' = (live \ {r}) \union {at[p]}
                               /\ at' = [at EXCEPT ![p] = r]
                               /\ op' = [op EXCEPT ![p] = "del"] /\ Go(p, "dec_load")
      <4>1. PICK r \in live : /\ live' = (live \ {r}) \union {at[p]}
                              /\ at' = [at EXCEPT ![p] = r]
                              /\ op' = [op EXCEPT ![p] = "del"] /\ Go(p, "dec_load")
        BY <3>3
      <4>2. r \in VerIdx
        BY <1>0, <4>1
      <4> QED BY <1>0, <3>1, <4>1, <4>2
    <3> QED BY <1>6, <3>2, <3>3 DEF PutPublish
  <2>2. kr' \in [Proc -> KeyReaders] /\ copied' \in [Proc -> Vers]
    BY <1>0, <1>6 DEF PutPublish
  <2> QED BY <1>0, <1>6, <2>1, <2>2 DEF PutPublish
<1>7. CASE Delete(p)
  BY <1>0, <1>7 DEF Delete, Pcs, Ops
<1>8. CASE Lookup(p)
  BY <1>0, <1>8 DEF Lookup, Pcs, Ops
<1>9. CASE IncLoad(p)
  BY <1>0, <1>9 DEF IncLoad, Pcs, Ops
<1>10. CASE IncRefused(p)
  <2>1. /\ at' \in [Proc -> VerIdx \union {NoVi}] /\ op' \in [Proc -> Ops]
        /\ pc' \in [Proc -> Pcs]
    BY <1>0, <1>10 DEF IncRefused, Pcs, Ops
  <2>2. kr' \in [Proc -> KeyReaders] /\ copied' \in [Proc -> Vers]
    BY <1>0, <1>10 DEF IncRefused
  <2> QED BY <1>0, <1>10, <2>1, <2>2 DEF IncRefused
<1>11. CASE IncAccepted(p)
  BY <1>0, <1>11 DEF IncAccepted, Pcs, Ops
<1>12. CASE IncCas(p)
  <2>1. Added(p) <= 1 /\ held[p] <= Added(p) /\ Added(p) \in Nat
    BY <1>12 DEF StrInv, Local, Counted, Added, InInc, InDec, IncCas
  <2>2. held' \in [Proc -> 0 .. 2]
    BY <1>0, <1>12, <2>1 DEF IncCas
  <2>3. Bl(p).kr.readers + 1 \in 0 .. MaxRd
    BY <1>0, <1>12 DEF IncCas, KeyReaders
  <2>4. bls' \in [Blk -> [kr : KeyReaders, version : Vers]]
    BY <1>0, <1>12, <2>3 DEF IncCas, KeyReaders
  <2> QED BY <1>0, <1>12, <2>2, <2>4 DEF IncCas, Pcs
<1>13. CASE IncRetry(p)
  BY <1>0, <1>13 DEF IncRetry, Pcs, Ops
<1>14. CASE GetTooLong(p)
  BY <1>0, <1>14 DEF GetTooLong, Pcs, Ops
<1>15. CASE GetRead(p)
  BY <1>0, <1>15 DEF GetRead, Pcs, Ops
<1>16. CASE Copy(p)
  BY <1>0, <1>16 DEF Copy, Pcs, Ops
<1>17. CASE DecLoad(p)
  BY <1>0, <1>17 DEF DecLoad, Pcs, Ops
<1>18. CASE DecRefused(p)
  <2>1. {"get", "none"} \subseteq Ops /\ {"dec_load", "idle"} \subseteq Pcs
    BY DEF Ops, Pcs
  <2>2. CASE op[p] = "readBlock"
    BY <1>0, <1>18, <2>1, <2>2 DEF DecRefused
  <2>3. CASE op[p] # "readBlock"
    BY <1>0, <1>18, <2>1, <2>3 DEF DecRefused
  <2> QED BY <2>2, <2>3
<1>19. CASE DecAccepted(p)
  BY <1>0, <1>19 DEF DecAccepted, Pcs, Ops
<1>20. CASE DecCas(p)
  <2>1. /\ at' \in [Proc -> VerIdx \union {NoVi}] /\ op' \in [Proc -> Ops]
        /\ pc' \in [Proc -> Pcs]
    BY <1>0, <1>20 DEF DecCas, Pcs, Ops
  <2>2. kr' \in [Proc -> KeyReaders] /\ copied' \in [Proc -> Vers]
    BY <1>0, <1>20 DEF DecCas
  <2>3. CASE op[p] = "del"
    <3>1. [Bl(p) EXCEPT !.kr.isDeleted = TRUE] \in [kr : KeyReaders, version : Vers]
      BY <1>0, <1>20 DEF DecCas, KeyReaders
    <3>2. bls' \in [Blk -> [kr : KeyReaders, version : Vers]]
      BY <1>0, <1>20, <2>3, <3>1 DEF DecCas
    <3> QED BY <1>0, <1>20, <2>1, <2>2, <2>3, <3>2 DEF DecCas
  <2>4. CASE op[p] # "del"
    <3>1. held[p] \in 1 .. 2 /\ Bl(p).kr.readers - 1 \in 0 .. MaxRd
      BY <1>0, <1>20, <2>4, ReaderCounted DEF DecCas, KeyReaders
    <3>2. held' \in [Proc -> 0 .. 2]
      BY <1>0, <1>20, <2>4, <3>1 DEF DecCas
    <3>3. [Bl(p) EXCEPT !.kr.readers = @ - 1] \in [kr : KeyReaders, version : Vers]
      BY <1>0, <1>20, <3>1 DEF DecCas, KeyReaders
    <3>4. bls' \in [Blk -> [kr : KeyReaders, version : Vers]]
      BY <1>0, <1>20, <2>4, <3>3 DEF DecCas
    <3> QED BY <1>0, <1>20, <2>1, <2>2, <2>4, <3>2, <3>4 DEF DecCas
  <2> QED BY <2>3, <2>4
<1>21. CASE DecRetry(p)
  BY <1>0, <1>21 DEF DecRetry, Pcs, Ops
<1>22. CASE FreeZero(p)
  <2>1. bls' \in [Blk -> [kr : KeyReaders, version : Vers]]
    BY <1>0, <1>22 DEF FreeZero
  <2> QED BY <1>0, <1>22, <2>1 DEF FreeZero, Pcs
<1>23. CASE FreeGive(p)
  <2>1. pool' \subseteq Blk
    BY <1>0, <1>23 DEF FreeGive
  <2> QED BY <1>0, <1>23, <2>1 DEF FreeGive, Pcs, Ops
<1>24. CASE AllocClear(p)
  <2>1. PICK r \in 0 .. Bl(p).kr.readers :
          SetBl(p, [Bl(p) EXCEPT !.kr.isDeleted = FALSE, !.kr.readers = r])
    BY <1>24 DEF AllocClear
  <2>2. r \in 0 .. MaxRd
    BY <1>0, <1>24, <2>1 DEF AllocClear, KeyReaders
  <2>3. bls' \in [Blk -> [kr : KeyReaders, version : Vers]]
    <3>1. [Bl(p).kr EXCEPT !.isDeleted = FALSE, !.readers = r] \in KeyReaders
      BY <1>0, <1>24, <2>2 DEF AllocClear, KeyReaders
    <3>2. [Bl(p) EXCEPT !.kr.isDeleted = FALSE, !.kr.readers = r]
            \in [kr : KeyReaders, version : Vers]
      BY <1>0, <1>24, <3>1 DEF AllocClear, KeyReaders
    <3> QED BY <1>0, <2>1, <3>2
  <2> QED BY <1>0, <1>24, <2>3 DEF AllocClear, Pcs
<1> QED BY <1>1, <1>2, <1>3, <1>4, <1>5, <1>6, <1>7, <1>8, <1>9, <1>10, <1>11,
           <1>12, <1>13, <1>14, <1>15, <1>16, <1>17, <1>18, <1>19, <1>20, <1>21, <1>22, <1>23,
           <1>24 DEF Step

------------------------------------------------------------------------------

(* What others see of a block: all but the number of its readers.          *)
Keeps(b) ==
  /\ bls'[b].version = bls[b].version /\ bls'[b].kr.isDeleted = bls[b].kr.isDeleted
  /\ bytes'[b] = bytes[b]

Changes(p) == AllocInit(p) \/ PutWrite(p) \/ FreeZero(p) \/ (DecCas(p) /\ op[p] = "del")

(* Four steps change the block the thread is at, and they are steps of its *)
(* user; the others do not, and no step changes another block.             *)
LEMMA StepKeeps ==
  ASSUME StrInv, NEW p \in Proc, Step(p)
  PROVE  /\ sver' \in Int /\ sver \in Int /\ sver' >= sver
         /\ \A b \in Blk : b # at[p].idx \/ ~Changes(p) => Keeps(b)
         /\ Changes(p) => Uses(p) /\ at[p].idx \in Blk
<1> USE DEF Keeps, SetBl, Bl
<1>0. /\ bls \in [Blk -> [kr : KeyReaders, version : Vers]] /\ sver \in Int /\ sver + 1 >= sver
      /\ bytes \in [Blk -> Vers]
      /\ pc[p] # "idle" => at[p].idx \in Blk
      /\ pc[p] \in {"mark", "clear"} => ~Bl(p).kr.isDeleted
  BY BlkAssumption DEF StrInv, TypeOK, Local, Flow, Finds, VerIdx
<1>1. CASE UNCHANGED <<bls, bytes, sver>> /\ ~Changes(p)
  BY <1>0, <1>1
<1>2. CASE AllocVer(p)
  BY <1>0, <1>2 DEF AllocVer, Changes, AllocInit, PutWrite, FreeZero, DecCas
<1>3. CASE AllocInit(p)
  BY <1>0, <1>3 DEF AllocInit, Changes, Uses, Allocating
<1>4. CASE AllocMark(p)
  BY <1>0, <1>4 DEF AllocMark, Changes, AllocInit, PutWrite, FreeZero, DecCas, KeyReaders
<1>5. CASE PutWrite(p)
  BY <1>0, <1>5 DEF PutWrite, Changes, Uses, Allocating
<1>6. CASE IncCas(p)
  BY <1>0, <1>6 DEF IncCas, Changes, AllocInit, PutWrite, FreeZero, DecCas, KeyReaders
<1>7. CASE DecCas(p)
  <2>1. CASE op[p] = "del"
    BY <1>0, <1>7, <2>1 DEF DecCas, Changes, Uses, Deleting, InDec
  <2>2. CASE op[p] # "del"
    BY <1>0, <1>7, <2>2 DEF DecCas, Changes, AllocInit, PutWrite, FreeZero, KeyReaders
  <2> QED BY <2>1, <2>2
<1>8. CASE FreeZero(p)
  BY <1>0, <1>8 DEF FreeZero, Changes, Uses, Freeing
<1>9. ASSUME \/ AllocNxt(p) \/ PutPublish(p) \/ Delete(p) \/ Lookup(p)
             \/ IncLoad(p) \/ IncRefused(p) \/ IncAccepted(p) \/ IncRetry(p)
             \/ GetTooLong(p) \/ GetRead(p) \/ Copy(p)
             \/ DecLoad(p) \/ DecRefused(p) \/ DecAccepted(p) \/ DecRetry(p) \/ FreeGive(p)
      PROVE  UNCHANGED <<bls, bytes, sver>> /\ ~Changes(p)
  <2>1. UNCHANGED <<bls, bytes, sver>>
    BY <1>9 DEF AllocNxt, PutPublish, Delete, Lookup, IncLoad, IncRefused, IncAccepted,
       IncRetry, GetTooLong, GetRead, Copy, DecLoad, DecRefused, DecAccepted, DecRetry, FreeGive
  <2>2. pc[p] \notin {"init", "write", "zero"} /\ ~DecCas(p)
    BY <1>9 DEF AllocNxt, PutPublish, Delete, Lookup, IncLoad, IncRefused, IncAccepted,
       IncRetry, GetTooLong, GetRead, Copy, DecLoad, DecRefused, DecAccepted, DecRetry, FreeGive,
       DecCas
  <2> QED BY <2>1, <2>2 DEF Changes, AllocInit, PutWrite, FreeZero
<1>10. CASE AllocClear(p)
  <2>1. PICK r \in 0 .. Bl(p).kr.readers :
          SetBl(p, [Bl(p) EXCEPT !.kr.isDeleted = FALSE, !.kr.readers = r])
    BY <1>10 DEF AllocClear
  <2>2. bls'[at[p].idx].version = bls[at[p].idx].version /\ ~bls'[at[p].idx].kr.isDeleted
    BY <1>0, <1>10, <2>1 DEF AllocClear, KeyReaders
  <2>3. bls[at[p].idx].kr.isDeleted = FALSE /\ bls'[at[p].idx].kr.isDeleted = FALSE
    BY <1>0, <1>10, <2>1 DEF AllocClear, KeyReaders
  <2>4. UNCHANGED <<bytes, sver>> /\ ~Changes(p)
    BY <1>10 DEF AllocClear, Changes, AllocInit, PutWrite, FreeZero, DecCas
  <2>5. \A b \in Blk : b # at[p].idx => bls'[b] = bls[b]
    BY <1>0, <2>1
  <2>6. \A b \in Blk : Keeps(b)
    <3> SUFFICES ASSUME NEW b \in Blk PROVE Keeps(b)
      OBVIOUS
    <3>1. bls'[b].kr.isDeleted = bls[b].kr.isDeleted
      BY <2>3, <2>5
    <3>2. bls'[b].version = bls[b].version /\ bytes'[b] = bytes[b]
      BY <2>2, <2>4, <2>5
    <3> QED BY <3>1, <3>2
  <2>7. sver' \in Int /\ sver' >= sver
    BY <1>0, <2>4
  <2> QED BY <1>0, <2>4, <2>6, <2>7
<1> QED BY <1>1, <1>2, <1>3, <1>4, <1>5, <1>6, <1>7, <1>8, <1>9, <1>10 DEF Step

(* What a thread relies on is not disturbed by the steps of another.       *)
LEMMA OthersKeep ==
  ASSUME StrInv, NEW p \in Proc, Step(p), NEW q \in Proc, q # p
  PROVE  Flow(q)' /\ Counted(q)' /\ Finds(q)' /\ Copied(q)'
<1> DEFINE b == at[q].idx
<1>0. /\ Flow(q) /\ Counted(q) /\ Finds(q) /\ Copied(q)
      /\ pc[q] # "idle" => b \in Blk /\ at[q].version \in Int
      /\ pc[q] = "idle" => op[q] = "none"
      /\ at[q].version \in Int
  BY DEF StrInv, TypeOK, Local, Flow, VerIdx, NoVi, Vers
<1>1. /\ pc'[q] = pc[q] /\ op'[q] = op[q] /\ at'[q] = at[q]
      /\ kr'[q] = kr[q] /\ copied'[q] = copied[q] /\ held'[q] = held[q]
  BY OwnVariables DEF StrInv
<1>2. sver' \in Int /\ sver \in Int /\ sver' >= sver
  BY StepKeeps
<1>3. Flow(q)' /\ Copied(q)'
  BY <1>0, <1>1, <1>2 DEF Flow, Allocating, Freeing, InInc, InDec, Reads, Copied
<1>4. CASE pc[q] = "idle" \/ Keeps(b)
  <2>1. Matches(q)' <=> Matches(q)
    BY <1>0, <1>1, <1>4 DEF Matches, Keeps, Bl
  <2>2. Counted(q)'
    BY <1>0, <1>1, <2>1 DEF Counted, Added, InInc, InDec
  <2>3. Finds(q)'
    BY <1>0, <1>1, <1>4, <2>1 DEF Finds, Deleting, InDec, Reads, Keeps, Bl
  <2> QED BY <1>3, <2>2, <2>3
<1>5. CASE pc[q] # "idle" /\ ~Keeps(b)
  <2>1. Changes(p) /\ Uses(p) /\ b = at[p].idx /\ b \in Blk
    BY <1>0, <1>5, StepKeeps
  <2>2. ~Uses(q)
    BY <2>1 DEF StrInv, Apart, Alone
  <2>3. at[q].version > 0
    BY <1>0, <1>5, <2>2 DEF Flow, Uses, Allocating
  <2>4. CASE DecCas(p) /\ op[p] = "del"
    <3>1. bls'[b].version = bls[b].version /\ bytes'[b] = bytes[b]
      BY <2>1, <2>4 DEF DecCas, SetBl, Bl, StrInv, TypeOK
    <3>2. Matches(q)' <=> Matches(q)
      BY <1>0, <1>1, <3>1 DEF Matches, Bl
    <3>3. Counted(q)'
      BY <1>0, <1>1, <3>2 DEF Counted, Added, InInc, InDec
    <3>4. Finds(q)'
      BY <1>0, <1>1, <2>2, <3>1, <3>2
         DEF Finds, Uses, Allocating, Freeing, Deleting, InDec, Reads, Bl
    <3> QED BY <1>3, <3>3, <3>4
  <2>5. ASSUME ~Matches(q), ~Matches(q)' PROVE Counted(q)' /\ Finds(q)'
    BY <1>0, <1>1, <2>2, <2>5
       DEF Counted, Added, InInc, InDec, Finds, Uses, Allocating, Freeing, Deleting, Reads
  <2>6. CASE PutWrite(p)
    <3>1. Bl(p).version = at[p].version /\ at[q].version # at[p].version /\ bls' = bls
      BY <2>6 DEF PutWrite, StrInv, Local, Finds, Matches, Apart, Fresh, Numbered
    <3> QED BY <1>1, <1>3, <2>1, <2>5, <3>1 DEF Matches, Bl
  <2>7. CASE AllocInit(p)
    <3>1. Bl(p).version = 0 /\ at[q].version # at[p].version
      BY <2>7 DEF AllocInit, StrInv, Local, Finds, Apart, Fresh, Numbered
    <3>2. bls'[b].version = at[p].version
      BY <2>1, <2>7 DEF AllocInit, SetBl, StrInv, TypeOK
    <3> QED BY <1>0, <1>1, <1>3, <2>1, <2>3, <2>5, <3>1, <3>2 DEF Matches, Bl
  <2>8. CASE FreeZero(p)
    <3>1. ~(held[q] > 0)
      BY <2>1, <2>8 DEF FreeZero, StrInv, Apart, Unread
    <3>2. bls'[b].version = 0
      BY <2>1, <2>8 DEF FreeZero, SetBl, Bl, StrInv, TypeOK
    <3>3. ~Matches(q)'
      BY <1>0, <1>1, <2>3, <3>2 DEF Matches, Bl
    <3>4. Matches(q) => Added(q) = 0
      BY <1>0, <3>1 DEF Counted, Added
    <3>5. ~(pc[q] = "dec_cas" \/ (op[q] = "readBlock" /\ pc[q] \notin {"inc_load", "inc_check"}))
      BY <1>0, <2>2, <3>4
         DEF Counted, Added, InInc, InDec, Flow, Uses, Deleting, Freeing, Reads, Allocating,
             StrInv, TypeOK, Ops
    <3>6. held[q] = 0
      BY <1>0, <3>4 DEF Counted
    <3> QED BY <1>0, <1>1, <1>3, <2>2, <3>3, <3>5, <3>6
            DEF Counted, Finds, Uses, Allocating, Freeing, Deleting, InDec
  <2> QED BY <1>3, <2>1, <2>4, <2>6, <2>7, <2>8 DEF Changes
<1> QED BY <1>4, <1>5

(* What a thread relies on after a step of its own.                        *)
LEMMA MineKept ==
  ASSUME StrInv, NEW p \in Proc, Step(p)
  PROVE  Flow(p)' /\ Counted(p)' /\ Finds(p)' /\ Copied(p)'
<1> USE DEF Go, Return, AfterDec, SetBl, Bl, NoVi, InInc, InDec, Reads, Allocating, Freeing
<1>0. /\ TypeOK /\ Flow(p) /\ Counted(p) /\ Finds(p) /\ Copied(p) /\ Tabled
      /\ pc[p] # "idle" => at[p].idx \in Blk
      /\ at[p].version \in Int /\ sver \in Int /\ sver > 0
      /\ pc[p] \in Pcs /\ op[p] \in Ops
  BY BlkAssumption DEF StrInv, TypeOK, Local, Flow, VerIdx, NoVi, Vers
<1>1. CASE AllocNxt(p)
  <2>1. Flow(p)'
    BY <1>0, <1>1 DEF AllocNxt, Flow, TypeOK, Tabled, VerIdx
  <2>2. Counted(p)'
    BY <1>0, <1>1 DEF AllocNxt, Flow, Counted, Added, Matches, Finds, Tabled, TypeOK
  <2>3. Finds(p)'
    BY <1>0, <1>1 DEF AllocNxt, Flow, Counted, Finds, Matches, Deleting, Tabled, TypeOK
  <2>4. Copied(p)'
    BY <1>0, <1>1 DEF AllocNxt, Flow, Counted, Copied, Added, Matches, Finds, TypeOK
  <2> QED BY <2>1, <2>2, <2>3, <2>4
<1>2. CASE AllocVer(p)
  <2>1. Flow(p)'
    BY <1>0, <1>2 DEF AllocVer, Flow, TypeOK, VerIdx, Vers
  <2>2. Counted(p)'
    BY <1>0, <1>2 DEF AllocVer, Flow, Counted, Added, Matches, Finds, Tabled, TypeOK
  <2>3. Finds(p)'
    BY <1>0, <1>2 DEF AllocVer, Flow, Counted, Finds, Matches, Deleting, Tabled, TypeOK
  <2>4. Copied(p)'
    BY <1>0, <1>2 DEF AllocVer, Flow, Counted, Copied, Added, Matches, Finds, TypeOK
  <2> QED BY <2>1, <2>2, <2>3, <2>4
<1>3. CASE AllocInit(p)
  <2>1. Flow(p)'
    BY <1>0, <1>3 DEF AllocInit, Flow, TypeOK, Tabled, VerIdx
  <2>2. Counted(p)'
    BY <1>0, <1>3 DEF AllocInit, Flow, Counted, Added, Matches, Finds, Tabled, TypeOK
  <2>3. Finds(p)'
    BY <1>0, <1>3 DEF AllocInit, Flow, Counted, Finds, Matches, Deleting, TypeOK, NoKr
  <2>4. Copied(p)'
    BY <1>0, <1>3 DEF AllocInit, Flow, Counted, Copied, Added, Matches, Finds, TypeOK
  <2> QED BY <2>1, <2>2, <2>3, <2>4
<1>4. CASE AllocMark(p)
  <2>1. Flow(p)'
    BY <1>0, <1>4 DEF AllocMark, Flow, TypeOK, Tabled, VerIdx
  <2>2. Counted(p)'
    BY <1>0, <1>4 DEF AllocMark, Flow, Counted, Added, Matches, Finds, Tabled, TypeOK
  <2>3. Finds(p)'
    BY <1>0, <1>4 DEF AllocMark, Flow, Counted, Finds, Matches, Deleting, Tabled, TypeOK
  <2>4. Copied(p)'
    BY <1>0, <1>4 DEF AllocMark, Flow, Counted, Copied, Added, Matches, Finds, TypeOK
  <2> QED BY <2>1, <2>2, <2>3, <2>4
<1>5. CASE PutWrite(p)
  <2>1. Flow(p)'
    BY <1>0, <1>5 DEF PutWrite, Flow, TypeOK, Tabled, VerIdx
  <2>2. Counted(p)'
    BY <1>0, <1>5 DEF PutWrite, Flow, Counted, Added, Matches, Finds, Tabled, TypeOK
  <2>3. Finds(p)'
    BY <1>0, <1>5 DEF PutWrite, Flow, Counted, Finds, Matches, Deleting, Tabled, TypeOK
  <2>4. Copied(p)'
    BY <1>0, <1>5 DEF PutWrite, Flow, Counted, Copied, Added, Matches, Finds, TypeOK
  <2> QED BY <2>1, <2>2, <2>3, <2>4
<1>6. CASE PutPublish(p)
  <2>1. Flow(p)'
    BY <1>0, <1>6 DEF PutPublish, Flow, TypeOK, Tabled, VerIdx
  <2>2. Counted(p)'
    BY <1>0, <1>6 DEF PutPublish, Flow, Counted, Added, Matches, Finds, Tabled, TypeOK
  <2>3. Finds(p)'
    BY <1>0, <1>6 DEF PutPublish, Flow, Counted, Finds, Matches, Deleting, Tabled, TypeOK
  <2>4. Copied(p)'
    BY <1>0, <1>6 DEF PutPublish, Flow, Counted, Copied, Added, Matches, Finds, TypeOK
  <2> QED BY <2>1, <2>2, <2>3, <2>4
<1>7. CASE Delete(p)
  <2>1. Flow(p)'
    BY <1>0, <1>7 DEF Delete, Flow, TypeOK, Tabled, VerIdx
  <2>2. Counted(p)'
    BY <1>0, <1>7 DEF Delete, Flow, Counted, Added, Matches, Finds, Tabled, TypeOK
  <2>3. Finds(p)'
    BY <1>0, <1>7 DEF Delete, Flow, Counted, Finds, Matches, Deleting, Tabled, TypeOK
  <2>4. Copied(p)'
    BY <1>0, <1>7 DEF Delete, Flow, Counted, Copied, Added, Matches, Finds, TypeOK
  <2> QED BY <2>1, <2>2, <2>3, <2>4
<1>8. CASE Lookup(p)
  <2>1. Flow(p)'
    BY <1>0, <1>8 DEF Lookup, Flow, TypeOK, Tabled, VerIdx
  <2>2. Counted(p)'
    BY <1>0, <1>8 DEF Lookup, Flow, Counted, Added, Matches, Finds, Tabled, TypeOK
  <2>3. Finds(p)'
    BY <1>0, <1>8 DEF Lookup, Flow, Counted, Finds, Matches, Deleting, Tabled, TypeOK
  <2>4. Copied(p)'
    BY <1>0, <1>8 DEF Lookup, Flow, Counted, Copied, Added, Matches, Finds, TypeOK
  <2> QED BY <2>1, <2>2, <2>3, <2>4
<1>9. CASE IncLoad(p)
  <2>1. Flow(p)'
    BY <1>0, <1>9 DEF IncLoad, Flow, TypeOK, Tabled, VerIdx
  <2>2. Counted(p)'
    BY <1>0, <1>9 DEF IncLoad, Flow, Counted, Added, Matches, Finds, Tabled, TypeOK
  <2>3. Finds(p)'
    BY <1>0, <1>9 DEF IncLoad, Flow, Counted, Finds, Matches, Deleting, Tabled, TypeOK
  <2>4. Copied(p)'
    BY <1>0, <1>9 DEF IncLoad, Flow, Counted, Copied, Added, Matches, Finds, TypeOK
  <2> QED BY <2>1, <2>2, <2>3, <2>4
<1>10. CASE IncRefused(p)
  <2>1. Flow(p)'
    BY <1>0, <1>10 DEF IncRefused, Flow, TypeOK, Tabled, VerIdx
  <2>2. Counted(p)'
    BY <1>0, <1>10 DEF IncRefused, Flow, Counted, Added, Matches, Finds, Tabled, TypeOK
  <2>3. Finds(p)'
    BY <1>0, <1>10 DEF IncRefused, Flow, Counted, Finds, Matches, Deleting, Tabled, TypeOK
  <2>4. Copied(p)'
    BY <1>0, <1>10 DEF IncRefused, Flow, Counted, Copied, Added, Matches, Finds, TypeOK
  <2> QED BY <2>1, <2>2, <2>3, <2>4
<1>11. CASE IncAccepted(p)
  <2>1. Flow(p)'
    BY <1>0, <1>11 DEF IncAccepted, Flow, TypeOK, Tabled, VerIdx
  <2>2. Counted(p)'
    BY <1>0, <1>11 DEF IncAccepted, IncRefuses, Flow, Counted, Added, Matches, TypeOK
  <2>3. Finds(p)'
    BY <1>0, <1>11 DEF IncAccepted, Flow, Counted, Finds, Matches, Deleting, Tabled, TypeOK
  <2>4. Copied(p)'
    BY <1>0, <1>11 DEF IncAccepted, Flow, Counted, Copied, Added, Matches, Finds, TypeOK
  <2> QED BY <2>1, <2>2, <2>3, <2>4
<1>12. CASE IncCas(p)
  <2>1. Flow(p)'
    BY <1>0, <1>12 DEF IncCas, Flow, TypeOK, Tabled, VerIdx
  <2>2. Counted(p)'
    BY <1>0, <1>12 DEF IncCas, Flow, Counted, Added, Matches, Finds, Tabled, TypeOK
  <2>3. Finds(p)'
    BY <1>0, <1>12 DEF IncCas, Flow, Counted, Finds, Matches, Deleting, Tabled, TypeOK
  <2>4. Copied(p)'
    BY <1>0, <1>12 DEF IncCas, Flow, Counted, Copied, Added, Matches, Finds, TypeOK
  <2> QED BY <2>1, <2>2, <2>3, <2>4
<1>13. CASE IncRetry(p)
  <2>1. Flow(p)'
    BY <1>0, <1>13 DEF IncRetry, Flow, TypeOK, Tabled, VerIdx
  <2>2. Counted(p)'
    BY <1>0, <1>13 DEF IncRetry, Flow, Counted, Added, Matches, Finds, Tabled, TypeOK
  <2>3. Finds(p)'
    BY <1>0, <1>13 DEF IncRetry, Flow, Counted, Finds, Matches, Deleting, Tabled, TypeOK
  <2>4. Copied(p)'
    BY <1>0, <1>13 DEF IncRetry, Flow, Counted, Copied, Added, Matches, Finds, TypeOK
  <2> QED BY <2>1, <2>2, <2>3, <2>4
<1>14. CASE GetTooLong(p)
  <2>1. Flow(p)'
    BY <1>0, <1>14 DEF GetTooLong, Flow, TypeOK, Tabled, VerIdx
  <2>2. Counted(p)'
    BY <1>0, <1>14 DEF GetTooLong, Flow, Counted, Added, Matches, Finds, Tabled, TypeOK
  <2>3. Finds(p)'
    BY <1>0, <1>14 DEF GetTooLong, Flow, Counted, Finds, Matches, Deleting, Tabled, TypeOK
  <2>4. Copied(p)'
    BY <1>0, <1>14 DEF GetTooLong, Flow, Counted, Copied, Added, Matches, Finds, TypeOK
  <2> QED BY <2>1, <2>2, <2>3, <2>4
<1>15. CASE GetRead(p)
  <2>1. Flow(p)'
    BY <1>0, <1>15 DEF GetRead, Flow, TypeOK, Tabled, VerIdx
  <2>2. Counted(p)'
    BY <1>0, <1>15 DEF GetRead, Flow, Counted, Added, Matches, Finds, Tabled, TypeOK
  <2>3. Finds(p)'
    BY <1>0, <1>15 DEF GetRead, Flow, Counted, Finds, Matches, Deleting, Tabled, TypeOK
  <2>4. Copied(p)'
    BY <1>0, <1>15 DEF GetRead, Flow, Counted, Copied, Added, Matches, Finds, TypeOK
  <2> QED BY <2>1, <2>2, <2>3, <2>4
<1>16. CASE Copy(p)
  <2>1. Flow(p)'
    BY <1>0, <1>16 DEF Copy, Flow, TypeOK, Tabled, VerIdx
  <2>2. Counted(p)'
    BY <1>0, <1>16 DEF Copy, Flow, Counted, Added, Matches, Finds, Tabled, TypeOK
  <2>3. Finds(p)'
    BY <1>0, <1>16 DEF Copy, Flow, Counted, Finds, Matches, Deleting, Tabled, TypeOK
  <2>4. Copied(p)'
    BY <1>0, <1>16 DEF Copy, Flow, Counted, Copied, Added, Matches, Finds, TypeOK
  <2> QED BY <2>1, <2>2, <2>3, <2>4
<1>17. CASE DecLoad(p)
  <2>1. Flow(p)'
    BY <1>0, <1>17 DEF DecLoad, Flow, TypeOK, Tabled, VerIdx
  <2>2. Counted(p)'
    BY <1>0, <1>17 DEF DecLoad, Flow, Counted, Added, Matches, Finds, Tabled, TypeOK
  <2>3. Finds(p)'
    BY <1>0, <1>17 DEF DecLoad, Flow, Counted, Finds, Matches, Deleting, Tabled, TypeOK
  <2>4. Copied(p)'
    BY <1>0, <1>17 DEF DecLoad, Flow, Counted, Copied, Added, Matches, Finds, TypeOK
  <2> QED BY <2>1, <2>2, <2>3, <2>4
<1>18. CASE DecRefused(p)
  <2>1. Flow(p)'
    BY <1>0, <1>18 DEF DecRefused, Flow, TypeOK, Tabled, VerIdx
  <2>2. Counted(p)'
    BY <1>0, <1>18 DEF DecRefused, Flow, Counted, Added, Matches, Finds, Tabled, TypeOK
  <2>3. Finds(p)'
    BY <1>0, <1>18 DEF DecRefused, Flow, Counted, Finds, Matches, Deleting, Tabled, TypeOK
  <2>4. Copied(p)'
    BY <1>0, <1>18 DEF DecRefused, Flow, Counted, Copied, Added, Matches, Finds, TypeOK
  <2> QED BY <2>1, <2>2, <2>3, <2>4
<1>19. CASE DecAccepted(p)
  <2>1. Flow(p)'
    BY <1>0, <1>19 DEF DecAccepted, Flow, TypeOK, Tabled, VerIdx
  <2>2. Counted(p)'
    BY <1>0, <1>19 DEF DecAccepted, Flow, Counted, Added, Matches, Finds, Tabled, TypeOK
  <2>3. Finds(p)'
    BY <1>0, <1>19 DEF DecAccepted, Flow, Counted, Finds, Matches, Deleting, Tabled, TypeOK
  <2>4. Copied(p)'
    BY <1>0, <1>19 DEF DecAccepted, Flow, Counted, Copied, Added, Matches, Finds, TypeOK
  <2> QED BY <2>1, <2>2, <2>3, <2>4
<1>20. CASE DecCas(p)
  <2> DEFINE b == at[p].idx
  <2>0. pc[p] = "dec_cas" /\ Bl(p).kr = kr[p] /\ b \in Blk
    BY <1>0, <1>20 DEF DecCas
  <2>1. CASE op[p] = "del"
    <3>1. bls'[b].kr.isDeleted /\ bls'[b].version = bls[b].version /\ held' = held
      <4>1. /\ bls' = [bls EXCEPT ![b] = [bls[b] EXCEPT !.kr.isDeleted = TRUE]]
            /\ held' = held
        BY <1>20, <2>1 DEF DecCas
      <4>2. bls'[b].kr = [bls[b].kr EXCEPT !.isDeleted = TRUE] /\ bls'[b].version = bls[b].version
        BY <1>0, <2>0, <4>1 DEF TypeOK
      <4>3. bls[b].kr \in KeyReaders
        BY <1>0, <2>0 DEF TypeOK
      <4>4. [bls[b].kr EXCEPT !.isDeleted = TRUE].isDeleted = TRUE
        BY <4>3 DEF KeyReaders
      <4> QED BY <4>1, <4>2, <4>4
    <3>2. \/ pc'[p] = "zero" /\ op'[p] = "del" /\ at'[p] = at[p] /\ copied'[p] = copied[p]
          \/ pc'[p] = "idle" /\ op'[p] = "none" /\ at'[p] = NoVi /\ copied'[p] = 0
      BY <1>0, <1>20, <2>1 DEF DecCas, TypeOK
    <3>3. sver' = sver /\ bytes' = bytes
      BY <1>20 DEF DecCas
    <3>4. Flow(p)' /\ Copied(p)'
      BY <1>0, <2>0, <2>1, <3>2, <3>3 DEF Flow, Copied
    <3>5. Counted(p)' /\ Finds(p)'
      BY <1>0, <2>0, <2>1, <3>1, <3>2, <3>3 DEF Flow, Counted, Added, Matches, Finds, Deleting
    <3> QED BY <3>4, <3>5
  <2>2. CASE op[p] # "del"
    <3>1. /\ held[p] = Added(p) /\ held[p] \in 1 .. 2 /\ Matches(p) /\ Reads(p)
          /\ Added(p) = IF op[p] = "readBlock" THEN 2 ELSE 1
      BY <1>0, <2>0, <2>2, ReaderCounted DEF Counted, Added, Flow, Ops
    <3>2. op[p] = "readBlock" => ~DoDelete(p)
      <4> SUFFICES ASSUME op[p] = "readBlock" PROVE Bl(p).kr.readers >= 2
        BY <2>0 DEF DoDelete
      <4>1. <<p, 1>> \in Holders(b) /\ <<p, 2>> \in Holders(b) /\ <<p, 1>> # <<p, 2>>
        BY <3>1 DEF Holders
      <4> QED BY <2>0, <4>1, HoldersCounted DEF StrInv
    <3>3. /\ bls'[b].kr.isDeleted = bls[b].kr.isDeleted /\ bls'[b].version = bls[b].version
          /\ held'[p] = held[p] - 1
      BY <1>0, <1>20, <2>0, <2>2 DEF DecCas, TypeOK, KeyReaders
    <3>4. \/ /\ pc'[p] = "zero" /\ op'[p] = op[p] /\ at'[p] = at[p] /\ copied'[p] = copied[p]
             /\ op[p] # "readBlock" /\ bls[b].kr.isDeleted
          \/ /\ pc'[p] = "dec_load" /\ op'[p] = "get" /\ at'[p] = at[p]
             /\ copied'[p] = copied[p] /\ op[p] = "readBlock"
          \/ /\ pc'[p] = "idle" /\ op'[p] = "none" /\ at'[p] = NoVi /\ copied'[p] = 0
             /\ op[p] # "readBlock"
      BY <1>0, <1>20, <2>0, <2>2, <3>2 DEF DecCas, DoDelete, TypeOK
    <3>5. sver' = sver /\ bytes' = bytes
      BY <1>20 DEF DecCas
    <3>6. Flow(p)' /\ Copied(p)'
      BY <1>0, <2>0, <3>1, <3>4, <3>5 DEF Flow, Copied, Ops
    <3>7. Counted(p)'
      BY <1>0, <2>0, <3>1, <3>3, <3>4 DEF Flow, Counted, Added, Matches
    <3>8. Finds(p)'
      BY <1>0, <2>0, <3>1, <3>3, <3>4, <3>5 DEF Flow, Matches, Finds, Deleting
    <3> QED BY <3>6, <3>7, <3>8
  <2> QED BY <2>1, <2>2
<1>21. CASE DecRetry(p)
  <2>1. Flow(p)'
    BY <1>0, <1>21 DEF DecRetry, Flow, TypeOK, Tabled, VerIdx
  <2>2. Counted(p)'
    BY <1>0, <1>21 DEF DecRetry, Flow, Counted, Added, Matches, Finds, Tabled, TypeOK
  <2>3. Finds(p)'
    BY <1>0, <1>21 DEF DecRetry, Flow, Counted, Finds, Matches, Deleting, Tabled, TypeOK
  <2>4. Copied(p)'
    BY <1>0, <1>21 DEF DecRetry, Flow, Counted, Copied, Added, Matches, Finds, TypeOK
  <2> QED BY <2>1, <2>2, <2>3, <2>4
<1>22. CASE FreeZero(p)
  <2>1. Flow(p)'
    BY <1>0, <1>22 DEF FreeZero, Flow, TypeOK, Tabled, VerIdx
  <2>2. Counted(p)'
    BY <1>0, <1>22 DEF FreeZero, Flow, Counted, Added, Matches, Finds, Tabled, TypeOK
  <2>3. Finds(p)'
    BY <1>0, <1>22 DEF FreeZero, Flow, Counted, Finds, Matches, Deleting, Tabled, TypeOK
  <2>4. Copied(p)'
    BY <1>0, <1>22 DEF FreeZero, Flow, Counted, Copied, Added, Matches, Finds, TypeOK
  <2> QED BY <2>1, <2>2, <2>3, <2>4
<1>23. CASE FreeGive(p)
  <2>1. Flow(p)'
    BY <1>0, <1>23 DEF FreeGive, Flow, TypeOK, Tabled, VerIdx
  <2>2. Counted(p)'
    BY <1>0, <1>23 DEF FreeGive, Flow, Counted, Added, Matches, Finds, Tabled, TypeOK
  <2>3. Finds(p)'
    BY <1>0, <1>23 DEF FreeGive, Flow, Counted, Finds, Matches, Deleting, Tabled, TypeOK
  <2>4. Copied(p)'
    BY <1>0, <1>23 DEF FreeGive, Flow, Counted, Copied, Added, Matches, Finds, TypeOK
  <2> QED BY <2>1, <2>2, <2>3, <2>4
<1>24. CASE AllocClear(p)
  <2>1. Flow(p)'
    BY <1>0, <1>24 DEF AllocClear, Flow, TypeOK, Tabled, VerIdx
  <2>2. Counted(p)'
    BY <1>0, <1>24 DEF AllocClear, Flow, Counted, Added, Matches, Finds, Tabled, TypeOK
  <2>3. Finds(p)'
    BY <1>0, <1>24 DEF AllocClear, Flow, Counted, Finds, Matches, Deleting, Tabled, TypeOK
  <2>4. Copied(p)'
    BY <1>0, <1>24 DEF AllocClear, Flow, Counted, Copied, Added, Matches, Finds, TypeOK
  <2> QED BY <2>1, <2>2, <2>3, <2>4
<1> QED BY <1>1, <1>2, <1>3, <1>4, <1>5, <1>6, <1>7, <1>8, <1>9, <1>10, <1>11,
           <1>12, <1>13, <1>14, <1>15, <1>16, <1>17, <1>18, <1>19, <1>20, <1>21, <1>22, <1>23,
           <1>24 DEF Step

------------------------------------------------------------------------------

(* The pool grows by free() only, and the table by put() only.             *)
LEMMA PoolAndTable ==
  ASSUME NEW p \in Proc, Step(p)
  PROVE  /\ pool' \subseteq pool \/ FreeGive(p)
         /\ live' \subseteq live \/ PutPublish(p)
BY FillsEntry
   DEF Step, AllocNxt, AllocVer, PutWrite, PutPublish, Delete, Lookup,
       IncLoad, IncRefused, IncAccepted, IncCas, IncRetry, GetTooLong, GetRead, Copy,
       DecLoad, DecRefused, DecAccepted, DecCas, DecRetry, FreeZero, FreeGive

(* Whoever changes a block has it to itself, so the free blocks and those  *)
(* in the table stay as they are.                                          *)
LEMMA TabledKept ==
  ASSUME StrInv, NEW p \in Proc, Step(p)
  PROVE  Tabled'
<1>0. /\ Tabled /\ Alone /\ pool \subseteq Blk /\ live \subseteq VerIdx
      /\ Flow(p) /\ Finds(p)
      /\ \A r \in live : r.idx \in Blk /\ r.version \in Int
  BY DEF StrInv, Apart, TypeOK, Local, VerIdx, Vers
<1>1. sver' \in Int /\ sver \in Int /\ sver' >= sver
  BY StepKeeps
<1>2. \A b \in pool : bls'[b].version = 0
  BY <1>0, StepKeeps DEF Alone, Tabled, Keeps
<1>3. \A r \in live : /\ bls'[r.idx].version = r.version /\ ~bls'[r.idx].kr.isDeleted
                      /\ bytes'[r.idx] = r.version
                      /\ 0 < r.version /\ r.version < sver'
  BY <1>0, <1>1, StepKeeps DEF Alone, Tabled, Keeps
<1>4. FreeGive(p) => pool' = pool \union {at[p].idx} /\ bls' = bls /\ bls[at[p].idx].version = 0
  BY <1>0 DEF FreeGive, Finds, Bl
<1>5. PutPublish(p) =>
        /\ live' \subseteq live \union {at[p]} /\ bls' = bls /\ bytes' = bytes /\ sver' = sver
        /\ bls[at[p].idx].version = at[p].version /\ ~bls[at[p].idx].kr.isDeleted
        /\ bytes[at[p].idx] = at[p].version /\ 0 < at[p].version /\ at[p].version < sver
  <2> SUFFICES ASSUME PutPublish(p)
               PROVE  /\ live' \subseteq live \union {at[p]}
                      /\ bls' = bls /\ bytes' = bytes /\ sver' = sver
                      /\ bls[at[p].idx].version = at[p].version
                      /\ ~bls[at[p].idx].kr.isDeleted
                      /\ bytes[at[p].idx] = at[p].version
                      /\ 0 < at[p].version /\ at[p].version < sver
    OBVIOUS
  <2>1. live' \subseteq live \union {at[p]} /\ bls' = bls /\ bytes' = bytes /\ sver' = sver
    BY DEF PutPublish
  <2>2. at[p].version \in Int
    BY DEF StrInv, TypeOK, VerIdx, Vers, NoVi
  <2> QED BY <1>0, <2>1, <2>2 DEF PutPublish, Finds, Flow, Matches, Bl
<1>6. \A b \in pool' : bls'[b].version = 0
  BY <1>2, <1>4, PoolAndTable
<1>7. \A r \in live' : /\ bls'[r.idx].version = r.version /\ ~bls'[r.idx].kr.isDeleted
                       /\ bytes'[r.idx] = r.version
                       /\ 0 < r.version /\ r.version < sver'
  <2> SUFFICES ASSUME NEW r \in live'
               PROVE  /\ bls'[r.idx].version = r.version /\ ~bls'[r.idx].kr.isDeleted
                      /\ bytes'[r.idx] = r.version
                      /\ 0 < r.version /\ r.version < sver'
    OBVIOUS
  <2>1. CASE r \in live
    BY <1>3, <2>1
  <2>2. CASE r \notin live
    BY <1>5, <2>2, PoolAndTable
  <2> QED BY <2>1, <2>2
<1> QED BY <1>6, <1>7 DEF Tabled

(* A block passes from the pool, from the table, or from the last of its   *)
(* readers to one thread, and back to the pool or into the table.          *)
LEMMA AloneKept ==
  ASSUME StrInv, NEW p \in Proc, Step(p)
  PROVE  Alone'
<1>0. /\ TypeOK /\ Tabled /\ Alone /\ Unread /\ Flow(p) /\ Finds(p)
      /\ \A q \in Proc : Flow(q) /\ Finds(q)
      /\ \A r \in live : r \in VerIdx /\ r.version > 0 /\ r.idx \notin pool
  BY DEF StrInv, Apart, Local, TypeOK, Tabled, Vers, VerIdx
<1>1. \A q \in Proc : q # p => (Uses(q)' <=> Uses(q)) /\ at'[q] = at[q]
  BY <1>0, OwnVariables DEF Uses, Allocating, Freeing, Deleting, InDec
<1>2. CASE AllocNxt(p)
  <2>1. PICK b \in pool : pool' = pool \ {b} /\ at'[p].idx = b
    BY <1>0, <1>2 DEF AllocNxt, TypeOK
  <2>2. live' = live
    BY <1>2 DEF AllocNxt
  <2> QED BY <1>0, <1>1, <2>1, <2>2 DEF Alone
<1>3. CASE PutPublish(p)
  <2>1. Uses(p) /\ pool' = pool
    BY <1>3 DEF PutPublish, Uses, Allocating
  <2>2. CASE live' = live \union {at[p]} /\ Return(p)
    <3>1. ~Uses(p)'
      BY <1>0, <2>2 DEF Return, Go, TypeOK, Uses, Allocating, Freeing, Deleting, InDec
    <3> QED BY <1>0, <1>1, <2>1, <2>2, <3>1 DEF Alone
  <2>3. ASSUME NEW r \in live, live' = (live \ {r}) \union {at[p]}, at' = [at EXCEPT ![p] = r]
        PROVE  Alone'
    <3>1. at'[p] = r /\ r.idx # at[p].idx
      BY <1>0, <2>1, <2>3 DEF TypeOK, Alone
    <3>2. \A x \in live \ {r} : x.idx # r.idx
      BY <1>0 DEF Tabled, VerIdx
    <3> QED BY <1>0, <1>1, <2>1, <2>3, <3>1, <3>2 DEF Alone
  <2> QED BY <1>3, <2>2, <2>3 DEF PutPublish
<1>4. CASE Delete(p)
  <2>1. PICK r \in live : live' = live \ {r} /\ at' = [at EXCEPT ![p] = r]
    BY <1>4 DEF Delete
  <2>2. pool' = pool /\ at'[p] = r
    BY <1>0, <1>4, <2>1 DEF Delete, TypeOK
  <2>3. \A x \in live \ {r} : x.idx # r.idx
    BY <1>0 DEF Tabled, VerIdx
  <2> QED BY <1>0, <1>1, <2>1, <2>2, <2>3 DEF Alone
<1>5. CASE FreeGive(p)
  <2>1. Uses(p) /\ ~Uses(p)' /\ pool' = pool \union {at[p].idx} /\ live' = live
    BY <1>0, <1>5 DEF FreeGive, AfterDec, Return, Go, TypeOK, Flow, Uses, Allocating, Freeing,
                      Deleting, InDec
  <2> QED BY <1>0, <1>1, <2>1 DEF Alone
<1>6. CASE DecCas(p)
  <2>1. pool' = pool /\ live' = live /\ (Uses(p)' => at'[p] = at[p])
    BY <1>0, <1>6 DEF DecCas, AfterDec, Return, Go, TypeOK, Flow, Uses, Allocating, Freeing,
                      Deleting, InDec, InInc, Reads, Ops
  <2>2. CASE Uses(p) \/ ~Uses(p)'
    BY <1>0, <1>1, <2>1, <2>2 DEF Alone
  <2>3. CASE ~Uses(p) /\ Uses(p)'
    <3> DEFINE b == at[p].idx
    <3>1. op[p] # "del" /\ pc[p] = "dec_cas" /\ b \in Blk /\ Bl(p).kr = kr[p]
      BY <1>0, <1>6, <2>3 DEF DecCas, Uses, Deleting, InDec, Flow, VerIdx
    <3>2. kr[p].isDeleted
      BY <1>0, <1>6, <2>3, <3>1 DEF DecCas, DoDelete, AfterDec, Return, Go, TypeOK, Uses,
                                    Allocating, Freeing, Deleting, InDec
    <3>3. bls[b].kr.isDeleted /\ bls[b].version > 0 /\ held[p] > 0
      BY <1>0, <3>1, <3>2, ReaderCounted DEF StrInv, Local, Counted, Matches, Flow, Bl
    <3>4. b \notin pool /\ \A r \in live : r.idx # b
      BY <3>3 DEF StrInv, Tabled
    <3>5. \A q \in Proc : q # p /\ Uses(q) => at[q].idx # b
      BY <1>0, <3>3 DEF Finds, Uses, Allocating, Freeing, Unread, Bl
    <3> QED BY <1>0, <1>1, <2>1, <3>4, <3>5 DEF Alone
  <2> QED BY <2>2, <2>3
<1>7. ASSUME \/ AllocVer(p) \/ AllocInit(p) \/ AllocMark(p) \/ AllocClear(p)
             \/ PutWrite(p) \/ Lookup(p)
             \/ IncLoad(p) \/ IncRefused(p) \/ IncAccepted(p) \/ IncCas(p) \/ IncRetry(p)
             \/ GetTooLong(p) \/ GetRead(p) \/ Copy(p) \/ DecLoad(p) \/ DecRefused(p)
             \/ DecAccepted(p) \/ DecRetry(p) \/ FreeZero(p)
      PROVE  Alone'
  <2>1. pool' = pool /\ live' = live
    BY <1>7, FillsEntry
       DEF AllocVer, PutWrite, Lookup, IncLoad, IncRefused,
           IncAccepted, IncCas, IncRetry, GetTooLong, GetRead, Copy, DecLoad,
           DecRefused, DecAccepted, DecRetry, FreeZero
  <2>2. Uses(p)' => Uses(p) /\ at'[p].idx = at[p].idx
    <3>1. CASE AllocVer(p) \/ AllocInit(p) \/ AllocMark(p) \/ AllocClear(p) \/ PutWrite(p)
      <4>1. CASE AllocVer(p) \/ PutWrite(p)
        BY <1>0, <4>1 DEF TypeOK, Flow, VerIdx, Uses, Allocating, AllocVer, PutWrite
      <4>2. CASE AllocInit(p) \/ AllocMark(p) \/ AllocClear(p)
        BY <4>2, FillsEntry DEF Uses, Allocating
      <4> QED BY <3>1, <4>1, <4>2
    <3>2. CASE FreeZero(p) \/ DecLoad(p) \/ DecAccepted(p) \/ DecRetry(p)
      BY <1>0, <3>2
         DEF TypeOK, Go, Uses, Allocating, Freeing, Deleting, InDec,
             FreeZero, DecLoad, DecAccepted, DecRetry
    <3>3. CASE Lookup(p) \/ IncLoad(p) \/ IncRefused(p) \/ IncAccepted(p) \/ IncCas(p)
      BY <1>0, <3>3
         DEF TypeOK, Go, Return, AfterDec, Uses, Allocating, Freeing, Deleting, InDec,
             Lookup, IncLoad, IncRefused, IncAccepted, IncCas
    <3>4. CASE IncRetry(p) \/ GetTooLong(p) \/ GetRead(p) \/ Copy(p) \/ DecRefused(p)
      BY <1>0, <3>4
         DEF TypeOK, Go, Return, AfterDec, Uses, Allocating, Freeing, Deleting, InDec, Flow,
             IncRetry, GetTooLong, GetRead, Copy, DecRefused
    <3> QED BY <1>7, <3>1, <3>2, <3>3, <3>4
  <2> QED BY <1>0, <1>1, <2>1, <2>2 DEF Alone
<1> QED BY <1>2, <1>3, <1>4, <1>5, <1>6, <1>7 DEF Step

(* s_version hands out a version once, and only put() makes it known.      *)
LEMMA FreshKept ==
  ASSUME StrInv, NEW p \in Proc, Step(p)
  PROVE  Fresh'
<1>0. /\ TypeOK /\ Fresh /\ Tabled /\ sver \in Int
      /\ \A q \in Proc : at[q].version \in Int /\ at[q].version < sver
      /\ \A q \in Proc : Numbered(q) => at[q].version > 0
      /\ \A r \in live : r.version \in Int /\ r.version < sver
  BY DEF StrInv, Apart, Local, Flow, TypeOK, Tabled, Vers, VerIdx, NoVi, Numbered
<1>1. \A q \in Proc : q # p => (Numbered(q)' <=> Numbered(q)) /\ at'[q] = at[q]
  BY <1>0, OwnVariables DEF Numbered
<1>2. CASE AllocVer(p)
  <2>1. at'[p].version = sver /\ live' = live
    BY <1>0, <1>2 DEF AllocVer, TypeOK, VerIdx, StrInv, Local, Flow
  <2> QED BY <1>0, <1>1, <2>1 DEF Fresh
<1>3. CASE AllocNxt(p)
  <2>1. at'[p].version = 0 /\ ~Numbered(p)' /\ live' = live
    BY <1>0, <1>3 DEF AllocNxt, TypeOK, Go, Numbered
  <2> QED BY <1>0, <1>1, <2>1 DEF Fresh
<1>4. CASE Delete(p) \/ Lookup(p)
  <2>1. live' \subseteq live /\ ~Numbered(p)' /\ \E r \in live : at'[p] = r
    BY <1>0, <1>4 DEF Delete, Lookup, TypeOK, Go, Numbered
  <2> QED BY <1>0, <1>1, <2>1 DEF Fresh
<1>5. CASE PutPublish(p)
  <2>1. /\ Numbered(p) /\ ~Numbered(p)' /\ live' \subseteq live \union {at[p]}
        /\ at'[p] = NoVi \/ \E r \in live : at'[p] = r
    BY <1>0, <1>5 DEF PutPublish, Return, TypeOK, Go, Numbered
  <2> QED BY <1>0, <1>1, <2>1 DEF Fresh, NoVi
<1>6. CASE AllocInit(p) \/ AllocMark(p) \/ AllocClear(p)
  <2>1. at' = at /\ live' = live /\ Numbered(p)
    BY <1>6, FillsEntry DEF Numbered
  <2> QED BY <1>0, <1>1, <2>1 DEF Fresh
<1>7. ASSUME \/ PutWrite(p) \/ IncLoad(p) \/ IncRefused(p)
             \/ IncAccepted(p) \/ IncCas(p) \/ IncRetry(p) \/ GetTooLong(p) \/ GetRead(p)
             \/ Copy(p) \/ DecLoad(p) \/ DecRefused(p) \/ DecAccepted(p) \/ DecCas(p)
             \/ DecRetry(p) \/ FreeZero(p) \/ FreeGive(p)
      PROVE  Fresh'
  <2>1. live' = live
    BY <1>7
       DEF PutWrite, IncLoad, IncRefused, IncAccepted, IncCas,
           IncRetry, GetTooLong, GetRead, Copy, DecLoad, DecRefused, DecAccepted,
           DecCas, DecRetry, FreeZero, FreeGive
  <2>2. at'[p].version \in {0, at[p].version}
    BY <1>0, <1>7
       DEF TypeOK, Go, Return, AfterDec, NoVi,
           PutWrite, IncLoad, IncRefused, IncAccepted, IncCas,
           IncRetry, GetTooLong, GetRead, Copy, DecLoad, DecRefused, DecAccepted,
           DecCas, DecRetry, FreeZero, FreeGive
  <2>3. Numbered(p)' => Numbered(p) /\ at'[p].version = at[p].version
    BY <1>0, <1>7
       DEF TypeOK, Go, Return, AfterDec, Numbered,
           PutWrite, IncLoad, IncRefused, IncAccepted, IncCas,
           IncRetry, GetTooLong, GetRead, Copy, DecLoad, DecRefused, DecAccepted,
           DecCas, DecRetry, FreeZero, FreeGive
  <2> QED BY <1>0, <1>1, <2>1, <2>2, <2>3 DEF Fresh
<1> QED BY <1>2, <1>3, <1>4, <1>5, <1>6, <1>7 DEF Step

(* Only the compare-exchanges make a reader, or a block to be freed.       *)
LEMMA OnlyTheExchanges ==
  ASSUME StrInv, NEW p \in Proc, Step(p), ~IncCas(p), ~DecCas(p)
  PROVE  /\ pc'[p] # "zero"
         /\ held'[p] \in {0, held[p]} /\ (held'[p] > 0 => at'[p].idx = at[p].idx)
<1>0. TypeOK /\ Flow(p) /\ Counted(p) /\ held[p] \in 0 .. 2
  BY DEF StrInv, Local, TypeOK
<1>1. pc'[p] # "zero"
  BY <1>0, FillsEntry
     DEF Step, TypeOK, Go, Return, AfterDec,
         AllocNxt, AllocVer, PutWrite, PutPublish, Delete,
         Lookup, IncLoad, IncRefused, IncAccepted, IncRetry, GetTooLong, GetRead, Copy,
         DecLoad, DecRefused, DecAccepted, DecRetry, FreeZero, FreeGive
<1>2. held'[p] \in {0, held[p]} /\ (held'[p] > 0 => at'[p].idx = at[p].idx)
  BY <1>0, FillsEntry
     DEF Step, TypeOK, Go, Return, AfterDec, Flow, Counted, Added, Matches, InInc, InDec,
         Allocating, IncRefuses,
         AllocNxt, AllocVer, PutWrite, PutPublish, Delete,
         Lookup, IncLoad, IncRefused, IncAccepted, IncRetry, GetTooLong, GetRead, Copy,
         DecLoad, DecRefused, DecAccepted, DecRetry, FreeZero, FreeGive
<1> QED BY <1>1, <1>2

(* The last reader frees the block, and nobody becomes a reader after.     *)
LEMMA UnreadKept ==
  ASSUME StrInv, NEW p \in Proc, Step(p)
  PROVE  Unread'
<1>0. /\ TypeOK /\ Unread /\ \A q \in Proc : Flow(q) /\ Finds(q) /\ Counted(q)
      /\ \A q \in Proc : held[q] \in 0 .. 2
  BY DEF StrInv, Apart, Local, TypeOK
<1>1. \A q \in Proc : q # p => pc'[q] = pc[q] /\ at'[q] = at[q] /\ held'[q] = held[q]
  BY <1>0, OwnVariables
<1>2. CASE IncCas(p)
  <2>1. pc'[p] # "zero" /\ at' = at /\ held'[p] \in Int
    BY <1>0, <1>2 DEF IncCas, Go, TypeOK
  <2>2. \A q \in Proc : pc[q] = "zero" => at[p].idx # at[q].idx
    <3> SUFFICES ASSUME NEW q \in Proc, pc[q] = "zero", at[p].idx = at[q].idx PROVE FALSE
      OBVIOUS
    <3>1. bls[at[q].idx].kr.isDeleted /\ ~kr[p].isDeleted /\ bls[at[p].idx].kr = kr[p]
      BY <1>0, <1>2 DEF Finds, Counted, IncCas, Bl
    <3> QED BY <3>1
  <2> QED BY <1>0, <1>1, <2>1, <2>2 DEF Unread
<1>3. CASE DecCas(p)
  <2>1. /\ held'[p] <= held[p] /\ held'[p] \in Int
        /\ held'[p] > 0 => at'[p] = at[p]
        /\ pc'[p] = "zero" => at'[p] = at[p]
    <3>1. CASE op[p] = "del"
      BY <1>0, <1>3, <3>1 DEF DecCas, AfterDec, Return, Go, TypeOK, Counted, Added
    <3>2. CASE op[p] # "del"
      <4>1. held[p] = Added(p) /\ held'[p] = held[p] - 1
        BY <1>0, <1>3, <3>2, ReaderCounted DEF DecCas, TypeOK
      <4>2. op[p] # "readBlock" => held[p] = 1
        BY <1>0, <1>3, <3>2, <4>1, ReaderCounted DEF DecCas, Added
      <4> QED BY <1>0, <1>3, <4>1, <4>2 DEF DecCas, AfterDec, Return, Go, TypeOK
    <3> QED BY <3>1, <3>2
  <2>2. ASSUME pc'[p] = "zero", NEW q \in Proc, held'[q] > 0, at[q].idx = at[p].idx
        PROVE  FALSE
    <3> DEFINE b == at[p].idx
    <3>1. pc[p] = "dec_cas" /\ b \in Blk /\ Bl(p).kr = kr[p] /\ DoDelete(p)
      BY <1>0, <1>3, <2>2 DEF DecCas, Flow, VerIdx, AfterDec, Return, Go, TypeOK
    <3>2. held[q] > 0 /\ <<q, 1>> \in Holders(b)
      BY <1>0, <1>1, <2>1, <2>2 DEF Holders
    <3>3. bls[b].kr.readers >= 1 /\ \A h \in Holders(b) : h # <<q, 1>> => bls[b].kr.readers >= 2
      BY <3>1, <3>2, HoldersCounted DEF StrInv
    <3>4. CASE op[p] = "del"
      BY <3>1, <3>3, <3>4 DEF DoDelete, Bl
    <3>5. CASE op[p] # "del"
      <4>1. bls[b].kr.readers = 1 /\ held[p] \in 1 .. 2 /\ held'[p] = held[p] - 1
        BY <1>0, <1>3, <3>1, <3>5, ReaderCounted DEF DoDelete, Bl, DecCas, TypeOK
      <4>2. <<p, 1>> \in Holders(b) /\ (held[p] = 2 => <<p, 2>> \in Holders(b))
        BY <4>1 DEF Holders
      <4>3. q = p /\ held[p] = 1
        BY <3>3, <4>1, <4>2
      <4> QED BY <2>2, <4>1, <4>3
    <3> QED BY <3>4, <3>5
  <2> QED BY <1>0, <1>1, <2>1, <2>2 DEF Unread
<1>4. CASE ~IncCas(p) /\ ~DecCas(p)
  BY <1>0, <1>1, <1>4, OnlyTheExchanges DEF Unread
<1> QED BY <1>2, <1>3, <1>4

(* The count of readers stays at least the number of holders: the          *)
(* exchanges count both, and who overwrites the count finds no holders.    *)
LEMMA CountKept ==
  ASSUME StrInv, NEW p \in Proc, Step(p)
  PROVE  CountCoversHolders'
<1> USE DEF Bl, SetBl
<1>0. /\ TypeOK /\ CountCoversHolders /\ \A q \in Proc : Flow(q) /\ Finds(q) /\ Counted(q)
      /\ \A q \in Proc : held[q] \in 0 .. 2 /\ at[q].version \in Int
      /\ \A b \in Blk : bls[b].kr.readers \in Nat
      /\ pc[p] # "idle" => at[p].idx \in Blk
      /\ p \in Proc
  BY BlkAssumption DEF StrInv, Local, Flow, TypeOK, KeyReaders, VerIdx, Vers, NoVi
<1>1. \A q \in Proc : q # p => pc'[q] = pc[q] /\ at'[q] = at[q] /\ held'[q] = held[q]
  BY <1>0, OwnVariables
<1>2. ASSUME NEW b \in Blk, Holders(b)' \subseteq Holders(b),
             bls'[b].kr.readers = bls[b].kr.readers
      PROVE  Cardinality(Holders(b)') <= bls'[b].kr.readers
  <2>1. /\ IsFiniteSet(Holders(b)) /\ Cardinality(Holders(b)) \in Nat
        /\ Cardinality(Holders(b)) <= bls[b].kr.readers
    BY <1>0, FiniteHolders DEF CountCoversHolders
  <2>2. Cardinality(Holders(b)') <= Cardinality(Holders(b)) /\ Cardinality(Holders(b)') \in Nat
    BY <1>2, <2>1, FS_Subset, FS_CardinalityType
  <2> QED BY <1>0, <1>2, <2>1, <2>2
<1>3. CASE ~IncCas(p) /\ ~DecCas(p)
  <2>1. \A b \in Blk : Holders(b)' \subseteq Holders(b)
    <3>1. held'[p] \in {0, held[p]} /\ (held'[p] > 0 => at'[p].idx = at[p].idx)
      BY <1>3, OnlyTheExchanges
    <3> QED BY <1>0, <1>1, <3>1 DEF Holders
  <2>2. CASE AllocInit(p) \/ AllocMark(p) \/ AllocClear(p)
    <3>0. PICK b \in Blk : b = at[p].idx
      BY <1>0, <2>2, FillsEntry
    <3>1. \A c \in Blk : c # b => bls'[c] = bls[c]
      BY <1>0, <2>2, <3>0 DEF AllocInit, AllocMark, AllocClear, TypeOK
    <3>2. bls'[b].kr.readers >= 0
      <4>1. CASE AllocInit(p)
        BY <1>0, <3>0, <4>1 DEF AllocInit, TypeOK, NoKr
      <4>2. CASE AllocMark(p)
        BY <1>0, <3>0, <4>2 DEF AllocMark, TypeOK, KeyReaders
      <4>3. CASE AllocClear(p)
        <5>1. PICK r \in 0 .. Bl(p).kr.readers :
                SetBl(p, [Bl(p) EXCEPT !.kr.isDeleted = FALSE, !.kr.readers = r])
          BY <4>3 DEF AllocClear
        <5>2. bls'[b].kr.readers = r /\ r >= 0
          BY <1>0, <3>0, <5>1 DEF TypeOK
        <5> QED BY <5>2
      <4> QED BY <2>2, <4>1, <4>2, <4>3
    <3>3. \A q \in Proc : at[q].idx = b => held[q] = 0
      <4> SUFFICES ASSUME NEW q \in Proc, at[q].idx = b, held[q] # 0 PROVE FALSE
        OBVIOUS
      <4>1. Matches(q) /\ Added(q) > 0
        BY <1>0 DEF Counted
      <4>2. at[q].version = bls[b].version /\ at[q].version > 0 /\ q # p
        BY <1>0, <2>2, <3>0, <4>1, FillsEntry
           DEF Matches, Flow, Added, Allocating, InInc, InDec
      <4>3. CASE AllocInit(p)
        BY <1>0, <3>0, <4>2, <4>3 DEF AllocInit, Finds
      <4>4. CASE AllocMark(p)
        BY <1>0, <3>0, <4>2, <4>4 DEF AllocMark, Finds, Matches, StrInv, Apart, Fresh, Numbered
      <4>5. CASE AllocClear(p)
        BY <1>0, <3>0, <4>2, <4>5 DEF AllocClear, Finds, Matches, StrInv, Apart, Fresh, Numbered
      <4> QED BY <2>2, <4>3, <4>4, <4>5
    <3>4. Holders(b)' = {}
      <4>1. Holders(b) = {}
        BY <1>0, <3>3 DEF Holders
      <4> QED BY <2>1, <4>1
    <3>5. Cardinality(Holders(b)') <= bls'[b].kr.readers
      BY <3>2, <3>4, FS_EmptySet
    <3> QED BY <1>2, <2>1, <3>1, <3>5 DEF CountCoversHolders
  <2>3. CASE FreeZero(p)
    <3>1. \A b \in Blk : bls'[b].kr.readers = bls[b].kr.readers
      BY <1>0, <2>3 DEF FreeZero, TypeOK
    <3> QED BY <1>2, <2>1, <3>1 DEF CountCoversHolders
  <2>4. CASE bls' = bls
    BY <1>2, <2>1, <2>4 DEF CountCoversHolders
  <2>5. AllocInit(p) \/ AllocMark(p) \/ AllocClear(p) \/ FreeZero(p) \/ bls' = bls
    BY <1>3
       DEF Step, AllocNxt, AllocVer, PutWrite, PutPublish, Delete, Lookup, IncLoad,
           IncRefused, IncAccepted, IncRetry, GetTooLong, GetRead, Copy, DecLoad,
           DecRefused, DecAccepted, DecRetry, FreeGive
  <2> QED BY <2>2, <2>3, <2>4, <2>5
<1>4. CASE IncCas(p)
  <2>0. PICK b \in Blk : b = at[p].idx
    BY <1>0, <1>4 DEF IncCas
  <2> DEFINE h == <<p, held[p] + 1>>
  <2>1. /\ at' = at /\ held'[p] \in {held[p], held[p] + 1}
        /\ \A c \in Blk : c # b => bls'[c] = bls[c]
    BY <1>0, <1>4, <2>0 DEF IncCas, TypeOK
  <2>2. bls'[b].kr.readers = bls[b].kr.readers + 1
    BY <1>0, <1>4, <2>0 DEF IncCas, TypeOK, KeyReaders
  <2>3. \A c \in Blk : c # b => Holders(c)' \subseteq Holders(c)
    BY <1>0, <1>1, <2>0, <2>1 DEF Holders
  <2>4. Holders(b)' \subseteq Holders(b) \union {h}
    <3> SUFFICES ASSUME NEW g \in Holders(b)' PROVE g \in Holders(b) \union {h}
      OBVIOUS
    <3>1. PICK q \in Proc, n \in {1, 2} : g = <<q, n>>
      BY DEF Holders
    <3>2. at'[q].idx = b /\ n <= held'[q]
      BY <2>1, <3>1 DEF Holders
    <3>3. CASE q = p /\ n = held[p] + 1
      BY <3>1, <3>3
    <3>4. CASE ~(q = p /\ n = held[p] + 1)
      <4>1. n <= held[q]
        BY <1>0, <1>1, <2>1, <3>1, <3>2, <3>4
      <4> QED BY <2>1, <3>1, <3>2, <4>1 DEF Holders
    <3> QED BY <3>3, <3>4
  <2>5. /\ IsFiniteSet(Holders(b)) /\ Cardinality(Holders(b)) \in Nat
        /\ Cardinality(Holders(b)) <= bls[b].kr.readers
    BY <1>0, <2>1, FiniteHolders DEF CountCoversHolders
  <2>6. /\ IsFiniteSet(Holders(b) \union {h})
        /\ Cardinality(Holders(b) \union {h}) <= Cardinality(Holders(b)) + 1
        /\ Cardinality(Holders(b) \union {h}) \in Nat
    <3>1. /\ IsFiniteSet(Holders(b) \union {h})
          /\ Cardinality(Holders(b) \union {h}) =
               IF h \in Holders(b) THEN Cardinality(Holders(b)) ELSE Cardinality(Holders(b)) + 1
      BY <2>5, FS_AddElement
    <3> QED BY <2>5, <3>1
  <2>7. /\ Cardinality(Holders(b)') <= Cardinality(Holders(b) \union {h})
        /\ Cardinality(Holders(b)') \in Nat
    BY <2>4, <2>6, FS_Subset, FS_CardinalityType
  <2>8. Cardinality(Holders(b)') <= bls'[b].kr.readers
    BY <1>0, <2>1, <2>2, <2>5, <2>6, <2>7
  <2> QED BY <1>2, <2>1, <2>3, <2>8 DEF CountCoversHolders
<1>5. CASE DecCas(p) /\ op[p] = "del"
  <2>1. \A b \in Blk : bls'[b].kr.readers = bls[b].kr.readers
    BY <1>0, <1>5 DEF DecCas, TypeOK, KeyReaders
  <2>2. held' = held /\ held[p] = 0
    BY <1>0, <1>5 DEF DecCas, Counted, Added
  <2>3. \A b \in Blk : Holders(b)' \subseteq Holders(b)
    BY <1>0, <1>1, <2>2 DEF Holders
  <2> QED BY <1>2, <2>1, <2>3 DEF CountCoversHolders
<1>6. CASE DecCas(p) /\ op[p] # "del"
  <2>0. PICK b \in Blk : b = at[p].idx
    BY <1>0, <1>6 DEF DecCas
  <2> DEFINE h == <<p, held[p]>>
  <2>1. /\ held[p] \in 1 .. 2 /\ held'[p] = held[p] - 1
        /\ \A c \in Blk : c # b => bls'[c] = bls[c]
    BY <1>0, <1>6, <2>0, ReaderCounted DEF DecCas, TypeOK
  <2>2. bls'[b].kr.readers = bls[b].kr.readers - 1
    BY <1>0, <1>6, <2>0 DEF DecCas, TypeOK, KeyReaders
  <2>3. held'[p] > 0 => at'[p] = at[p]
    <3>1. op[p] # "readBlock" => held'[p] = 0
      BY <1>6, <2>1, ReaderCounted DEF DecCas, Added
    <3> QED BY <1>0, <1>6, <3>1 DEF DecCas, AfterDec, TypeOK
  <2>4. \A c \in Blk : c # b => Holders(c)' \subseteq Holders(c)
    <3> SUFFICES ASSUME NEW c \in Blk, c # b, NEW g \in Holders(c)' PROVE g \in Holders(c)
      OBVIOUS
    <3>1. PICK q \in Proc, n \in {1, 2} : g = <<q, n>> /\ at'[q].idx = c /\ n <= held'[q]
      BY DEF Holders
    <3>2. q # p
      BY <2>0, <2>1, <2>3, <3>1
    <3> QED BY <1>1, <3>1, <3>2 DEF Holders
  <2>5. h \in Holders(b) /\ Holders(b)' \subseteq Holders(b) \ {h}
    <3>1. h \in Holders(b)
      BY <1>0, <2>0, <2>1 DEF Holders
    <3> SUFFICES ASSUME NEW g \in Holders(b)' PROVE g \in Holders(b) \ {h}
      BY <3>1
    <3>2. PICK q \in Proc, n \in {1, 2} : g = <<q, n>>
      BY DEF Holders
    <3>3. at'[q].idx = b /\ n <= held'[q]
      BY <3>2 DEF Holders
    <3>4. n <= held[q] /\ at[q].idx = b /\ ~(q = p /\ n = held[p])
      BY <1>0, <1>1, <2>1, <2>3, <3>2, <3>3
    <3>5. g # h /\ g \in Holders(b)
      BY <3>2, <3>4 DEF Holders
    <3> QED BY <3>5
  <2>6. /\ IsFiniteSet(Holders(b)) /\ Cardinality(Holders(b)) \in Nat
        /\ Cardinality(Holders(b)) <= bls[b].kr.readers
    BY <1>0, <2>1, FiniteHolders DEF CountCoversHolders
  <2>7. /\ IsFiniteSet(Holders(b) \ {h})
        /\ Cardinality(Holders(b) \ {h}) = Cardinality(Holders(b)) - 1
    BY <2>5, <2>6, FS_RemoveElement
  <2>8. /\ Cardinality(Holders(b)') <= Cardinality(Holders(b) \ {h})
        /\ Cardinality(Holders(b)') \in Nat
    BY <2>5, <2>7, FS_Subset, FS_CardinalityType
  <2>9. Cardinality(Holders(b)') <= bls'[b].kr.readers
    BY <1>0, <2>1, <2>2, <2>6, <2>7, <2>8
  <2> QED BY <1>2, <2>1, <2>4, <2>9 DEF CountCoversHolders
<1> QED BY <1>3, <1>4, <1>5, <1>6

------------------------------------------------------------------------------

(* The constructor of the store establishes the invariant.                 *)
LEMMA InitStrInv == Init => StrInv
<1> SUFFICES ASSUME Init PROVE StrInv
  OBVIOUS
<1>1. TypeOK
  <2>1. NoKr \in KeyReaders /\ 0 \in Vers /\ 1 \in 1 .. MaxVer + 1 /\ 0 \in 0 .. MaxShort
    BY BlkAssumption, ShortAssumption DEF NoKr, KeyReaders, Vers
  <2>2. [kr |-> NoKr, version |-> 0] \in [kr : KeyReaders, version : Vers]
    BY <2>1
  <2>3. bls \in [Blk -> [kr : KeyReaders, version : Vers]]
    BY <2>2 DEF Init
  <2> QED BY <2>1, <2>3 DEF Init, TypeOK, Pcs, Ops
<1>2. Local
  BY DEF Init, Local, Flow, Counted, Finds, Copied, Added, Matches, Allocating, Freeing,
         Deleting, InInc, InDec, Reads, NoVi
<1>3. Tabled
  BY DEF Init, Tabled
<1>4. Apart
  BY DEF Init, Apart, Alone, Fresh, Unread, Uses, Allocating, Freeing, Deleting, InDec, Numbered
<1>5. CountCoversHolders
  <2> SUFFICES ASSUME NEW b \in Blk PROVE Cardinality(Holders(b)) <= bls[b].kr.readers
    BY DEF CountCoversHolders
  <2>1. Holders(b) = {}
    BY DEF Init, Holders
  <2>2. bls[b].kr.readers = 0
    BY DEF Init, NoKr
  <2> QED BY <2>1, <2>2, FS_EmptySet
<1> QED BY <1>1, <1>2, <1>3, <1>4, <1>5 DEF StrInv

(* Every step of every thread preserves it.                                *)
LEMMA NextStrInv == StrInv /\ [Next]_vars => StrInv'
<1> SUFFICES ASSUME StrInv, [Next]_vars PROVE StrInv'
  OBVIOUS
<1>1. CASE Next
  <2>1. PICK p \in Proc : Step(p)
    BY <1>1 DEF Next, Step
  <2>2. Local'
    <3> SUFFICES ASSUME NEW q \in Proc PROVE Flow(q)' /\ Counted(q)' /\ Finds(q)' /\ Copied(q)'
      BY DEF Local
    <3> QED BY <2>1, MineKept, OthersKeep
  <2> QED BY <2>1, <2>2, StepTypes, TabledKept, AloneKept, FreshKept, UnreadKept, CountKept
          DEF StrInv, Apart
<1>2. CASE UNCHANGED vars
  BY <1>2 DEF vars, StrInv, TypeOK, Local, Flow, Counted, Finds, Copied, Added, Matches, Bl,
              Tabled, Apart, Alone, Fresh, Unread, Uses, Allocating, Freeing, Deleting, InInc,
              InDec, Reads, Numbered, CountCoversHolders, Holders
<1> QED BY <1>1, <1>2

(* Blocks pass from hand to hand as put(), get(), compare() and del()      *)
(* mean them to, however their loads and exchanges interleave.             *)
THEOREM StrInvariant == Spec => []StrInv
<1> QED BY InitStrInv, NextStrInv, PTL DEF Spec

(* Versions, flags and counts keep their types; decReadersOrDel() never    *)
(* takes a reader off a count of zero.                                     *)
THEOREM StrTypeCorrect == Spec => []TypeOK
<1>1. StrInv => TypeOK
  BY DEF StrInv
<1> QED BY <1>1, StrInvariant, PTL

(* Once a thread is a reader of the version it asked for, the block keeps  *)
(* that version and its bytes and is not free (simdb.hpp:581), although    *)
(* incReaders() compares the version outside its compare-exchange.         *)
THEOREM BlockStays == Spec => []ReadersKeepBlock
<1>1. StrInv => ReadersKeepBlock
  <2> SUFFICES ASSUME StrInv, NEW p \in Proc, held[p] > 0
               PROVE  /\ Bl(p).version = at[p].version
                      /\ bytes[at[p].idx] = at[p].version
                      /\ at[p].idx \notin pool
    BY DEF ReadersKeepBlock
  <2>1. Matches(p) /\ Added(p) > 0 /\ Flow(p) /\ Finds(p)
    BY DEF StrInv, Local, Counted
  <2>2. Reads(p) /\ pc[p] \notin {"idle", "ver"}
    BY <2>1 DEF Added, Reads, Flow, Allocating
  <2>3. Bl(p).version = at[p].version /\ bytes[at[p].idx] = at[p].version
    BY <2>1, <2>2 DEF Matches, Finds
  <2>4. at[p].version > 0
    BY <2>1, <2>2 DEF Flow
  <2> QED BY <2>3, <2>4 DEF StrInv, Tabled, Bl
<1> QED BY <1>1, StrInvariant, PTL

(* get() copies bytes of the pair it found, or none, and a comparison that *)
(* looked at another version is not used.                                  *)
THEOREM CopiesItsOwn == Spec => []CopyIsOwn
<1>1. StrInv => CopyIsOwn
  BY DEF StrInv, Local, Copied, CopyIsOwn
<1> QED BY <1>1, StrInvariant, PTL

(* A block is freed by one thread, once, after its pair has left the       *)
(* table, and allocated by one.                                            *)
THEOREM FreesOnce == Spec => []FreedOnce
<1>1. StrInv => FreedOnce
  <2> SUFFICES ASSUME StrInv PROVE FreedOnce
    OBVIOUS
  <2>1. \A r \in live : r.version \in Int /\ r.idx \notin pool
    BY DEF StrInv, TypeOK, VerIdx, Vers, Tabled
  <2> QED BY <2>1 DEF StrInv, Tabled, Apart, Alone, Uses, FreedOnce
<1> QED BY <1>1, StrInvariant, PTL

(* The readers counted in a block include every thread that holds it,      *)
(* although alloc() overwrites the word the count is in.                   *)
THEOREM CountCovers == Spec => []CountCoversHolders
<1>1. StrInv => CountCoversHolders
  BY DEF StrInv
<1> QED BY <1>1, StrInvariant, PTL
=============================================================================
