------------------------------- MODULE CncrStr -------------------------------
(***************************************************************************)
(* The concurrent store of simdb.hpp (class CncrStr): who may touch a      *)
(* block, and who gives it back.                                           *)
(*                                                                         *)
(* Every block has a BlkLst entry in shared memory: a version, and one     *)
(* 32-bit word kr with the flags isKey and isDeleted and the number of     *)
(* readers.  alloc() gives a block a new version; the hash table publishes *)
(* the pair (index, version); readers that found the pair count themselves *)
(* in kr, and the deleter or the last reader frees the block.  The version *)
(* is read beside the compare-exchange of kr, not in it.                   *)
(*                                                                         *)
(* Lists have one block.  The free list is the atomic pool that CncrLst    *)
(* implements for such lists, and the hash table is the set of published   *)
(* pairs: a pair is removed from it once, by the compare-exchange of       *)
(* putHashed() or delHashed() that replaces it.                            *)
(***************************************************************************)
EXTENDS Integers, FiniteSets

CONSTANTS
  Blk,          \* the blocks
  NoBlk,        \* not a block: LIST_END
  Proc,         \* threads of all processes that have the database open
  MaxVer,       \* bound: versions handed out, 2^32 - 1 in the code
  MaxRd,        \* bound: readers of one block, 2^29 - 1 in the code
  MaxShort      \* bound: calls of get() with a buffer smaller than the value

ASSUME BlkAssumption == NoBlk \notin Blk /\ MaxVer \in Nat \ {0} /\ MaxRd \in Nat \ {0}
ASSUME ShortAssumption == MaxShort \in Nat
ASSUME ProcAssumption == IsFiniteSet(Proc)

VARIABLES
  pool,       \* s_cl: the free blocks
  sver,       \* s_version: the next version
  bls,        \* s_bls: kr and version of every block
  bytes,      \* s_blksAddr: the version whose put() wrote the block, 0 if none
  live,       \* the pairs the hash table holds
  pc,         \* where each thread stands
  op,         \* what it is doing: put, del, cmp, get, or the readBlock of a get
  at,         \* blkIdx and version, the arguments of the call
  kr,         \* cur: the word kr as incReaders or decReadersOrDel last saw it
  copied,     \* what memcpy or memcmp read: the version that wrote it
  held,       \* ghost: readers this thread has added to the version it asked for
  short       \* calls with too small a buffer so far

vars == <<pool, sver, bls, bytes, live, pc, op, at, kr, copied, held, short>>

Vers == 0 .. MaxVer
KeyReaders == [isKey : BOOLEAN, isDeleted : BOOLEAN, readers : 0 .. MaxRd]
NoKr == [isKey |-> FALSE, isDeleted |-> FALSE, readers |-> 0]
VerIdx == [idx : Blk, version : Vers]
NoVi == [idx |-> NoBlk, version |-> 0]

Bl(p) == bls[at[p].idx]
SetBl(p, e) == bls' = [bls EXCEPT ![at[p].idx] = e]
Go(p, l) == pc' = [pc EXCEPT ![p] = l]

------------------------------------------------------------------------------

(* The constructor, run by the owner of the shared memory.                 *)
Init ==
  /\ pool = Blk
  /\ sver = 1
  /\ bls = [b \in Blk |-> [kr |-> NoKr, version |-> 0]]
  /\ bytes = [b \in Blk |-> 0]
  /\ live = {}
  /\ pc = [p \in Proc |-> "idle"]
  /\ op = [p \in Proc |-> "none"]
  /\ at = [p \in Proc |-> NoVi]
  /\ kr = [p \in Proc |-> NoKr]
  /\ copied = [p \in Proc |-> 0]
  /\ held = [p \in Proc |-> 0]
  /\ short = 0

(* The call returns and forgets its local variables.                       *)
Return(p) ==
  /\ Go(p, "idle")
  /\ op' = [op EXCEPT ![p] = "none"]
  /\ at' = [at EXCEPT ![p] = NoVi]
  /\ kr' = [kr EXCEPT ![p] = NoKr]
  /\ copied' = [copied EXCEPT ![p] = 0]

(* decReadersOrDel() returns: from the readBlock() inside get() to the     *)
(* decReadersOrDel() of get() itself, otherwise to the hash table.         *)
AfterDec(p) ==
  \/ /\ op[p] = "readBlock"
     /\ op' = [op EXCEPT ![p] = "get"]
     /\ Go(p, "dec_load")
     /\ kr' = [kr EXCEPT ![p] = NoKr]
     /\ UNCHANGED <<at, copied>>
  \/ op[p] # "readBlock" /\ Return(p)

(* put() -> alloc(): s_cl.nxt(); with no free block put() returns false.   *)
AllocNxt(p) ==
  /\ pc[p] = "idle" /\ sver <= MaxVer
  /\ \E b \in pool :
       /\ pool' = pool \ {b}
       /\ at' = [at EXCEPT ![p] = [idx |-> b, version |-> 0]]
  /\ op' = [op EXCEPT ![p] = "put"]
  /\ Go(p, "ver")
  /\ UNCHANGED <<sver, bls, bytes, live, kr, copied, held, short>>

(* ver = s_version->fetch_add(1)                                           *)
AllocVer(p) ==
  /\ pc[p] = "ver" /\ sver <= MaxVer
  /\ sver' = sver + 1
  /\ at' = [at EXCEPT ![p].version = sver]
  /\ Go(p, "init")
  /\ UNCHANGED <<pool, bls, bytes, live, op, kr, copied, held, short>>

(* s_bls[cur] = BlkLst(false, 0, LIST_END, ver, size)                      *)
AllocInit(p) ==
  /\ pc[p] = "init"
  /\ SetBl(p, [kr |-> NoKr, version |-> at[p].version])
  /\ Go(p, "mark")
  /\ UNCHANGED <<pool, sver, bytes, live, op, at, kr, copied, held, short>>

(* s_bls[st].isKey = true is a plain read and write of the word kr, which  *)
(* has no flag yet and which, so, no late reader has seen.                 *)
AllocMark(p) ==
  /\ pc[p] = "mark"
  /\ SetBl(p, [Bl(p) EXCEPT !.kr.isKey = TRUE])
  /\ Go(p, "clear")
  /\ UNCHANGED <<pool, sver, bytes, live, op, at, kr, copied, held, short>>

(* So is s_bls[st].isDeleted = false: from isKey on the word may be the    *)
(* one that a late reader of the block's previous version has seen, and    *)
(* its increment may be overwritten.                                       *)
AllocClear(p) ==
  /\ pc[p] = "clear"
  /\ \E r \in 0 .. Bl(p).kr.readers :
       SetBl(p, [Bl(p) EXCEPT !.kr.isDeleted = FALSE, !.kr.readers = r])
  /\ Go(p, "write")
  /\ UNCHANGED <<pool, sver, bytes, live, op, at, kr, copied, held, short>>

(* CncrStr::put() writes key and value into the block.                     *)
PutWrite(p) ==
  /\ pc[p] = "write"
  /\ bytes' = [bytes EXCEPT ![at[p].idx] = at[p].version]
  /\ Go(p, "publish")
  /\ UNCHANGED <<pool, sver, bls, live, op, at, kr, copied, held, short>>

(* putHashed() stores the pair in an empty slot, or in the slot of an      *)
(* older pair of the key, which put() then frees.                          *)
PutPublish(p) ==
  /\ pc[p] = "publish"
  /\ \/ live' = live \union {at[p]} /\ Return(p)
     \/ \E r \in live :
          /\ live' = (live \ {r}) \union {at[p]}
          /\ at' = [at EXCEPT ![p] = r]
          /\ op' = [op EXCEPT ![p] = "del"]
          /\ Go(p, "dec_load")
          /\ UNCHANGED <<kr, copied>>
  /\ UNCHANGED <<pool, sver, bls, bytes, held, short>>

(* delHashed() takes a pair out of the table and del() frees it.           *)
Delete(p) ==
  /\ pc[p] = "idle"
  /\ \E r \in live :
       /\ live' = live \ {r}
       /\ at' = [at EXCEPT ![p] = r]
  /\ op' = [op EXCEPT ![p] = "del"]
  /\ Go(p, "dec_load")
  /\ UNCHANGED <<pool, sver, bls, bytes, kr, copied, held, short>>

(* A thread loads a pair from the table, for compare() or for get().       *)
Lookup(p) ==
  /\ pc[p] = "idle"
  /\ \E r \in live, o \in {"cmp", "get"} :
       /\ at' = [at EXCEPT ![p] = r]
       /\ op' = [op EXCEPT ![p] = o]
  /\ Go(p, "inc_load")
  /\ UNCHANGED <<pool, sver, bls, bytes, live, kr, copied, held, short>>

------------------------------------------------------------------------------

(* incReaders(): cur = areaders->load()                                    *)
IncLoad(p) ==
  /\ pc[p] = "inc_load"
  /\ kr' = [kr EXCEPT ![p] = Bl(p).kr]
  /\ Go(p, "inc_check")
  /\ UNCHANGED <<pool, sver, bls, bytes, live, op, at, copied, held, short>>

(* Mutant: the version of the block list is not looked at.                 *)
IncRefusesAnyVersion(p) == kr[p].isDeleted

(* The block has another version by now, or is being deleted.              *)
IncRefuses(p) == Bl(p).version # at[p].version \/ kr[p].isDeleted

(* incReaders() returns an empty BlkLst: get() and compare() return, and   *)
(* readBlock() makes get() go on to its decReadersOrDel().                 *)
IncRefused(p) ==
  /\ pc[p] = "inc_check" /\ IncRefuses(p)
  /\ AfterDec(p)
  /\ UNCHANGED <<pool, sver, bls, bytes, live, held, short>>

IncAccepted(p) ==
  /\ pc[p] = "inc_check" /\ ~IncRefuses(p)
  /\ Go(p, "inc_cas")
  /\ UNCHANGED <<pool, sver, bls, bytes, live, op, at, kr, copied, held, short>>

(* The exchange compares the word kr alone.                                *)
IncCas(p) ==
  /\ pc[p] = "inc_cas" /\ Bl(p).kr = kr[p] /\ kr[p].readers < MaxRd
  /\ SetBl(p, [Bl(p) EXCEPT !.kr.readers = @ + 1])
  /\ held' = [held EXCEPT ![p] = IF Bl(p).version = at[p].version THEN @ + 1 ELSE @]
  /\ Go(p, IF op[p] = "get" THEN "found" ELSE "copy")
  /\ kr' = [kr EXCEPT ![p] = NoKr]
  /\ UNCHANGED <<pool, sver, bytes, live, op, at, copied, short>>

IncRetry(p) ==
  /\ pc[p] = "inc_cas" /\ Bl(p).kr # kr[p]
  /\ kr' = [kr EXCEPT ![p] = Bl(p).kr]
  /\ Go(p, "inc_check")
  /\ UNCHANGED <<pool, sver, bls, bytes, live, op, at, copied, held, short>>

(* get(): the value does not fit the caller's buffer; return 0 at once.    *)
GetTooLong(p) ==
  /\ pc[p] = "found" /\ short < MaxShort
  /\ short' = short + 1
  /\ held' = [held EXCEPT ![p] = 0]
  /\ Return(p)
  /\ UNCHANGED <<pool, sver, bls, bytes, live>>

(* get() calls readBlock(), which counts itself as one more reader.        *)
GetRead(p) ==
  /\ pc[p] = "found"
  /\ op' = [op EXCEPT ![p] = "readBlock"]
  /\ Go(p, "inc_load")
  /\ UNCHANGED <<pool, sver, bls, bytes, live, at, kr, copied, held, short>>

(* memcpy() of readBlock(), memcmp() of memcmpBlk()                        *)
Copy(p) ==
  /\ pc[p] = "copy"
  /\ copied' = [copied EXCEPT ![p] = bytes[at[p].idx]]
  /\ Go(p, "dec_load")
  /\ UNCHANGED <<pool, sver, bls, bytes, live, op, at, kr, held, short>>

------------------------------------------------------------------------------

(* decReadersOrDel(): cur = areaders->load()                               *)
DecLoad(p) ==
  /\ pc[p] = "dec_load"
  /\ kr' = [kr EXCEPT ![p] = Bl(p).kr]
  /\ Go(p, "dec_check")
  /\ UNCHANGED <<pool, sver, bls, bytes, live, op, at, copied, held, short>>

(* The block has another version: return false.                            *)
DecRefused(p) ==
  /\ pc[p] = "dec_check" /\ Bl(p).version # at[p].version
  /\ AfterDec(p)
  /\ UNCHANGED <<pool, sver, bls, bytes, live, held, short>>

DecAccepted(p) ==
  /\ pc[p] = "dec_check" /\ Bl(p).version = at[p].version
  /\ Go(p, "dec_cas")
  /\ UNCHANGED <<pool, sver, bls, bytes, live, op, at, kr, copied, held, short>>

(* Mutant: deleting does not wait for the readers.                         *)
DoDeleteAtOnce(p) ==
  IF op[p] = "del" THEN ~kr[p].isDeleted ELSE kr[p].readers = 1 /\ kr[p].isDeleted

(* Mutant: the last reader frees the block, deleted or not.                *)
DoDeleteAnyway(p) ==
  IF op[p] = "del" THEN kr[p].readers = 0 /\ ~kr[p].isDeleted ELSE kr[p].readers = 1

(* The deleter frees a block without readers, the last reader a deleted    *)
(* one.                                                                    *)
DoDelete(p) ==
  IF op[p] = "del" THEN kr[p].readers = 0 /\ ~kr[p].isDeleted
                   ELSE kr[p].readers = 1 /\ kr[p].isDeleted

DecCas(p) ==
  /\ pc[p] = "dec_cas" /\ Bl(p).kr = kr[p]
  /\ \/ /\ op[p] = "del"
        /\ SetBl(p, [Bl(p) EXCEPT !.kr.isDeleted = TRUE])
        /\ UNCHANGED held
     \/ /\ op[p] # "del"
        /\ SetBl(p, [Bl(p) EXCEPT !.kr.readers = @ - 1])
        /\ held' = [held EXCEPT ![p] = @ - 1]
  /\ \/ /\ DoDelete(p) /\ Go(p, "zero")
        /\ kr' = [kr EXCEPT ![p] = NoKr]
        /\ UNCHANGED <<op, at, copied>>
     \/ ~DoDelete(p) /\ AfterDec(p)
  /\ UNCHANGED <<pool, sver, bytes, live, short>>

DecRetry(p) ==
  /\ pc[p] = "dec_cas" /\ Bl(p).kr # kr[p]
  /\ kr' = [kr EXCEPT ![p] = Bl(p).kr]
  /\ Go(p, "dec_check")
  /\ UNCHANGED <<pool, sver, bls, bytes, live, op, at, copied, held, short>>

(* doFree() -> findEndSetVersion(): the version becomes 0.                 *)
FreeZero(p) ==
  /\ pc[p] = "zero"
  /\ SetBl(p, [Bl(p) EXCEPT !.version = 0])
  /\ Go(p, "give")
  /\ UNCHANGED <<pool, sver, bytes, live, op, at, kr, copied, held, short>>

(* doFree() -> s_cl.free()                                                 *)
FreeGive(p) ==
  /\ pc[p] = "give"
  /\ pool' = pool \union {at[p].idx}
  /\ AfterDec(p)
  /\ UNCHANGED <<sver, bls, bytes, live, held, short>>

Next ==
  \E p \in Proc :
    \/ AllocNxt(p) \/ AllocVer(p) \/ AllocInit(p) \/ AllocMark(p) \/ AllocClear(p)
    \/ PutWrite(p) \/ PutPublish(p) \/ Delete(p) \/ Lookup(p)
    \/ IncLoad(p) \/ IncRefused(p) \/ IncAccepted(p) \/ IncCas(p) \/ IncRetry(p)
    \/ GetTooLong(p) \/ GetRead(p) \/ Copy(p)
    \/ DecLoad(p) \/ DecRefused(p) \/ DecAccepted(p) \/ DecCas(p) \/ DecRetry(p)
    \/ FreeZero(p) \/ FreeGive(p)

Spec == Init /\ [][Next]_vars

------------------------------------------------------------------------------

Pcs == {"idle", "ver", "init", "mark", "clear", "write", "publish",
        "inc_load", "inc_check", "inc_cas", "found", "copy",
        "dec_load", "dec_check", "dec_cas", "zero", "give"}
Ops == {"none", "put", "del", "cmp", "get", "readBlock"}

(* Every variable has the type the code declares for it; in particular the *)
(* signed field readers never becomes negative.                            *)
TypeOK ==
  /\ pool \subseteq Blk
  /\ sver \in 1 .. MaxVer + 1
  /\ bls \in [Blk -> [kr : KeyReaders, version : Vers]]
  /\ bytes \in [Blk -> Vers]
  /\ live \subseteq VerIdx
  /\ pc \in [Proc -> Pcs]
  /\ op \in [Proc -> Ops]
  /\ at \in [Proc -> VerIdx \union {NoVi}]
  /\ kr \in [Proc -> KeyReaders]
  /\ copied \in [Proc -> Vers]
  /\ held \in [Proc -> 0 .. 2]
  /\ short \in 0 .. MaxShort

(* "after readers has been incremented this block list entry is not going  *)
(* away" (simdb.hpp:581): as long as a thread is counted as a reader of    *)
(* the version it asked for, the block keeps that version and its bytes    *)
(* and is not free.                                                        *)
ReadersKeepBlock ==
  \A p \in Proc : held[p] > 0 =>
    /\ Bl(p).version = at[p].version
    /\ bytes[at[p].idx] = at[p].version
    /\ at[p].idx \notin pool

(* get() returns bytes of the pair it found and of no other, and a         *)
(* comparison counts only if it looked at the pair it was asked about: one *)
(* that looked at another version ends in decReadersOrDel() noticing it.   *)
CopyIsOwn ==
  \A p \in Proc :
    copied[p] # 0 /\ (op[p] # "cmp" \/ pc[p] \notin {"dec_load", "dec_check"})
      => copied[p] = at[p].version

Allocating(p) == pc[p] \in {"ver", "init", "mark", "clear", "write", "publish"}
Freeing(p) == pc[p] \in {"zero", "give"}

(* A block is given back once, by one thread, and only when the table no   *)
(* longer holds its pair: what the table holds is a written block with the *)
(* version of the pair.                                                    *)
FreedOnce ==
  /\ \A r \in live :
       /\ bls[r.idx].version = r.version /\ ~bls[r.idx].kr.isDeleted
       /\ bytes[r.idx] = r.version /\ r.idx \notin pool
  /\ \A p \in Proc : Allocating(p) \/ Freeing(p) =>
       /\ at[p].idx \notin pool
       /\ \A r \in live : r.idx # at[p].idx
       /\ \A q \in Proc : q # p /\ (Allocating(q) \/ Freeing(q)) => at[q].idx # at[p].idx

(* "the last one out cleans up" (simdb.hpp:39): when no call is in         *)
(* progress every block is in the table or free.                           *)
LastOneOutCleansUp ==
  (\A p \in Proc : pc[p] = "idle") => Blk = pool \union {r.idx : r \in live}

(* Each thread as often as it is a reader of the version it asked for.     *)
Holders(b) == {h \in Proc \X {1, 2} : at[h[1]].idx = b /\ h[2] <= held[h[1]]}

(* Beyond what get() reports: the readers counted in a block include every *)
(* thread that holds it, so that the count errs on the safe side only.     *)
CountCoversHolders == \A b \in Blk : Cardinality(Holders(b)) <= bls[b].kr.readers
=============================================================================
