------------------------------- MODULE CncrHsh -------------------------------
(***************************************************************************)
(* The concurrent hash table of simdb.hpp (class CncrHsh): an array of     *)
(* slots, each a 64-bit word with the index and the version of a block     *)
(* list, searched by linear probing from the slot the key hashes to.       *)
(* One action is one access to a slot or one call of the store.            *)
(*                                                                         *)
(* An entry is one (index, version) pair; alloc() gives every put() a new  *)
(* one.  The store is reduced to what the table sees of it: an entry is in *)
(* use until it is freed, and what CncrStr shows of readers and deleters   *)
(* makes free() one step.                                                  *)
(***************************************************************************)
EXTENDS Integers, FiniteSets

CONSTANTS
  N,          \* m_sz: number of slots, and of blocks in the store
  Key,        \* the keys
  Home,       \* Home[k]: hash of the key modulo the number of slots
  Proc,       \* threads of all processes that have the database open
  Puts, Dels, \* Puts[p], Dels[p]: the keys that thread p puts, deletes
  Replace,    \* the keys for which put() is called when they are in the table
  MaxEnt      \* bound: entries allocated

Slot == 0 .. N - 1
Entry == 1 .. MaxEnt
None == 0
EMPTY == -1
DELETED == -2

ASSUME SlotAssumption == N \in Nat \ {0, 1} /\ MaxEnt \in Nat
ASSUME HomeAssumption == Key # {} /\ Home \in [Key -> Slot]
ASSUME PutsAssumption ==
  /\ Puts \in [Proc -> SUBSET Key] /\ Dels \in [Proc -> SUBSET Key]
  /\ Replace \subseteq Key

VARIABLES
  s_vis,      \* the slots
  ent,        \* the entries: their key, and whether they are allocated
  nent,       \* number of entries allocated so far
  pub,        \* ghost: entries that have been in a slot
  pc,         \* where each thread stands
  key,        \* the key of the call
  i,          \* the slot it looks at
  vi,         \* what it found there
  mine,       \* the entry put() allocated, or the one del() took out
  res,        \* what a get() that is about to return found
  seen        \* ghost: what the key of the call has had as its value during it

vars == <<s_vis, ent, nent, pub, pc, key, i, vi, mine, res, seen>>

(* Mutant: the search does not wrap around.                                *)
nxtIdxNoWrap(j) == j + 1

(* Mutant: the last slot of a search is taken to be its first.             *)
prevIdxSame(j) == j

nxtIdx(j) == (j + 1) % N
prevIdx(j) == IF j = 0 THEN N - 1 ELSE j - 1
en(p) == prevIdx(Home[key[p]])

Real(v) == v \in Entry

(* The entry a search for the key would find in a table at rest.           *)
Probe(k, n) == (Home[k] + n) % N
Holds(k, n) == Real(s_vis[Probe(k, n)]) /\ ent[s_vis[Probe(k, n)]].key = k
Found(k) ==
  IF \E n \in Slot : Holds(k, n)
  THEN s_vis[Probe(k, CHOOSE n \in Slot : Holds(k, n) /\ \A m \in 0 .. n - 1 : ~Holds(k, m))]
  ELSE None
kv == [k \in Key |-> Found(k)]

Go(p, l) == pc' = [pc EXCEPT ![p] = l]
Look(p, j) == i' = [i EXCEPT ![p] = j]
Watch == seen' = [p \in Proc |-> IF pc'[p] = "idle" THEN {}
                                 ELSE seen[p] \union {kv'[key'[p]]}]

------------------------------------------------------------------------------

(* init(), run by the owner of the shared memory.                          *)
Init ==
  /\ s_vis = [j \in Slot |-> EMPTY]
  /\ ent = [e \in Entry |-> [key |-> CHOOSE k \in Key : TRUE, used |-> FALSE]]
  /\ nent = 0
  /\ pub = {}
  /\ pc = [p \in Proc |-> "idle"]
  /\ key = [p \in Proc |-> CHOOSE k \in Key : TRUE]
  /\ i = [p \in Proc |-> 0]
  /\ vi = [p \in Proc |-> EMPTY]
  /\ mine = [p \in Proc |-> None]
  /\ res = [p \in Proc |-> None]
  /\ seen = [p \in Proc |-> {}]

Return(p) ==
  /\ Go(p, "idle")
  /\ Look(p, 0)
  /\ key' = [key EXCEPT ![p] = CHOOSE k \in Key : TRUE]
  /\ vi' = [vi EXCEPT ![p] = EMPTY]
  /\ mine' = [mine EXCEPT ![p] = None]
  /\ res' = [res EXCEPT ![p] = None]

Begin(p, k, l) ==
  /\ pc[p] = "idle"
  /\ key' = [key EXCEPT ![p] = k]
  /\ Look(p, Home[k])
  /\ Go(p, l)

(* The search moves to the next slot, or ends where the last one was.      *)
Onward(p, l, last) ==
  \/ i[p] # en(p) /\ Look(p, nxtIdx(i[p])) /\ Go(p, l) /\ UNCHANGED <<key, vi, mine, res>>
  \/ i[p] = en(p) /\ last

(* VerIdx vi = load(i)                                                     *)
Load(p) == vi' = [vi EXCEPT ![p] = s_vis[i[p]]]

(* Mutant: the key bytes are not compared.                                 *)
compareAnyKey(e, k) == IF ent[e].used THEN {"TRUE"} ELSE {"FALSE", "REMOVED"}

(* Mutant: a key never matches.                                            *)
compareNever(e, k) == {"FALSE"}

(* CncrStr::compare(): an entry that has been freed has another version by *)
(* now, or its readers refuse; a search cannot know which comes first.     *)
compare(e, k) ==
  IF ent[e].key # k THEN {"FALSE"}
  ELSE IF ent[e].used THEN {"TRUE"} ELSE {"FALSE", "REMOVED"}

(* Mutant: the slot is overwritten without comparing.                      *)
CmpexOverwrites(p) == TRUE

(* cmpex_vi(i, vi, desired)                                                *)
CmpexOk(p) == s_vis[i[p]] = vi[p]

InUse == {e \in Entry : ent[e].used}

------------------------------------------------------------------------------

(* put(): alloc() and CncrStr::put(); false when no block is free.         *)
PutStart(p, k) ==
  /\ k \in Puts[p] /\ nent < MaxEnt
  /\ Cardinality(InUse) < N
  /\ k \in Replace \/ Found(k) = None
  /\ Begin(p, k, "put_load")
  /\ nent' = nent + 1
  /\ ent' = [ent EXCEPT ![nent + 1] = [key |-> k, used |-> TRUE]]
  /\ mine' = [mine EXCEPT ![p] = nent + 1]
  /\ UNCHANGED <<s_vis, pub, vi, res>>

PutLoad(p) ==
  /\ pc[p] = "put_load"
  /\ Load(p)
  /\ Go(p, IF Real(s_vis[i[p]]) THEN "put_cmp" ELSE "put_cas")
  /\ UNCHANGED <<s_vis, ent, nent, pub, key, i, mine, res>>

(* Only an entry of the same key is replaced; when the search comes to its *)
(* end put() reports success without having stored anything.               *)
PutCompare(p) ==
  /\ pc[p] = "put_cmp"
  /\ \E m \in compare(vi[p], key[p]) :
       \/ m = "TRUE" /\ Go(p, "put_cas") /\ UNCHANGED <<key, i, vi, mine, res>>
       \/ m # "TRUE" /\ Onward(p, "put_load", Return(p))
  /\ UNCHANGED <<s_vis, ent, nent, pub>>

(* The new entry takes the slot; put() frees the entry it replaced.        *)
PutCas(p) ==
  /\ pc[p] = "put_cas" /\ CmpexOk(p)
  /\ s_vis' = [s_vis EXCEPT ![i[p]] = mine[p]]
  /\ pub' = pub \union {mine[p]}
  /\ \/ /\ Real(vi[p])
        /\ mine' = [mine EXCEPT ![p] = vi[p]]
        /\ Go(p, "free")
        /\ UNCHANGED <<key, i, vi, res>>
     \/ ~Real(vi[p]) /\ Return(p)
  /\ UNCHANGED <<ent, nent>>

PutRetry(p) ==
  /\ pc[p] = "put_cas" /\ ~CmpexOk(p)
  /\ Go(p, "put_load")
  /\ UNCHANGED <<s_vis, ent, nent, pub, key, i, vi, mine, res>>

(* put() and del(): m_csp->free(vi.idx, vi.version)                        *)
Free(p) ==
  /\ pc[p] = "free"
  /\ ent' = [ent EXCEPT ![mine[p]].used = FALSE]
  /\ Return(p)
  /\ UNCHANGED <<s_vis, nent, pub>>

------------------------------------------------------------------------------

(* get() -> runMatch(); len() searches in the same way.                    *)
GetStart(p, k) ==
  /\ Begin(p, k, "get_load")
  /\ UNCHANGED <<s_vis, ent, nent, pub, vi, mine, res>>

Missed(p) == Go(p, "ret") /\ UNCHANGED <<key, i, vi, mine, res>>

GetLoad(p) ==
  /\ pc[p] = "get_load"
  /\ \/ /\ Real(s_vis[i[p]])
        /\ Load(p)
        /\ Go(p, "get_cmp")
        /\ UNCHANGED <<key, i, mine, res>>
     \/ ~Real(s_vis[i[p]]) /\ Onward(p, "get_load", Missed(p))
  /\ UNCHANGED <<s_vis, ent, nent, pub>>

GetCompare(p) ==
  /\ pc[p] = "get_cmp"
  /\ \E m \in compare(vi[p], key[p]) :
       \/ m = "TRUE" /\ Go(p, "get_read") /\ UNCHANGED <<key, i, vi, mine, res>>
       \/ m # "TRUE" /\ Onward(p, "get_load", Missed(p))
  /\ UNCHANGED <<s_vis, ent, nent, pub>>

(* m_csp->get() reads the value of an entry that is still allocated; the   *)
(* result of the call is true in any case.                                 *)
GetRead(p) ==
  /\ pc[p] = "get_read"
  /\ res' = [res EXCEPT ![p] = IF ent[vi[p]].used THEN vi[p] ELSE EMPTY]
  /\ Go(p, "ret")
  /\ UNCHANGED <<s_vis, ent, nent, pub, key, i, vi, mine>>

GetReturn(p) ==
  /\ pc[p] = "ret"
  /\ Return(p)
  /\ UNCHANGED <<s_vis, ent, nent, pub>>

------------------------------------------------------------------------------

DelStart(p, k) ==
  /\ k \in Dels[p]
  /\ Begin(p, k, "del_load")
  /\ UNCHANGED <<s_vis, ent, nent, pub, vi, mine, res>>

(* The loop of delHashed() ends before the last slot of the search.        *)
DelLoad(p) ==
  /\ pc[p] = "del_load"
  /\ \/ i[p] = en(p) /\ Return(p)
     \/ /\ i[p] # en(p) /\ Real(s_vis[i[p]])
        /\ Load(p)
        /\ Go(p, "del_cmp")
        /\ UNCHANGED <<key, i, mine, res>>
     \/ /\ i[p] # en(p) /\ ~Real(s_vis[i[p]])
        /\ Look(p, nxtIdx(i[p]))
        /\ UNCHANGED <<pc, key, vi, mine, res>>
  /\ UNCHANGED <<s_vis, ent, nent, pub>>

DelCompare(p) ==
  /\ pc[p] = "del_cmp"
  /\ \E m \in compare(vi[p], key[p]) :
       \/ m = "TRUE" /\ Go(p, "del_cas") /\ UNCHANGED <<key, i, vi, mine, res>>
       \/ m = "REMOVED" /\ Return(p)
       \/ m = "FALSE" /\ Onward(p, "del_load", Return(p))
  /\ UNCHANGED <<s_vis, ent, nent, pub>>

DelCas(p) ==
  /\ pc[p] = "del_cas" /\ CmpexOk(p)
  /\ s_vis' = [s_vis EXCEPT ![i[p]] = DELETED]
  /\ mine' = [mine EXCEPT ![p] = vi[p]]
  /\ Go(p, "free")
  /\ UNCHANGED <<ent, nent, pub, key, i, vi, res>>

DelRetry(p) ==
  /\ pc[p] = "del_cas" /\ ~CmpexOk(p)
  /\ Go(p, "del_load")
  /\ UNCHANGED <<s_vis, ent, nent, pub, key, i, vi, mine, res>>

Act(p) ==
  \/ \E k \in Key : PutStart(p, k) \/ GetStart(p, k) \/ DelStart(p, k)
  \/ PutLoad(p) \/ PutCompare(p) \/ PutCas(p) \/ PutRetry(p) \/ Free(p)
  \/ GetLoad(p) \/ GetCompare(p) \/ GetRead(p) \/ GetReturn(p)
  \/ DelLoad(p) \/ DelCompare(p) \/ DelCas(p) \/ DelRetry(p)

Next == (\E p \in Proc : Act(p)) /\ Watch

Spec == Init /\ [][Next]_vars

------------------------------------------------------------------------------

Pcs == {"idle", "put_load", "put_cmp", "put_cas", "free", "get_load", "get_cmp",
        "get_read", "ret", "del_load", "del_cmp", "del_cas"}

(* Every variable has the type the code declares for it.                   *)
TypeOK ==
  /\ s_vis \in [Slot -> Entry \union {EMPTY, DELETED}]
  /\ ent \in [Entry -> [key : Key, used : BOOLEAN]]
  /\ nent \in 0 .. MaxEnt /\ pub \subseteq Entry
  /\ pc \in [Proc -> Pcs] /\ key \in [Proc -> Key] /\ i \in [Proc -> Slot]
  /\ vi \in [Proc -> Entry \union {EMPTY, DELETED}]
  /\ mine \in [Proc -> Entry \union {None}]
  /\ res \in [Proc -> Entry \union {None, EMPTY}]
  /\ seen \in [Proc -> SUBSET (Entry \union {None})]

InHand(e) == {p \in Proc : mine[p] = e}
At(e) == {j \in Slot : s_vis[j] = e}

(* Every allocated entry is in one slot, or in the hands of the one thread *)
(* that is about to store or to free it; a slot holds no freed entry.      *)
EntryAccounted ==
  \A e \in Entry :
    Cardinality(At(e)) + Cardinality(InHand(e)) = IF ent[e].used THEN 1 ELSE 0

(* Of a key that is put only while absent, a get() returns a value the key *)
(* had at some moment of the call and misses only a key that was absent at *)
(* some moment of the call; it returns true without having read a value    *)
(* only if the key was deleted during the call.  A key whose value is      *)
(* replaced may be missed: runMatch() does not look at a slot again.       *)
GetIsCurrent ==
  \A p \in Proc : pc[p] = "ret" /\ key[p] \notin Replace =>
    res[p] \in seen[p] \/ (res[p] = EMPTY /\ None \in seen[p])

(* A del() of such a key gives up only if the key was absent at some       *)
(* moment of the call.                                                     *)
DelIsCurrent ==
  [][\A p \in Proc :
       pc[p] \in {"del_load", "del_cmp"} /\ pc'[p] = "idle" /\ key[p] \notin Replace
         => None \in seen[p]]_vars

(* The table is a map: a key has the value of its last put(), none after   *)
(* del(), and a value that was replaced or deleted does not come back.     *)
Map == INSTANCE KVStore WITH used <- pub
MapSpec == Map!Spec
=============================================================================
