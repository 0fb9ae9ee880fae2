--------------------------- MODULE SimdbFileProofs ---------------------------
(***************************************************************************)
(* Proofs about the shared memory file behind a simdb object, for any      *)
(* number of processes, files and crashes and any word size.               *)
(***************************************************************************)
EXTENDS SimdbFile, TLAPS

Creating(p) == pc[p] \in {"truncate", "header", "tables", "flags"}
Ready(f) == shm[f].header /\ shm[f].tables

(* A process has a file from the moment it has opened it until it returns, *)
(* and files are created once.                                             *)
Mapped ==
  /\ \A p \in Proc : IF pc[p] \in {"closed", "create"} THEN map[p] = None
                                                       ELSE map[p] \in 1 .. nfile
  /\ path # None => path \in 1 .. nfile

FileTypes == TypeOK /\ Mapped

(* Whatever the path names has been given up by its creator or by the one  *)
(* that was to remove it, is being created or about to be removed, or is   *)
(* removed by the first process that closes it: flags is 1, and somebody   *)
(* has it open or has ended with it open.                                  *)
Kept ==
  path # None =>
    \/ path \in orphan.unfinished \union orphan.abandoned
    \/ \E p \in Proc : map[p] = path /\ (Creating(p) \/ pc[p] = "free")
    \/ /\ shm[path].flags = 1
       /\ path \in orphan.left \/ \E p \in Proc : map[p] = path /\ pc[p] = "open"

(* As long as nobody begins to open while another is at it, one process at *)
(* a time is in the constructor, and every file is initialised, abandoned, *)
(* or in the hands of that process.                                        *)
OneOpens == \A p, q \in Proc : Opening(p) /\ Opening(q) => p = q
StillMissing == \A p \in Proc : pc[p] = "create" => path = None
Stages ==
  /\ \A p \in Proc : pc[p] = "tables" => shm[map[p]].header
  /\ \A p \in Proc : pc[p] = "flags" => Ready(map[p])
Filled ==
  \A f \in 1 .. nfile :
    Ready(f) \/ f \in orphan.unfinished \/ \E p \in Proc : map[p] = f /\ Creating(p)
Attached ==
  \A p \in Proc : pc[p] \in {"attach", "open"} =>
    Ready(map[p]) \/ map[p] \in orphan.unfinished

Orderly == OneOpens /\ StillMissing /\ Stages /\ Filled /\ Attached
FileInv == Kept /\ (~raced => Orderly)

------------------------------------------------------------------------------

(* The words flags and cnt stay words when they are counted up and down.   *)
LEMMA WordArithmetic ==
  ASSUME NEW n \in 0 .. Word - 1
  PROVE  /\ 0 \in 0 .. Word - 1 /\ 1 \in 0 .. Word - 1
         /\ (n + 1) % Word \in 0 .. Word - 1
         /\ Decrement(n) \in 0 .. Word - 1
BY WordAssumption DEF Decrement

Contents == [sized : BOOLEAN, header : BOOLEAN, tables : BOOLEAN,
             flags : 0 .. Word - 1, cnt : 0 .. Word - 1]

(* What a process stores in its file leaves the others alone and undoes no *)
(* initialisation.                                                         *)
LEMMA Stores ==
  ASSUME shm \in [File -> Contents], NEW f \in File, NEW w \in 0 .. Word - 1,
         NEW s,
         \/ s = [shm EXCEPT ![f].sized = TRUE]
         \/ s = [shm EXCEPT ![f].header = TRUE, ![f].cnt = 1]
         \/ s = [shm EXCEPT ![f].tables = TRUE]
         \/ s = [shm EXCEPT ![f].cnt = w]
         \/ s = [shm EXCEPT ![f].flags = w]
  PROVE  /\ s \in [File -> Contents]
         /\ \A g \in File : g # f => s[g] = shm[g]
         /\ \A g \in File : shm[g].header => s[g].header
         /\ \A g \in File : shm[g].tables => s[g].tables
<1>1. shm[f] \in Contents /\ 1 \in 0 .. Word - 1
  BY WordArithmetic
<1>2. CASE s = [shm EXCEPT ![f].sized = TRUE]
  BY <1>1, <1>2 DEF Contents
<1>3. CASE s = [shm EXCEPT ![f].header = TRUE, ![f].cnt = 1]
  BY <1>1, <1>3 DEF Contents
<1>4. CASE s = [shm EXCEPT ![f].tables = TRUE]
  BY <1>1, <1>4 DEF Contents
<1>5. CASE s = [shm EXCEPT ![f].cnt = w]
  BY <1>1, <1>5 DEF Contents
<1>6. CASE s = [shm EXCEPT ![f].flags = w]
  BY <1>1, <1>6 DEF Contents
<1> QED BY <1>2, <1>3, <1>4, <1>5, <1>6

Acts(p) ==
  \/ OpenExisting(p) \/ OpenMissing(p) \/ Create(p) \/ Truncate(p)
  \/ OwnerHeader(p) \/ OwnerTables(p) \/ OwnerFlags(p) \/ Attach(p)
  \/ Close(p) \/ DestroyLoad(p) \/ DestroyDrop(p) \/ FreeAnon(p)
  \/ OpenFails(p) \/ Crash(p)

(* A step of a process touches no file but its own, and undoes nothing.    *)
LEMMA OwnFile ==
  ASSUME FileTypes, NEW p \in Proc, Acts(p)
  PROVE  /\ shm' \in [File -> Contents]
         /\ \A g \in File : g # map[p] => shm'[g] = shm[g]
         /\ \A g \in File : shm[g].header => shm'[g].header
         /\ \A g \in File : shm[g].tables => shm'[g].tables
<1>1. /\ shm \in [File -> Contents]
      /\ pc[p] \notin {"closed", "create"} => map[p] \in File
      /\ map[p] \in File => shm[map[p]].flags \in 0 .. Word - 1 /\ shm[map[p]].cnt \in 0 .. Word - 1
  <2>1. shm \in [File -> Contents]
    BY DEF FileTypes, TypeOK, Contents
  <2>2. pc[p] \notin {"closed", "create"} => map[p] \in 1 .. nfile
    BY DEF FileTypes, Mapped
  <2>3. 1 .. nfile \subseteq File
    BY FileAssumption DEF FileTypes, TypeOK, File
  <2>4. ASSUME map[p] \in File
        PROVE  shm[map[p]].flags \in 0 .. Word - 1 /\ shm[map[p]].cnt \in 0 .. Word - 1
    <3>1. shm[map[p]] \in Contents
      BY <2>1, <2>4
    <3> QED BY <3>1 DEF Contents
  <2> QED BY <2>1, <2>2, <2>3, <2>4
<1>2. CASE UNCHANGED shm
  BY <1>1, <1>2
<1>3. CASE Truncate(p) \/ OwnerHeader(p) \/ OwnerTables(p)
  <2>1. map[p] \in File /\ 0 \in 0 .. Word - 1
    BY <1>1, <1>3, WordAssumption DEF Truncate, OwnerHeader, OwnerTables
  <2> QED BY <1>1, <1>3, <2>1, Stores DEF Truncate, OwnerHeader, OwnerTables
<1>4. ASSUME pc[p] \notin {"closed", "create"}, NEW w \in 0 .. Word - 1,
             shm' = [shm EXCEPT ![map[p]].cnt = w] \/ shm' = [shm EXCEPT ![map[p]].flags = w]
      PROVE  /\ shm' \in [File -> Contents]
             /\ \A g \in File : g # map[p] => shm'[g] = shm[g]
             /\ \A g \in File : shm[g].header => shm'[g].header
             /\ \A g \in File : shm[g].tables => shm'[g].tables
  <2>1. PICK f \in File : f = map[p]
    BY <1>1, <1>4
  <2>2. shm' = [shm EXCEPT ![f].cnt = w] \/ shm' = [shm EXCEPT ![f].flags = w]
    BY <1>4, <2>1
  <2>3. /\ shm' \in [File -> Contents]
        /\ \A g \in File : g # f => shm'[g] = shm[g]
        /\ \A g \in File : shm[g].header => shm'[g].header
        /\ \A g \in File : shm[g].tables => shm'[g].tables
    BY <1>1, <2>2, Stores
  <2> QED BY <2>1, <2>3
<1>5. CASE OwnerFlags(p)
  <2>1. 1 \in 0 .. Word - 1
    BY WordAssumption
  <2> QED BY <1>4, <1>5, <2>1 DEF OwnerFlags
<1>6. CASE Attach(p)
  <2>1. (shm[map[p]].cnt + 1) % Word \in 0 .. Word - 1
    BY <1>1, <1>6, WordArithmetic DEF Attach
  <2> QED BY <1>2, <1>4, <1>6, <2>1 DEF Attach
<1>7. CASE Close(p)
  <2>1. Decrement(shm[map[p]].flags) \in 0 .. Word - 1
    BY <1>1, <1>7, WordArithmetic DEF Close
  <2> QED BY <1>4, <1>7, <2>1 DEF Close
<1>8. CASE DestroyDrop(p)
  <2>1. Decrement(shm[map[p]].cnt) \in 0 .. Word - 1
    BY <1>1, <1>8, WordArithmetic DEF DestroyDrop
  <2> QED BY <1>4, <1>8, <2>1 DEF DestroyDrop
<1>9. \/ OpenExisting(p) \/ OpenMissing(p) \/ Create(p) \/ DestroyLoad(p) \/ FreeAnon(p)
      \/ OpenFails(p) \/ Crash(p)
      => UNCHANGED shm
  BY DEF OpenExisting, OpenMissing, Create, DestroyLoad, FreeAnon, OpenFails, Crash, Ends
<1> QED BY <1>2, <1>3, <1>5, <1>6, <1>7, <1>8, <1>9 DEF Acts

(* Every step of a constructor, a destructor or a crash keeps the types.   *)
LEMMA NextTypes ==
  ASSUME FileTypes, NEW p \in Proc, Acts(p)
  PROVE  FileTypes'
<1> USE FileAssumption DEF FileTypes, TypeOK, Mapped, Go, ghosts
<1>1. nfile \in Nat /\ 1 .. nfile \subseteq File /\ None \notin File
  BY DEF File
<1>2. shm' \in [File -> Contents]
  BY OwnFile
<1>3. CASE OpenExisting(p)
  <2>1. Mapped'
    BY <1>1, <1>3 DEF OpenExisting
  <2> QED BY <1>1, <1>2, <1>3, <2>1 DEF OpenExisting, Races, Opening, Contents
<1>4. CASE OpenMissing(p)
  <2>1. Mapped'
    BY <1>1, <1>4 DEF OpenMissing
  <2> QED BY <1>1, <1>2, <1>4, <2>1 DEF OpenMissing, Races, Opening, Contents
<1>5. CASE Create(p)
  <2>1. Mapped'
    BY <1>1, <1>5 DEF Create
  <2>2. nfile' \in 0 .. MaxFile /\ path' \in File
    BY <1>1, <1>5 DEF Create, File
  <2> QED BY <1>1, <1>2, <1>5, <2>1, <2>2 DEF Create, Contents
<1>6. CASE Truncate(p)
  <2>1. Mapped'
    BY <1>1, <1>6 DEF Truncate
  <2> QED BY <1>1, <1>2, <1>6, <2>1 DEF Truncate, Contents
<1>7. CASE OwnerHeader(p)
  <2>1. Mapped'
    BY <1>1, <1>7 DEF OwnerHeader
  <2> QED BY <1>1, <1>2, <1>7, <2>1 DEF OwnerHeader, Contents
<1>8. CASE OwnerTables(p)
  <2>1. Mapped'
    BY <1>1, <1>8 DEF OwnerTables
  <2> QED BY <1>1, <1>2, <1>8, <2>1 DEF OwnerTables, Contents
<1>9. CASE OwnerFlags(p)
  <2>1. Mapped'
    BY <1>1, <1>9 DEF OwnerFlags
  <2> QED BY <1>1, <1>2, <1>9, <2>1 DEF OwnerFlags, Contents
<1>10. CASE Attach(p)
  <2>1. Mapped'
    BY <1>1, <1>10 DEF Attach
  <2> QED BY <1>1, <1>2, <1>10, <2>1 DEF Attach, Contents
<1>11. CASE Close(p)
  <2>1. Mapped'
    BY <1>1, <1>11 DEF Close
  <2> QED BY <1>1, <1>2, <1>11, <2>1 DEF Close, Contents
<1>12. CASE DestroyLoad(p)
  <2>1. Mapped'
    BY <1>1, <1>12 DEF DestroyLoad
  <2> QED BY <1>1, <1>2, <1>12, <2>1 DEF DestroyLoad, Contents
<1>13. CASE OpenFails(p)
  <2>1. Mapped'
    BY <1>1, <1>13 DEF OpenFails, Ends
  <2> QED BY <1>1, <1>2, <1>13, <2>1 DEF OpenFails, Ends, Opening, Contents
<1>14. CASE Crash(p)
  <2>1. Mapped'
    BY <1>1, <1>14 DEF Crash, Ends
  <2> QED BY <1>1, <1>2, <1>14, <2>1 DEF Crash, Ends, Contents
<1>15. CASE DestroyDrop(p)
  <2>1. Mapped'
    BY <1>1, <1>15 DEF DestroyDrop
  <2> QED BY <1>1, <1>2, <1>15, <2>1 DEF DestroyDrop, Contents
<1>16. CASE FreeAnon(p)
  <2>1. Mapped'
    BY <1>1, <1>16 DEF FreeAnon
  <2> QED BY <1>1, <1>2, <1>16, <2>1 DEF FreeAnon, Contents
<1> QED BY <1>3, <1>4, <1>5, <1>6, <1>7, <1>8, <1>9, <1>10, <1>11, <1>12, <1>13, <1>14,
          <1>15, <1>16 DEF Acts

(* Whatever the path names stays accounted for: only close() takes away    *)
(* the mark of a crash, and if it finds flags at 1 it is about to remove   *)
(* the file, or ends and is marked itself.                                 *)
LEMMA NextKept ==
  ASSUME FileTypes, Kept, NEW p \in Proc, Acts(p)
  PROVE  Kept'
<1> USE DEF Kept, Creating, Go, ghosts
<1>1. /\ pc \in [Proc -> {"closed", "create", "truncate", "header", "tables", "flags",
                         "attach", "open", "free", "unmap", "drop", "free_mem"}]
      /\ map \in [Proc -> File \union {None}] /\ path \in File \union {None} /\ None \notin File
      /\ shm \in [File -> Contents]
      /\ orphan \in [unfinished : SUBSET File, left : SUBSET File, abandoned : SUBSET File]
      /\ \A q \in Proc : pc[q] \notin {"closed", "create"} => map[q] \in File
      /\ \A q \in Proc : pc[q] \in {"closed", "create"} => map[q] = None
  <2>1. /\ pc \in [Proc -> {"closed", "create", "truncate", "header", "tables", "flags",
                           "attach", "open", "free", "unmap", "drop", "free_mem"}]
        /\ map \in [Proc -> File \union {None}] /\ path \in File \union {None}
        /\ shm \in [File -> Contents]
        /\ orphan \in [unfinished : SUBSET File, left : SUBSET File, abandoned : SUBSET File]
    BY DEF FileTypes, TypeOK, Contents
  <2>2. None \notin File
    BY FileAssumption
  <2>3. 1 .. nfile \subseteq File
    BY FileAssumption DEF FileTypes, TypeOK, File
  <2>4. \A q \in Proc : IF pc[q] \in {"closed", "create"} THEN map[q] = None
                                                          ELSE map[q] \in 1 .. nfile
    BY DEF FileTypes, Mapped
  <2> HIDE DEF Kept
  <2> QED BY <2>1, <2>2, <2>3, <2>4
<1>2. \A g \in File : g # map[p] => shm'[g] = shm[g]
  BY OwnFile
<1>3. CASE OpenExisting(p)
  BY <1>1, <1>2, <1>3 DEF OpenExisting
<1>4. CASE OpenMissing(p)
  BY <1>1, <1>2, <1>4 DEF OpenMissing
<1>5. CASE Create(p)
  BY <1>1, <1>2, <1>5 DEF Create
<1>6. CASE Truncate(p)
  BY <1>1, <1>2, <1>6 DEF Truncate
<1>7. CASE OwnerHeader(p)
  BY <1>1, <1>2, <1>7 DEF OwnerHeader
<1>8. CASE OwnerTables(p)
  BY <1>1, <1>2, <1>8 DEF OwnerTables
<1>9. CASE OwnerFlags(p)
  BY <1>1, <1>2, <1>9 DEF OwnerFlags
<1>10. CASE Attach(p)
  <2>1. \A g \in File : shm'[g].flags = shm[g].flags
    BY <1>1, <1>10 DEF Attach, Contents
  <2>2. /\ UNCHANGED <<path, orphan>> /\ pc[p] = "attach"
        /\ \A q \in Proc : q # p => map'[q] = map[q] /\ pc'[q] = pc[q]
    BY <1>1, <1>10 DEF Attach
  <2> QED BY <1>1, <2>1, <2>2
<1>11. CASE Close(p)
  BY <1>1, <1>2, <1>11 DEF Close, LastOne
<1>12. CASE DestroyLoad(p)
  BY <1>1, <1>2, <1>12 DEF DestroyLoad
<1>13. CASE OpenFails(p)
  BY <1>1, <1>2, <1>13 DEF OpenFails, Ends, Opening
<1>14. CASE Crash(p)
  BY <1>1, <1>2, <1>14 DEF Crash, Ends
<1>15. CASE DestroyDrop(p)
  <2>1. \A g \in File : shm'[g].flags = shm[g].flags
    BY <1>1, <1>15 DEF DestroyDrop, Contents
  <2>2. /\ UNCHANGED <<path, orphan>> /\ pc[p] = "drop"
        /\ \A q \in Proc : q # p => map'[q] = map[q] /\ pc'[q] = pc[q]
    BY <1>1, <1>15 DEF DestroyDrop
  <2> QED BY <1>1, <2>1, <2>2
<1>16. CASE FreeAnon(p)
  BY <1>16 DEF FreeAnon
<1> QED BY <1>3, <1>4, <1>5, <1>6, <1>7, <1>8, <1>9, <1>10, <1>11, <1>12, <1>13, <1>14,
          <1>15, <1>16 DEF Acts

(* One process at a time is in the constructor, and it finishes or         *)
(* abandons the file it creates before another attaches to it.             *)
LEMMA NextOrderly ==
  ASSUME FileTypes, ~raced => Orderly, NEW p \in Proc, Acts(p), ~raced'
  PROVE  Orderly'
<1> USE DEF Creating, Go, ghosts
<1>1. /\ pc \in [Proc -> {"closed", "create", "truncate", "header", "tables", "flags",
                         "attach", "open", "free", "unmap", "drop", "free_mem"}]
      /\ map \in [Proc -> File \union {None}] /\ path \in File \union {None} /\ None \notin File
      /\ orphan \in [unfinished : SUBSET File, left : SUBSET File, abandoned : SUBSET File]
      /\ nfile \in Nat
      /\ shm \in [File -> Contents]
      /\ \A q \in Proc : pc[q] \notin {"closed", "create"} => map[q] \in File /\ map[q] \in 1 .. nfile
      /\ \A q \in Proc : pc[q] \in {"closed", "create"} => map[q] = None
      /\ path # None => path \in 1 .. nfile
      /\ 1 .. nfile \subseteq File
  <2>1. /\ pc \in [Proc -> {"closed", "create", "truncate", "header", "tables", "flags",
                           "attach", "open", "free", "unmap", "drop", "free_mem"}]
        /\ map \in [Proc -> File \union {None}] /\ path \in File \union {None}
        /\ shm \in [File -> Contents]
        /\ orphan \in [unfinished : SUBSET File, left : SUBSET File, abandoned : SUBSET File]
    BY DEF FileTypes, TypeOK, Contents
  <2>2. None \notin File /\ nfile \in Nat /\ 1 .. nfile \subseteq File
    BY FileAssumption DEF FileTypes, TypeOK, File
  <2>3. /\ \A q \in Proc : IF pc[q] \in {"closed", "create"} THEN map[q] = None
                                                             ELSE map[q] \in 1 .. nfile
        /\ path # None => path \in 1 .. nfile
    BY DEF FileTypes, Mapped
  <2> QED BY <2>1, <2>2, <2>3
<1>2. \A g \in File : (Ready(g) => Ready(g)') /\ (shm[g].header => shm'[g].header)
  BY OwnFile DEF Ready
<1>3. ~raced
  BY DEF Acts, OpenExisting, OpenMissing, Races, Create, Truncate, OwnerHeader, OwnerTables,
         OwnerFlags, Attach, Close, DestroyLoad, DestroyDrop, FreeAnon, OpenFails, Crash, Ends
<1>4. Orderly
  BY <1>3
<1>5. CASE OpenExisting(p)
  <2> USE <1>1, <1>5 DEF OpenExisting, Races
  <2>1. (OneOpens /\ StillMissing)'
    BY <1>3, <1>4 DEF Orderly, OneOpens, StillMissing, Opening
  <2>2. Stages'
    BY <1>2, <1>4 DEF Orderly, Stages
  <2>3. Filled'
    BY <1>2, <1>4 DEF Orderly, Filled, Stages
  <2>4. Attached'
    <3>1. \A q \in Proc : ~Creating(q)
      BY <1>3 DEF Opening
    <3>2. path \in 1 .. nfile /\ (Ready(path) \/ path \in orphan.unfinished)
      BY <1>4, <3>1 DEF Orderly, Filled
    <3>3. \A q \in Proc : q # p => pc'[q] = pc[q] /\ map'[q] = map[q]
      OBVIOUS
    <3>4. map'[p] = path /\ orphan' = orphan
      OBVIOUS
    <3> QED BY <1>2, <1>4, <3>2, <3>3, <3>4 DEF Orderly, Attached
  <2> QED BY <2>1, <2>2, <2>3, <2>4 DEF Orderly
<1>6. CASE OpenMissing(p)
  <2> USE <1>1, <1>6 DEF OpenMissing, Races
  <2>1. (OneOpens /\ StillMissing)'
    BY <1>3, <1>4 DEF Orderly, OneOpens, StillMissing, Opening
  <2>2. Stages'
    BY <1>2, <1>4 DEF Orderly, Stages
  <2>3. Filled'
    BY <1>2, <1>4 DEF Orderly, Filled, Stages
  <2>4. Attached'
    BY <1>2, <1>4 DEF Orderly, Attached, Filled, Stages
  <2> QED BY <2>1, <2>2, <2>3, <2>4 DEF Orderly
<1>7. CASE Create(p)
  <2> USE <1>1, <1>7 DEF Create
  <2>1. (OneOpens /\ StillMissing)'
    BY <1>3, <1>4 DEF Orderly, OneOpens, StillMissing, Opening
  <2>2. Stages'
    BY <1>2, <1>4 DEF Orderly, Stages
  <2>3. Filled'
    BY <1>2, <1>4 DEF Orderly, Filled, Stages
  <2>4. Attached'
    BY <1>2, <1>4 DEF Orderly, Attached, Filled, Stages
  <2> QED BY <2>1, <2>2, <2>3, <2>4 DEF Orderly
<1>8. CASE Truncate(p)
  <2> USE <1>1, <1>8 DEF Truncate
  <2>1. (OneOpens /\ StillMissing)'
    BY <1>3, <1>4 DEF Orderly, OneOpens, StillMissing, Opening
  <2>2. Stages'
    BY <1>2, <1>4 DEF Orderly, Stages
  <2>3. Filled'
    BY <1>2, <1>4 DEF Orderly, Filled, Stages
  <2>4. Attached'
    BY <1>2, <1>4 DEF Orderly, Attached, Filled, Stages
  <2> QED BY <2>1, <2>2, <2>3, <2>4 DEF Orderly
<1>9. CASE OwnerHeader(p)
  <2> USE <1>1, <1>9 DEF OwnerHeader
  <2>1. (OneOpens /\ StillMissing)'
    BY <1>3, <1>4 DEF Orderly, OneOpens, StillMissing, Opening
  <2>2. Stages'
    BY <1>2, <1>4 DEF Orderly, Stages
  <2>3. Filled'
    BY <1>2, <1>4 DEF Orderly, Filled, Stages
  <2>4. Attached'
    BY <1>2, <1>4 DEF Orderly, Attached, Filled, Stages
  <2> QED BY <2>1, <2>2, <2>3, <2>4 DEF Orderly
<1>10. CASE OwnerTables(p)
  <2> USE <1>1, <1>10 DEF OwnerTables
  <2>1. (OneOpens /\ StillMissing)'
    BY <1>3, <1>4 DEF Orderly, OneOpens, StillMissing, Opening
  <2>2. Stages'
    <3>1. map[p] \in File /\ shm[map[p]].header
      BY <1>4 DEF Orderly, Stages
    <3>2. shm'[map[p]].tables
      BY <3>1 DEF Contents
    <3>3. Ready(map[p])'
      BY <1>2, <3>1, <3>2 DEF Ready
    <3> QED BY <1>2, <1>4, <3>3 DEF Orderly, Stages
  <2>3. Filled'
    BY <1>2, <1>4 DEF Orderly, Filled, Stages
  <2>4. Attached'
    BY <1>2, <1>4 DEF Orderly, Attached, Filled, Stages
  <2> QED BY <2>1, <2>2, <2>3, <2>4 DEF Orderly
<1>11. CASE OwnerFlags(p)
  <2> USE <1>1, <1>11 DEF OwnerFlags
  <2>1. (OneOpens /\ StillMissing)'
    BY <1>3, <1>4 DEF Orderly, OneOpens, StillMissing, Opening
  <2>2. Stages'
    BY <1>2, <1>4 DEF Orderly, Stages
  <2>3. Filled'
    BY <1>2, <1>4 DEF Orderly, Filled, Stages
  <2>4. Attached'
    BY <1>2, <1>4 DEF Orderly, Attached, Filled, Stages
  <2> QED BY <2>1, <2>2, <2>3, <2>4 DEF Orderly
<1>12. CASE Attach(p)
  <2> USE <1>1, <1>12 DEF Attach
  <2>1. (OneOpens /\ StillMissing)'
    BY <1>3, <1>4 DEF Orderly, OneOpens, StillMissing, Opening
  <2>2. Stages'
    BY <1>2, <1>4 DEF Orderly, Stages
  <2>3. Filled'
    BY <1>2, <1>4 DEF Orderly, Filled, Stages
  <2>4. Attached'
    BY <1>2, <1>4 DEF Orderly, Attached, Filled, Stages
  <2> QED BY <2>1, <2>2, <2>3, <2>4 DEF Orderly
<1>13. CASE Close(p)
  <2> USE <1>1, <1>13 DEF Close, LastOne
  <2>1. (OneOpens /\ StillMissing)'
    BY <1>3, <1>4 DEF Orderly, OneOpens, StillMissing, Opening
  <2>2. Stages'
    BY <1>2, <1>4 DEF Orderly, Stages
  <2>3. Filled'
    BY <1>2, <1>4 DEF Orderly, Filled, Stages
  <2>4. Attached'
    BY <1>2, <1>4 DEF Orderly, Attached, Filled, Stages
  <2> QED BY <2>1, <2>2, <2>3, <2>4 DEF Orderly
<1>14. CASE DestroyLoad(p)
  <2> USE <1>1, <1>14 DEF DestroyLoad
  <2>1. (OneOpens /\ StillMissing)'
    BY <1>3, <1>4 DEF Orderly, OneOpens, StillMissing, Opening
  <2>2. Stages'
    BY <1>2, <1>4 DEF Orderly, Stages
  <2>3. Filled'
    BY <1>2, <1>4 DEF Orderly, Filled, Stages
  <2>4. Attached'
    BY <1>2, <1>4 DEF Orderly, Attached, Filled, Stages
  <2> QED BY <2>1, <2>2, <2>3, <2>4 DEF Orderly
<1>15. CASE OpenFails(p)
  <2> USE <1>1, <1>15 DEF OpenFails, Ends
  <2>1. (OneOpens /\ StillMissing)'
    BY <1>3, <1>4 DEF Orderly, OneOpens, StillMissing, Opening
  <2>2. Stages'
    BY <1>2, <1>4 DEF Orderly, Stages
  <2>3. Filled'
    BY <1>2, <1>4 DEF Orderly, Filled, Stages
  <2>4. Attached'
    BY <1>2, <1>4 DEF Orderly, Attached, Filled, Stages
  <2> QED BY <2>1, <2>2, <2>3, <2>4 DEF Orderly
<1>16. CASE Crash(p)
  <2> USE <1>1, <1>16 DEF Crash, Ends
  <2>1. (OneOpens /\ StillMissing)'
    BY <1>3, <1>4 DEF Orderly, OneOpens, StillMissing, Opening
  <2>2. Stages'
    BY <1>2, <1>4 DEF Orderly, Stages
  <2>3. Filled'
    BY <1>2, <1>4 DEF Orderly, Filled, Stages
  <2>4. Attached'
    BY <1>2, <1>4 DEF Orderly, Attached, Filled, Stages
  <2> QED BY <2>1, <2>2, <2>3, <2>4 DEF Orderly
<1>17. CASE DestroyDrop(p)
  <2> USE <1>1, <1>17 DEF DestroyDrop
  <2>1. (OneOpens /\ StillMissing)'
    BY <1>3, <1>4 DEF Orderly, OneOpens, StillMissing, Opening
  <2>2. Stages'
    BY <1>2, <1>4 DEF Orderly, Stages
  <2>3. Filled'
    BY <1>2, <1>4 DEF Orderly, Filled, Stages
  <2>4. Attached'
    BY <1>2, <1>4 DEF Orderly, Attached, Filled, Stages
  <2> QED BY <2>1, <2>2, <2>3, <2>4 DEF Orderly
<1>18. CASE FreeAnon(p)
  <2> USE <1>1, <1>18 DEF FreeAnon
  <2>1. (OneOpens /\ StillMissing)'
    BY <1>3, <1>4 DEF Orderly, OneOpens, StillMissing, Opening
  <2>2. Stages'
    BY <1>2, <1>4 DEF Orderly, Stages
  <2>3. Filled'
    BY <1>2, <1>4 DEF Orderly, Filled, Stages
  <2>4. Attached'
    BY <1>2, <1>4 DEF Orderly, Attached, Filled, Stages
  <2> QED BY <2>1, <2>2, <2>3, <2>4 DEF Orderly
<1> QED BY <1>5, <1>6, <1>7, <1>8, <1>9, <1>10, <1>11, <1>12, <1>13, <1>14, <1>15,
          <1>16, <1>17, <1>18 DEF Acts

------------------------------------------------------------------------------

(* Before anybody opens the database there is no file.                     *)
LEMMA InitFile == Init => FileTypes /\ FileInv
<1> SUFFICES ASSUME Init PROVE FileTypes /\ FileInv
  OBVIOUS
<1>1. TypeOK
  <2>1. shm \in [File -> Contents]
    BY WordArithmetic, WordAssumption DEF Init, Blank, Contents
  <2>2. /\ nfile \in 0 .. MaxFile /\ crashes \in 0 .. MaxCrash
        /\ path \in File \union {None} /\ map \in [Proc -> File \union {None}]
    BY FileAssumption DEF Init
  <2>3. /\ raced \in BOOLEAN
        /\ orphan \in [unfinished : SUBSET File, left : SUBSET File, abandoned : SUBSET File]
    BY DEF Init
  <2> QED BY <2>1, <2>2, <2>3 DEF Init, TypeOK, Contents
<1>2. Mapped
  BY DEF Init, Mapped
<1>3. Kept
  BY DEF Init, Kept
<1>4. Orderly
  BY DEF Init, Orderly, OneOpens, StillMissing, Stages, Filled, Attached, Opening
<1> QED BY <1>1, <1>2, <1>3, <1>4 DEF FileTypes, FileInv

(* The invariant of the constructor, close() and the destructors, whatever *)
(* system call fails and whichever process is killed.                      *)
THEOREM FileInvariant == Spec => [](FileTypes /\ FileInv)
<1>1. FileTypes /\ FileInv /\ [Next]_vars => (FileTypes /\ FileInv)'
  <2> SUFFICES ASSUME FileTypes, FileInv, [Next]_vars PROVE (FileTypes /\ FileInv)'
    OBVIOUS
  <2>1. CASE Next
    <3>1. PICK p \in Proc : Acts(p)
      BY <2>1 DEF Next, Acts
    <3> QED BY <3>1, NextTypes, NextKept, NextOrderly DEF FileInv
  <2>2. CASE UNCHANGED vars
    BY <2>2 DEF vars, ghosts, FileTypes, TypeOK, Mapped, FileInv, Kept, Creating, Orderly,
                OneOpens, Opening, StillMissing, Stages, Filled, Attached, Ready
  <2> QED BY <2>1, <2>2
<1> QED BY <1>1, InitFile, PTL DEF Spec

(* The words flags and cnt, the stages of the constructors and the files   *)
(* that processes have open keep their types; flags wraps around at zero.  *)
THEOREM FileTypeCorrect == Spec => []TypeOK
<1>1. FileTypes => TypeOK
  BY DEF FileTypes
<1> QED BY <1>1, FileInvariant, PTL

(* Whoever has the database open finds the header and the tables that the  *)
(* owner's constructor initialises, unless the owner ended before it had   *)
(* initialised them or the two constructors overlapped.                    *)
THEOREM AttachFindsTables == Spec => []AttachedIsReady
<1>1. FileInv => AttachedIsReady
  BY DEF FileInv, Orderly, Attached, AttachedIsReady, Mine, Ready
<1> QED BY <1>1, FileInvariant, PTL

(* Once every process has closed the database, close() has removed the     *)
(* file, except one whose creator ended in the constructor, one whose      *)
(* remover ended between the decrement of flags and the removal, and one   *)
(* that nobody has closed since a process ended with it open.              *)
THEOREM FileRemoved == Spec => []NoFileLeft
<1>1. FileInv => NoFileLeft
  BY DEF FileInv, Kept, Creating, NoFileLeft
<1> QED BY <1>1, FileInvariant, PTL
=============================================================================
