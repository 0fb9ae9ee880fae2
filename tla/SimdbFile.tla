------------------------------ MODULE SimdbFile ------------------------------
(***************************************************************************)
(* The life of the shared memory file behind a simdb object on Linux: the  *)
(* constructor (SharedMem::AllocAnon and simdb::simdb), close(), and the   *)
(* destructors.  Several processes open the same path; whoever creates the *)
(* file is its owner and initialises it, the others attach.  A removed     *)
(* file lives on, under no name, for those that still have it mapped.      *)
(*                                                                         *)
(* Processes may be killed, and system calls may fail.  A failed call      *)
(* makes the constructor return early; nobody asks for the error, and the  *)
(* first use of the object, or its destructor, ends the process.           *)
(***************************************************************************)
EXTENDS Integers, FiniteSets

CONSTANTS
  Proc,       \* processes that construct and destroy a simdb object
  MaxFile,    \* bound: files created under the path
  MaxCrash,   \* bound: processes that end before their destructors have run
  Word,       \* flags and cnt are words of this size, 2^32 in the code
  None

File == 1 .. MaxFile

ASSUME FileAssumption == MaxFile \in Nat \ {0} /\ MaxCrash \in Nat /\ None \notin File
ASSUME WordAssumption == Word \in Nat \ {0, 1}

VARIABLES
  path,       \* the file the path names, or None
  nfile,      \* files created so far
  shm,        \* contents: sized by ftruncate, header and tables initialised,
              \* the words flags and cnt
  pc,         \* where each process stands
  map,        \* the file each process has open
  raced,      \* ghost: a process has begun to open while another was at it
  crashes,    \* processes that have ended early
  orphan      \* ghost: files whose creator ended before they were complete,
              \* files that nobody has closed since one who had them open ended,
              \* and files that nobody will remove: their remover has ended

ghosts == <<raced, crashes, orphan>>
vars == <<path, nfile, shm, pc, map, ghosts>>

Blank == [sized |-> FALSE, header |-> FALSE, tables |-> FALSE, flags |-> 0, cnt |-> 0]
Go(p, l) == pc' = [pc EXCEPT ![p] = l]
Mine(p) == shm[map[p]]
Opening(p) == pc[p] \in {"create", "attach", "truncate", "header", "tables", "flags"}

Init ==
  /\ path = None /\ nfile = 0
  /\ shm = [f \in File |-> Blank]
  /\ pc = [p \in Proc |-> "closed"]
  /\ map = [p \in Proc |-> None]
  /\ raced = FALSE /\ crashes = 0
  /\ orphan = [unfinished |-> {}, left |-> {}, abandoned |-> {}]

------------------------------------------------------------------------------

Races == raced' = (raced \/ \E q \in Proc : Opening(q))

(* open(path, O_RDWR): the file exists, and somebody else is its owner.    *)
OpenExisting(p) ==
  /\ pc[p] = "closed" /\ path # None
  /\ Races
  /\ map' = [map EXCEPT ![p] = path]
  /\ Go(p, "attach")
  /\ UNCHANGED <<path, nfile, shm, crashes, orphan>>

OpenMissing(p) ==
  /\ pc[p] = "closed" /\ path = None
  /\ Races
  /\ Go(p, "create")
  /\ UNCHANGED <<path, nfile, shm, map, crashes, orphan>>

(* open(path, O_CREAT): without O_EXCL, two processes may both think they  *)
(* are the owner.                                                          *)
Create(p) ==
  /\ pc[p] = "create"
  /\ \/ /\ path = None /\ nfile < MaxFile
        /\ nfile' = nfile + 1
        /\ path' = nfile + 1
     \/ path # None /\ UNCHANGED <<path, nfile>>
  /\ map' = [map EXCEPT ![p] = path']
  /\ Go(p, "truncate")
  /\ UNCHANGED <<shm, ghosts>>

(* flock, ftruncate, unlock, mmap                                          *)
Truncate(p) ==
  /\ pc[p] = "truncate"
  /\ shm' = [shm EXCEPT ![map[p]].sized = TRUE]
  /\ Go(p, "header")
  /\ UNCHANGED <<path, nfile, map, ghosts>>

(* The owner stores blockCount and blockSize and sets cnt to 1.            *)
OwnerHeader(p) ==
  /\ pc[p] = "header"
  /\ shm' = [shm EXCEPT ![map[p]].header = TRUE, ![map[p]].cnt = 1]
  /\ Go(p, "tables")
  /\ UNCHANGED <<path, nfile, map, ghosts>>

(* Mutant: the owner does not initialise the tables.                       *)
OwnerTablesSkipped(p) ==
  /\ pc[p] = "tables"
  /\ Go(p, "flags")
  /\ UNCHANGED <<path, nfile, shm, map, ghosts>>

(* The owner constructs CncrStr and CncrHsh in the shared memory.          *)
OwnerTables(p) ==
  /\ pc[p] = "tables"
  /\ shm' = [shm EXCEPT ![map[p]].tables = TRUE]
  /\ Go(p, "flags")
  /\ UNCHANGED <<path, nfile, map, ghosts>>

(* m_isOpen = true; s_flags->store(1)                                      *)
OwnerFlags(p) ==
  /\ pc[p] = "flags"
  /\ shm' = [shm EXCEPT ![map[p]].flags = 1]
  /\ Go(p, "open")
  /\ UNCHANGED <<path, nfile, map, ghosts>>

(* The others add themselves to cnt and use the header as they find it;    *)
(* touching a file that has no size yet is a bus error, which ends them.   *)
Attach(p) ==
  /\ pc[p] = "attach"
  /\ \/ /\ Mine(p).sized
        /\ shm' = [shm EXCEPT ![map[p]].cnt = (@ + 1) % Word]
        /\ Go(p, "open")
        /\ UNCHANGED map
     \/ /\ ~Mine(p).sized
        /\ Go(p, "closed")
        /\ map' = [map EXCEPT ![p] = None]
        /\ UNCHANGED shm
  /\ UNCHANGED <<path, nfile, ghosts>>

------------------------------------------------------------------------------

(* Mutant: a 32-bit counter that does not wrap around.                     *)
DecrementSigned(n) == n - 1
Decrement(n) == (n + Word - 1) % Word

(* prev == 1: "we are the last one to stop using the file"                 *)
LastOne(f) == shm[f].flags = 1

(* close(), from ~simdb(): the decrement decides who removes the file.     *)
Close(p) ==
  /\ pc[p] = "open"
  /\ shm' = [shm EXCEPT ![map[p]].flags = Decrement(@)]
  /\ Go(p, IF LastOne(map[p]) THEN "free" ELSE "unmap")
  /\ orphan' = [orphan EXCEPT !.left = @ \ {map[p]}]
  /\ UNCHANGED <<path, nfile, map, raced, crashes>>

(* ~SharedMem() of a memory that close() has not freed: is cnt above 0 ... *)
DestroyLoad(p) ==
  /\ pc[p] = "unmap"
  /\ \/ /\ Mine(p).cnt > 0
        /\ Go(p, "drop")
        /\ UNCHANGED map
     \/ /\ Mine(p).cnt = 0
        /\ Go(p, "closed")
        /\ map' = [map EXCEPT ![p] = None]
  /\ UNCHANGED <<path, nfile, shm, ghosts>>

(* ... then decrement it, which another may have done in the meantime.     *)
DestroyDrop(p) ==
  /\ pc[p] = "drop"
  /\ shm' = [shm EXCEPT ![map[p]].cnt = Decrement(@)]
  /\ \/ /\ Mine(p).cnt = 1
        /\ Go(p, "free_mem")
        /\ UNCHANGED map
     \/ /\ Mine(p).cnt # 1
        /\ Go(p, "closed")
        /\ map' = [map EXCEPT ![p] = None]
  /\ UNCHANGED <<path, nfile, ghosts>>

(* Mutant: the memory is unmapped but the file is not removed.             *)
FreeAnonKeepsFile(p) ==
  /\ pc[p] \in {"free", "free_mem"}
  /\ map' = [map EXCEPT ![p] = None]
  /\ Go(p, "closed")
  /\ UNCHANGED <<path, nfile, shm, ghosts>>

(* FreeAnon(), from close() or ~SharedMem(): unmap, and remove whatever    *)
(* the path names now.                                                     *)
FreeAnon(p) ==
  /\ pc[p] \in {"free", "free_mem"}
  /\ path' = None
  /\ map' = [map EXCEPT ![p] = None]
  /\ Go(p, "closed")
  /\ UNCHANGED <<nfile, shm, ghosts>>

------------------------------------------------------------------------------

(* The process is gone, and another may come in its place.                 *)
Ends(p) ==
  /\ crashes < MaxCrash
  /\ crashes' = crashes + 1
  /\ map' = [map EXCEPT ![p] = None]
  /\ Go(p, "closed")
  /\ UNCHANGED <<path, nfile, shm, raced>>

(* open(), ftruncate(), flock() or mmap() fails, or the process is killed: *)
(* a file that was being created stays as it is.                           *)
OpenFails(p) ==
  /\ Opening(p)
  /\ Ends(p)
  /\ orphan' = IF pc[p] \in {"attach", "create"} THEN orphan
               ELSE [orphan EXCEPT !.unfinished = @ \union {map[p]}]

(* Killed after the constructor: with the database open neither flags nor  *)
(* cnt is told; between the decrement that makes flags 0 and the removal   *)
(* of the file nobody else will find flags at 1.                           *)
Crash(p) ==
  /\ pc[p] \in {"open", "free", "unmap", "drop", "free_mem"}
  /\ Ends(p)
  /\ orphan' = CASE pc[p] = "open" -> [orphan EXCEPT !.left = @ \union {map[p]}]
                 [] pc[p] = "free" -> [orphan EXCEPT !.abandoned = @ \union {map[p]}]
                 [] OTHER          -> orphan

Next ==
  \E p \in Proc :
    \/ OpenExisting(p) \/ OpenMissing(p) \/ Create(p) \/ Truncate(p)
    \/ OwnerHeader(p) \/ OwnerTables(p) \/ OwnerFlags(p) \/ Attach(p)
    \/ Close(p) \/ DestroyLoad(p) \/ DestroyDrop(p) \/ FreeAnon(p)
    \/ OpenFails(p) \/ Crash(p)

Spec == Init /\ [][Next]_vars

------------------------------------------------------------------------------

(* Every variable has the type the code declares for it.                   *)
TypeOK ==
  /\ path \in File \union {None}
  /\ nfile \in 0 .. MaxFile
  /\ shm \in [File -> [sized : BOOLEAN, header : BOOLEAN, tables : BOOLEAN,
                       flags : 0 .. Word - 1, cnt : 0 .. Word - 1]]
  /\ pc \in [Proc -> {"closed", "create", "truncate", "header", "tables", "flags",
                      "attach", "open", "free", "unmap", "drop", "free_mem"}]
  /\ map \in [Proc -> File \union {None}]
  /\ raced \in BOOLEAN /\ crashes \in 0 .. MaxCrash
  /\ orphan \in [unfinished : SUBSET File, left : SUBSET File, abandoned : SUBSET File]

(* Whoever has the database open finds its header and tables initialised,  *)
(* as long as no process begins to open it while another is in the middle  *)
(* of doing so: the constructor attaches without waiting for the owner.    *)
(* The VP opens its databases before the RTL simulator is started.  A file *)
(* whose creator ended in the constructor is never initialised.            *)
AttachedIsReady ==
  ~raced => \A p \in Proc : pc[p] = "open" /\ map[p] \notin orphan.unfinished =>
              Mine(p).header /\ Mine(p).tables

(* When nobody has the database open the file is gone, so that the next    *)
(* run starts with an empty one.  A process that is killed with it open    *)
(* leaves the file behind, but only until another one opens and closes it: *)
(* close() counts those who close and not those who have it open.  One     *)
(* that is killed in the constructor, or in close() between the decrement  *)
(* of flags and the removal, leaves it for good: flags is 0, and the next  *)
(* to close makes it wrap around.                                          *)
NoFileLeft ==
  (\A p \in Proc : pc[p] = "closed") =>
    path \in {None} \union orphan.unfinished \union orphan.left \union orphan.abandoned

(* "When the count goes to 0, the last process will delete the shared      *)
(* memory file" (simdb.hpp:104): the path names the file of every process  *)
(* that has it open.                                                       *)
LastProcessDeletes == \A p \in Proc : pc[p] = "open" => path = map[p]
=============================================================================
