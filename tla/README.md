# A TLA+ model of the NVDLA virtual platform

The repository is a SystemC virtual platform: an ARM CPU (QEMU behind QBox), memory, and the NVDLA
accelerator. The accelerator is one of three things: a C model inside the process, an RTL simulator in
another process reached through shared memory ("co-simulation"), or an FPGA of the AWS F1 kind. The
platform's own logic, as opposed to what it takes from its submodules, is in the bridges between the
SystemC kernel and those other worlds, and in the lock-free shared-memory database (`simdb.hpp`) that the
co-simulation is built on. This project models that logic.

Paths below are relative to `src/`; `COSIM` stands for `fpga/aws-fpga/cosim_sc_wrapper` and `FPGA` for
`fpga/aws-fpga/fpga_sc_wrapper`.

## 1. Inventory

| Part | State | Operations | Hard because | Module |
|---|---|---|---|---|
| `CncrLst` (`COSIM/include/shm_lib/simdb.hpp`) | links `s_lv`, head word `s_h` (version, index) | `nxt`, `free` | lock free, ABA, version wraps, callers hold chains | `CncrLst`, `BlockPool` |
| `CncrStr` (same file) | `s_bls` (readers, flags, version), block bytes, `s_version` | `alloc`, `put`, `get`, `compare`, `incReaders`, `decReadersOrDel`, `doFree` | version and readers in different words, deferred freeing | `CncrStr` |
| `CncrHsh` (same file) | slots `s_vis` | `put`, `get`, `len`, `del`, `nxt` | probing while slots change, deleted slots | `CncrHsh`, `KVStore` |
| `SharedMem`, `simdb` (same file) | the file, `flags`, `cnt` | constructor, `close`, destructors | several processes open and close in any order, fail or are killed | `SimdbFile` |
| simdb convenience interface (same file) | a cursor | vector `get`, `nxt`, `nxtKey`, `getKeyStrs` | an enumeration that counts wrongly, a `get` in two steps | `KeyScan`, `Gsgp2cosim`, `Irq2gss` |
| `Gsgp2cosim` (`COSIM/src/transactors/gsgp2cosim.cpp`) | two mailboxes in the database | constructor, `b_transact` | timeouts, late answers, leftovers of earlier runs | `Gsgp2cosim` |
| `irq2gss` (`COSIM/src/transactors/irq2gss.cpp`) | one mailbox | constructor, `transport` | handshake without timeout, leftovers of earlier runs | `Irq2gss` |
| `Gsgp2fpga` (`FPGA/src/transactors/gsgp2fpga.cpp`) | none between accesses | `b_transact`, `data_write`, `data_read` | bursts that fail in part, odd lengths | `Gsgp2fpga` |
| `Msi2gss`, `thread_safe_event` (`FPGA/src/transactors`) | MSI descriptor, update request, status register | `PollMsi`, `notify`/`update`, `transport` | operating-system thread against SystemC kernel, merged wake-ups | `Msi2gss` |
| NVDLA C model (`models/nvdla/src/nvdla_top.cpp`, `adaptors`) | a transaction per port, DMI mutex, interrupt signal | `b_transport`, `b_transact`, `transport` | a mutex between the SystemC kernel and the CPU's thread, held over a suspending call; reused transactions | `NvdlaTop` |
| Top level (`src/aarch64_toplevel.cpp`) | PCI BARs, MSI descriptors, the parts built | `sc_main`, `check_afi_ready`, `aws_fpga_init`, `aws_fpga_cleanup`, `exec_simv` | error paths | `Toplevel`, `Platform` |
| Log configuration (`libs/log/src/log.cpp`) | report actions | `log_parse`, `set_sc_report` | entries override each other | `LogConfig` |
| Wrappers, tests, build files, listing of databases | none | construction, binding | | not modelled |

How they interact. The CPU's bus calls `Gsgp2cosim::b_transact` or `Gsgp2fpga::b_transact` through a
wrapper. `Gsgp2cosim` and `irq2gss` talk to the RTL process only by `put`, `get` and `del` on keys of a
`simdb`; `simdb` is `CncrHsh` over `CncrStr` over `CncrLst`, all in one shared mapping that `SharedMem`
opens. On the FPGA, interrupts arrive in a `poll` thread, cross into the SystemC kernel through
`thread_safe_event`, and `transport` reads, acknowledges and forwards them. With the C model the bus calls `Gsgp2tlm::b_transact`, the
core calls `Tlm2gsgp::b_transport` of its two memory ports, and `dmi_mtx`, created in `sc_main`, keeps the first of them apart from the
CPU's direct accesses to the memory.

What makes each part correct:

* the free list: a block is in one list at a time; no block is lost; somebody always makes progress;
* the store: who counts as a reader keeps the block; a block is freed once, by the deleter or the last reader;
* the table: it is a map; a `get` returns what the key had during the call; entries are neither lost nor freed twice;
* the file: who has the database open finds it initialised, and nothing is left behind but by processes killed at two points of the code;
* the mailboxes: every access returns, with its own answer unless an earlier one timed out;
* the interrupts: every change reaches the CPU's line, once and in order, and nobody waits for ever;
* the enumeration: it lists every key, as far as its way of counting lets it;
* the C model: the CPU's direct accesses and the first memory port of the NVDLA never use the memory at once, an access that is answered gets its own status, nobody waits for ever;
* the FPGA accesses: an access touches its bytes, all of them, below 4 GiB, and is reported if it failed;
* the top level: a simulation starts only with what it was promised, releases what it acquired, and its exit code tells of failures.

`PROJECT.json` lists the hazards line by line with the properties that watch them.

## 2. Modules

| Module | Models | One action is |
|---|---|---|
| `BlockPool` | what `CncrLst` promises | one completed `nxt` or `free` |
| `CncrLst` | `CncrLst` with its callers `alloc` and `doFree` | one access to shared memory |
| `CncrLstProofs`, `CncrStrProofs`, `CncrHshProofs`, `SimdbFileProofs`, `Gsgp2cosimProofs`, `PlatformProofs` | theorems about the module of that name (`PlatformProofs`: also `Gsgp2fpga`, `LogConfig`, `Toplevel`, `NvdlaTop`) | |
| `InterruptProofs` | theorems about both ways interrupts take, `Irq2gss` and `Msi2gss` | |
| `KeyScanProofs` | lemmas about `getKeyStrs`, used for both transactors | |
| `CncrStr` | `CncrStr` over the atomic pool, under an atomic set of published pairs | one access to shared memory |
| `KVStore` | what `CncrHsh` promises | one `put` or `del` taking effect |
| `CncrHsh` | `CncrHsh` over entries that are allocated and freed | one slot access or one call of the store |
| `SimdbFile` | `SharedMem` and the `simdb` constructor, `close`, destructors | one system call or store |
| `KeyScan` | `nxt`, `nxtKey`, `getKeyStrs`; extended by the transactors | one round of `getKeyStrs` |
| `Gsgp2cosim`, `Irq2gss` | the transactors, from their constructors on, over an atomic map | one call of `simdb`, two for a `get` that is read |
| `Msi2gss` | `poll` thread, event, `transport` | one register access, poll or update phase |
| `Gsgp2fpga` | `b_transact` with its loops | one peek or poke |
| `LogConfig` | `log.cpp` as functions | |
| `Toplevel` | `sc_main` with set-up and clean-up of the FPGA | one external call or one part constructed |
| `NvdlaTop` | `NVDLA_top` and its adaptors | what runs between two points where the kernel may switch |
| `Platform` | `Toplevel` composed with `Gsgp2fpga` and `NvdlaTop` | |
| `MCCncrLst`, `MCCncrStr`, `MCCncrHsh`, `MCSimdbFile` | instances for TLC | |

The layers lean on each other: `CncrLst` is shown to implement `BlockPool`; `CncrStr` uses the pool as one
step (`pool`); `CncrHsh` uses the store's promise that an entry is intact until it is freed; the
transactors use the table's promise for keys that are put only while absent and by one thread each.

### Correspondence to the code

*`CncrLst`.* `head` is `s_h`, `lv` is `s_lv`, `cur` and `nidx` are the locals `curHead` and `nxtHead.idx`.
`nxt()` is `NxtFirst`/`NxtMore` (load, early return on an empty list), `NxtLink` (read the link) and
`NxtCas`/`NxtRetry` (the exchange; a failed one reloads). `free(st, en)` is `FreeLoad`, `FreeLink`,
`FreeCas`/`FreeRetry`. `lst[h]` is a block list as the callers know it: `alloc()` that runs out of blocks
half-way leaves its list marked `lost`, because its `free(st, ver)` compares a version never set. `lag` is
a ghost: how many exchanges of the head a thread has slept through. The two ways versions advance are
kept: `incVersion` skips 0, `free` wraps around through 0.

*`CncrStr`.* `bls[b]` holds the word `kr` (`isKey`, `isDeleted`, `readers`) and the version as two
separately accessed parts, as in `BlkLst`; `at[p]` is the pair `(blkIdx, version)` a call was given.
`incReaders` is `IncLoad`, `IncRefused`/`IncAccepted`, `IncCas`/`IncRetry`, with the version looked at
between load and exchange; `decReadersOrDel` likewise. `get()` counts its thread twice, once itself and
once in `readBlock`. `alloc()` sets `isKey` and clears `isDeleted` in two plain read-modify-writes of the word `kr`: after the first (`AllocMark`) the word may be the one that a late
reader of the previous version has seen, so the second (`AllocClear`) may overwrite its increment and chooses how many survive. `held` is a ghost.

*`CncrHsh`.* `s_vis[j]` is a slot; an entry is one `(index, version)` pair and is never used again, which is what the
version is for. `put`, `get` and `del` are load, compare and exchange per slot, with the three different ends of
the searches as the code has them (`del` stops before the last slot; `put` that comes round returns without having
stored). `pub` and `seen` are ghosts.

*`SimdbFile`.* `path` is the directory entry; a removed file lives on in `shm` for those that have mapped it.
`flags` and `cnt` are the two words of the header and wrap around. `raced` is a ghost: some process began to
open while another was in the middle of it. `close()` and `~SharedMem()` decide by a decrement (`Close`, `DestroyDrop`) and remove the file later (`FreeAnon`); `~SharedMem()` loads `cnt`
before it decrements it (`DestroyLoad`). `OpenFails` is a failing `open`, `ftruncate`, `flock` or `mmap`, or a kill, in the constructor; `Crash` a kill at any point
later. A constructor that fails returns early, nobody calls `error()`, and the uninitialised object ends the process at its first use or in its
destructor, so both are one step, `Ends`. `orphan` is a ghost: the files that such processes leave: `unfinished`, merely `left` until somebody closes them, or `abandoned` by the one that was to remove them.

*`KeyScan`.* `slots` is `s_vis` as far as it matters here, the key of each slot; `nxtChIdx` is `m_nxtChIdx`, `srchCnt` the local of `getKeyStrs`. The initial
table is any that earlier runs can leave: every key in at most one slot, free slots empty or deleted. The RTL simulator is not started yet, so nobody else writes.
The wrappers put the process id into the name of the database, so an earlier run here is one that was killed and had the same id.

*`Gsgp2cosim`.* `dn`/`up` are the two keys of each direction, `pc` follows `b_transact` from `get` to the
final `del`. A request or an answer is the number of its transaction. `CtorScan` and `CtorDel` are the constructor; the keys it does not list stay, with the
value `Old`, and `left` records their directions. A `get` of a vector asks for the length (`PollHit`) and then reads (`PollRead`); where only emptiness matters
the length is all that is used, and it is one step. The value may be `Zeros`, the untouched buffer. `expired` and `left` are ghosts. *`Irq2gss`.* The
same with the handshake of `transport` (`LenUp`, `GetUp`, `Reads`); `clean` records whether the constructor has left anything. *`Msi2gss`.* `msi`, `readable`, `requested` are the three places where a wake-up may be. The polling thread runs
from the constructor on, so an update phase may come before `transport` has started (`UpdateEarly`, `MsiStart`); `Peek` and `Ack` may fail, which nobody notices. `open`, `exposed` and `unheard` are ghosts.
*`Gsgp2fpga`.* `throws` is what `SC_LOG` makes of `SC_REPORT_ERROR`; `good` and `bad` are ghosts. `Wide` stands for 2^32: the mask `0xfffffffc` of a word read
clears the upper half of the 64-bit address as well (`Reached`).

*`LogConfig`, `Toplevel`, `Platform`.* `set_sc_report` and `ParseEntry` are the functions of `log.cpp` over entries that
are already split and trimmed. `stage` follows `sc_main`; arguments are chosen where they are parsed; every call of the AWS
library may fail (`FpgaFails`, `AfiRefused`, `Detach(TRUE)`). After a rescan `check_afi_ready` compares the ids and does not ask again whether the image is loaded (`Rescan`, `Accepts`). `aws` is the build with `AWS_FPGA_PRESENT`. `Platform` lets
the bridge of `Gsgp2fpga` run while the simulation runs on an FPGA, and `NvdlaTop` while it runs with the C model, with `throws` as the report configuration and
`mutex` as `sc_main` left them.

*`NvdlaTop`.* `turn` is the process that holds the one thread of the SystemC kernel: the port that waits for `dmi_mtx` (`Request` to `Lock`) or the process that reports an
error. `at[p]` follows `Tlm2gsgp::b_transport` of each port, `txn[p]` is its reused transaction; the bus serves whatever the object says when its turn comes. `host` and
`gp` are `Gsgp2tlm::b_transact` and `m_tlm_gp`. `written`, `coreIrq`, `update`, `changed` are the `sc_buffer` between core and `IrqAdaptor`. `gave` is a ghost. The bus may leave the
status of a transaction alone, and nobody resets it, so that the port reads one of an earlier access (`"old"`, any value). The core
is taken to have one access per port under way, and `b_transport` of the interrupt socket not to suspend; with more than one access per port the reused transaction would
not be safe.

External, modelled from how the code uses it: the RTL side of the mailboxes, the FPGA with its driver and MSIs, and
the SystemC kernel's update phase; with the C model, the core, the bus, and the CPU's accesses.

## 3. Runs

| Run | Bounds | Shows |
|---|---|---|
| `free_list` | 2 threads, 3 blocks, 3 lists of up to 2 blocks, versions 0..4, lag up to 3 | no block shared (`Exclusive`) or lost (`NothingLost`), refinement of `BlockPool` (`PoolSpec`), lock freedom (`LockFree`) |
| `store` | 3 threads, 2 blocks, 2 versions, 3 readers, one call with too small a buffer | readers keep their block, nobody gets another version's bytes, a block is freed once, reader counts err on the safe side only |
| `table` | 2 threads, 2 keys in different slots, 3 slots, 4 entries | entries accounted for, `get` and `del` see what the table held during the call, refinement of `KVStore` (`MapSpec`) |
| `file` | 3 processes, 2 files, 2 failures or kills, words of 4 values | initialised before use for processes that do not open at the same time, unless the creator failed; no file left when all have closed, and none of a process killed with it open once another has closed it; left for good are only files whose creator ended in the constructor or whose remover was killed in `close()` |
| `mailbox` | 5 slots with any of 4 keys, 3 accesses, timeout after 2 polls | the enumeration lists every key if entries are apart (`ListsAll`); every access returns; its answer is its own or explained by an earlier timeout, or a leftover, of its direction |
| `irq` | 4 slots with any of 2 keys, 6 changes of the register | each change driven once and in order, neither side stuck, the line ends at the right level |
| `msi` | 5 interrupts | no lost wake-up, every interrupt reaches the CPU but for the cases of section 5 |
| `platform` | up to 9 bytes at addresses 0..4, a mask of 3 bits (`Wide` = 8), 2 entries of `SC_LOG`, 2 MSI descriptors, 2 memory ports | every byte of an aligned access tried, unless it reads words beyond the mask, and none outside a write; an error reported exactly if nothing succeeded; errors throw as configured (`LogAsConfigured`); the simulation has its device (`Wired`); clean-up and exit code (`CleanedUp`); memory used by one of CPU and first port at a time (`DmiExclusive`), each answered access told its own status (`OwnStatus`), accesses return and the interrupt line follows (`Served`) |
| `free_list_chains` | as `free_list`, lists taken in an interleaved way | **violated:** `Exclusive` |
| `store_leak` | 2 threads, 1 block, 2 versions | **violated:** `LastOneOutCleansUp` |
| `table_collide` | 1 thread, 2 keys in the same slot | **violated:** `MapSpec` |
| `file_deleted` | 2 processes | **violated:** `LastProcessDeletes` |

Why the bounds are enough. `free_list`: the ABA case needs a thread to sleep through three exchanges (take,
take, give back), hence the lag; versions 0..4 wrap within that; three blocks leave one that changes
hands while the other two are in lists. `store`: a late reader, a deleter and an allocator are three threads; the second
version is the reuse. `table`: three slots give a first, a middle and a last slot of a search, four entries allow
a replacement and two re-puts. `file`: an owner, one that attaches, and one that opens a new file while the old
one is still mapped, which is what the two files are for; two kills, so that the one who would repair a leftover may die as well; words of 4 values, so that `flags` wraps below 0 and 1 stays distinct from what two closers leave. `mailbox`: one access that expires, one that takes
the late answer, and the next; five slots hold all four keys with one free slot, or two with gaps. `platform`: 9 covers two words and every remainder, addresses 0..3 every alignment, and two words at address 4 a burst that goes beyond the mask;
two entries are what it takes for one to override the other.

In `free_list`, `Interleaved = FALSE` restricts `free` to lists whose blocks still lead to each other; in
`free_list_chains` it does not. In `table`, one key is put only while absent and deleted by both threads, as the mailboxes
do, the other is put, replaced and deleted by one thread.

### Where the code departs from what it says

* `free_list_chains` (`simdb.hpp:472`): `free(st, en)` relies on `s_lv` still leading from the first block of a list
  to the last. When two `alloc()`s of two-block lists interleave it does not, and a block ends up in two lists. The co-simulation
  writes values of one block, which is the case the proofs cover.
* `store_leak` (`simdb.hpp:579`): `incReaders` looks at the version, then exchanges the readers; the block may
  be freed and reused in between, and the increment is never taken back: the "last one out" does not come.
* `table_collide` (`simdb.hpp:1086`): `put` takes the first deleted slot, even if the key is further on. The key is then stored
  twice, and its old value returns after a `del`.
* `file_deleted` (`simdb.hpp:1670`): nobody increments `flags` on attaching, so the first process to close, not the last, removes the file.

## 4. Fairness

* `free_list`: weak fairness of each thread's steps within a call, i.e. a running thread is scheduled again. `LockFree`
  says that *some* call returns; nothing is claimed of a single call, which may retry for ever.
* `mailbox`: weak fairness of the bridge only. The SystemC kernel keeps running the thread in `b_transact`, whose waits are timed.
  Nothing is assumed of the RTL, so `Returns` covers an RTL that has died.
* `irq`: weak fairness of `transport`, which waits for timed events only, and of the RTL taking an acknowledgement it waits for. The RTL need
  not publish another change.
* `platform`: strong fairness of each memory port, of the host access, of the update phase and of `transport`, and weak fairness of the CPU leaving a direct access. Strong,
  because another process may hold the kernel, or the CPU the mutex, again and again; the kernel's scheduler runs every ready process in each
  delta cycle, and a POSIX mutex that is free again and again is taken to be handed to the waiting thread at some point. Neither the CPU nor the core need start an access.
* `msi`: weak fairness of MSI delivery, of the polling thread, and of the SystemC thread. The FPGA need not raise anything.

`CHECK_DEADLOCK FALSE` stands where a bounded counter ends the run (`store`, `mailbox`, `msi`, `file`), and in
`free_list`, where a database all of whose blocks are in lists that are never freed stops.

## 5. Observations without a run of their own

* `simdb.hpp:799` and `844`: `get()` and `getKey()` return early, with readers incremented, when the buffer is too small.
  The `store` run includes the step; the safety properties survive, the block is never freed.
* `simdb.hpp:1045`: a `get()` whose entry is freed between comparison and read returns true without a value;
  `simdb.hpp:1123`: one whose key is replaced under it may miss a key that is present throughout. `GetIsCurrent` states exactly this much.
* `simdb.hpp:1137`: `del` never looks at the last slot of its search.
* Replacing a key while another thread deletes it may store the key twice (the comparison fails and `put` moves on), as may two threads that
  put the same absent key; hence one writer per key in `table`.
* `simdb.hpp:1565`: a process attaches without waiting for the owner; `AttachedIsReady` excludes simultaneous opening.
* `simdb.hpp:722`: `alloc()` that runs out of blocks half-way loses those it has.
* `simdb.hpp:1724`: `nxtKey` counts one slot less than it passed, and more than the whole table if the first slot it looks at is occupied, so `getKeyStrs` ends early when slot 0
  is taken or two entries are adjacent, and the transactors' constructors leave keys of an earlier run behind. `ListsAll` states when they do not. With such keys no interrupt is
  driven twice or out of order, but one may be skipped, and an access may be answered by an old answer (`AnswerExplained`).
* `simdb.hpp:1772`: the read after the length may find the value replaced or gone and leaves zeros. In the mailboxes this needs an earlier timeout in the same direction or a leftover;
  `AnswerExplained` and `InOrder` allow zeros in exactly these cases.
* `simdb.hpp:1549`: a file whose creator fails or dies before the last store of the constructor is attached to by every later process, uninitialised, and never removed (`flags` starts at 0 and wraps).
* `simdb.hpp:1670`: a process killed in `close()` after it has decremented `flags` to 0 and before `FreeAnon` removes the file (line 1312) leaves the file for good: those who close it later make `flags` wrap around and never find 1. `NoFileLeft` excepts these files
  (`orphan.abandoned`) and those of the preceding point, and no others.
* `models/nvdla/src/nvdla_top.cpp:88`: only the first memory port gets the mutex, although both are bound to the same router. `DmiExclusive` is about the first.
* `models/nvdla/src/adaptors/tlm2gsgp.cpp:70`: the status of the reused transaction is not reset before the bus is called (`Gsgp2tlm` does reset it); an access
  whose target sets no status is told that of an earlier access. `OwnStatus` is about accesses whose target sets it.
* `src/aarch64_toplevel.cpp:447`: the FPGA wrapper is given `pci_msi_fd[0]`; an MSI mask without bit 0 leaves it polling no descriptor, and no interrupt arrives.
* `FPGA/src/transactors/msi2gss.cpp:78`: the return value of `pthread_create` overwrites the handle that the destructor joins; `sc_main` never deletes the wrapper.
* `FPGA/src/transactors/gsgp2fpga.cpp:55`: return codes are combined so that a burst is reported only if every part of it failed.
* `FPGA/src/transactors/gsgp2fpga.cpp:82`: the 32-bit mask clears the upper half of the address, so reads of words at or above 4 GiB read other bytes; writes and single bytes are not masked. The memory of the shipped
  configuration ends at 4 GiB. `TriesAll` excepts these reads.
* `src/aarch64_toplevel.cpp:571`: after the rescan the status `FPGA_STATUS_LOADED` is not checked again, so a simulation may start on a slot whose ids match and whose image is not loaded; `Wired` promises the ids only.
* `src/aarch64_toplevel.cpp:311`: a forked child that cannot change to the simulator's directory returns from `exec_simv` and simulates a second
  platform on the same databases (`ExecSimv` has the step). The same happens if `--simv` names the file, as the usage text says, and not its directory.
* `src/aarch64_toplevel.cpp:377`: wrong options that are found after `aws_fpga_init`, and exceptions out of the simulation, end the process without `aws_fpga_cleanup`;
  `CleanedUp` is about simulations that return.
* `FPGA/src/transactors/msi2gss.cpp:95`: an interrupt raised between a peek that read 0 and the acknowledgement is cleared unseen, and so is one whose peek failed after one that read 0; `StillPending` and
  `Delivered` leave out exactly these. If the acknowledgement fails the bit stays set, and nothing need wake `transport` again; nor does a notification before `transport` has reached its first
  `wait` (line 90). `WakeupPending` and `Delivered` except these (`unheard`), until the next acknowledgement that succeeds.

## 6. Proofs

Every safety invariant of the passing runs, both action properties (`OwnStatus`, `DelIsCurrent`) and both refinements (`PoolSpec`, `MapSpec`) are proved with TLAPS, for every
value of the constants that the named `ASSUME`s and the hypotheses given below allow. TLC was used to find `StrInv`, `FileInv`, `TableInv`, `MapInv`, `LoneInv` and the parts of
`PlatformInv` on small instances (all but `LogInv`, which quantifies over all numbers) before they were proved.

| Module | Theorems | What they state |
|---|---|---|
| `CncrLstProofs` | `ListInvariant`, `ListTypeCorrect`, `NeverSharedBlock`, `NothingIsLost`, `ImplementsPool` | `ListInv`, `TypeOK`, `Exclusive`, `NothingLost`, `PoolSpec` |
| `CncrStrProofs` | `StrInvariant`, `StrTypeCorrect`, `BlockStays`, `CopiesItsOwn`, `FreesOnce`, `CountCovers` | `StrInv`, `TypeOK`, `ReadersKeepBlock`, `CopyIsOwn`, `FreedOnce`, `CountCoversHolders` |
| `CncrHshProofs` | `TableInvariant`, `TableTypeCorrect`, `NoSecondOwner` | `TableInv`, `TypeOK`, no entry has two owners: for any use of the table |
| | `LoneInvariant`, `GetsCurrent`, `CollidingIsMap` | `LoneInv`, `GetIsCurrent`, `MapSpec`: for keys put while absent, by one thread each |
| | `MapInvariant`, `NoEntryLost`, `DelsCurrent`, `TableIsMap` | `MapInv`, `EntryAccounted`, `DelIsCurrent`, `MapSpec`: for keys with different homes |
| `SimdbFileProofs` | `FileInvariant`, `FileTypeCorrect`, `AttachFindsTables`, `FileRemoved` | `FileInv`, `TypeOK`, `AttachedIsReady`, `NoFileLeft` |
| `Gsgp2cosimProofs` | `BoxTypeCorrect`, `AccessTypeCorrect`, `BoxInvariant`, `AnswersExplained`, `AccessesDone`, `KeysListed` | `BoxTypes`, `TypeOK`, `BoxInv`, `AnswerExplained`, `ReturnsDone`, `ListsAll` |
| `InterruptProofs` | `IrqTypeCorrect`, `IrqInvariant`, `LineInOrder`, `NoChangeSkipped`, `CleanStart` | `TypeOK`, `IrqInv`, `InOrder`, `NoneSkipped`, when nothing is left of an earlier run |
| | `MsiTypeCorrect`, `NoWakeupLost`, `NoInterruptLost` | `MsiTypeOK`, `WakeupPending`, `StillPending` |
| `PlatformProofs` | `PlatformInvariant`, `BridgeTypeCorrect`, `FailureReported`, `WholeTried`, `LogFollowed`, `RunsWired`, `EndsClean`, `DmiApart`, `StatusIsOwn` | `PlatformInv`, `TypeOK`, `ReportedIfNoneReached`, `TriesAll`, `LogAsConfigured`, `Wired`, `CleanedUp`, `DmiExclusive`, `OwnStatus` |

The bounds that the models name (`MaxTx`, `MaxChange`, `MaxRaise`, `MaxVer`, `MaxFile`, `MaxCrash`, `MaxEntry`, `MaxLen`, `MaxAddr`) are arbitrary numbers in the proofs, `Wide` any multiple of 4.

### `CncrLst`

Assumptions: at least one block, `LIST_END` not an index, lists of one or two blocks, and `MaxLag < VerMax`; and in
each theorem `MaxChain = 1 \/ ~Interleaved`: lists of one block, or of two that are still linked when freed. `free_list_chains` shows that the
last assumption cannot be dropped. `MaxLag < VerMax` says that no thread sleeps through a whole cycle of 2^32 - 1
exchanges between its load and its exchange; without it the ABA case is real.

Argument. `Exclusive` is not inductive: that `nxt()` hands out a free index depends on the head and the links of free
indices leading to free indices only, two of them never to the same one (`Links`), on every list being what its
ends say (`Shape`), on two calls never working for the same list (`Targets`), and on a thread whose exchange succeeds having read
a link that is still current (`Reads`). The last part is the ABA argument: `VersionGap` ties the distance between the
remembered and the present version to the number of updates slept through, with three cases for how the version
has wrapped (not at all, past 0 by `nxt`, through 0 by `free`). Equal heads and a lag below `VerMax` give lag 0, hence a fresh
link. `FreeCas` in turn adds a chain whose end was linked to the current head; no free index led to it before. There is one
lemma per action, with a step for each part of the invariant it can disturb. The refinement follows because `NxtCas` is `Take` of an index
that `Links` shows free, `FreeCas` is `GiveBack`, and all else leaves the lists alone.

`NothingLost` follows the links from the head `Size` times (`Walk`). That this is the whole of the list is proved in two halves. `Reached` is invariant: every set of indices that holds
the head and is closed under the links contains all free indices; `NxtCas` takes the head away and puts its successor in its place, `FreeCas` puts a chain in front of it. And the walk is such a set:
it grows with each link until it is closed, and it cannot grow more than `Size` times (`WalkCloses`, a count of the set by `Cardinality`). The
function `Visited` is recursive; that a function with its defining equation exists is itself shown (`VisitedIs`), and both inductions are arguments about a least
counterexample (`UpToSize`).

### `CncrStr`

Assumptions: `NoBlk` is no block, and the threads are finitely many (`ProcAssumption`): their number is compared with the reader count. Versions are not reused, as in the model
(`s_version` has 2^32 values).

Argument. A thread that looks at the version and then exchanges the readers may count itself in a block that has been reused meanwhile, so the count of a block says nothing exact. What
is exact is `Counted`: a thread is a holder (`held`) just as often as it has counted itself at its place in the code (`Added`), *if* its block still has the version it asked for, and else
not at all. A version that has gone never returns (`Fresh`: nobody has seen the version of a block that is not in the table yet), so a mismatch is permanent, and whoever gets past a
check has a match or is counted nowhere. `CountCoversHolders`, with holders counted by `Cardinality`, then makes the last reader the last one: a
reader that finds one reader left and the deleted mark is the only holder, and nobody but it frees (`Alone`, `Unread`). The proof has one lemma for what a step changes of the blocks, one for
what other threads rely on, one for the thread itself, and one each for `Tabled`, `Apart` and the count.

### `CncrHsh`

Assumptions: at least two slots and one key, every key with a home among the slots. There are three layers, from no hypothesis about the use of the table to a strong one.

* Any use: keys that collide, several writers of a key, `put()` that retries or comes round. `TableInv` has the types, what each place in the code implies of the entry a call carries
  (`Stages`: the entry of a `put()` has never been in a slot, a call carries one exactly while it stores or frees), and `Once`: what is in a slot or in a hand is in use, and is in no second one.
  It covers the steps that run `table` does not take, `PutRetry` and the end of a search in `PutCompare`.
* Keys that are put only while absent, by one thread each (`SoleWriter`), with any homes and deleters, and with any use of the other keys. `LoneInv`: such a key is in one slot at most and in none while its `put()` searches, so that the
  exchange of `put()` never makes a second copy, whichever slot it has reached. `GetIsCurrent` then needs, of each `get()` (`Finding`), that it has seen the key absent, or the key is not behind the search, measured as the distance
  of a slot from the key's home. A key gets behind a search only by a `del()` and a `put()`, and between them the call has seen it absent.
  If no key is replaced, `MapSpec` follows. This is the use that the mailboxes make of the table: `irq_ipc_db_dn` and `irq_ipc_db_up` hash to different slots of the 1024, but the names of the other four keys end in the process id, and for
  a few process ids in a thousand two of them have the same home.
* Keys with different homes (`HomesApart`), one writer each, and no other thread that deletes a key that is replaced (`OneReplacer`). `MapInv`: every entry is at the home of its key, and every entry in use is in a slot or a hand. Here keys may be
  replaced, nothing leaks, and `del()` gives up for absent keys only. The last two are false for keys that collide in a full table: `put()` that comes round drops its entry, and `del()` never looks at the last slot
  of its search.

`table_collide` shows that the map needs one of the two sets of hypotheses: there, colliding keys are replaced.

### `SimdbFile`

Assumptions: at least one file, words of at least two values. Argument. `NoFileLeft` needs `Kept`: the file that the path names is unfinished or abandoned for good, is being created, is about to be
removed (a process stands between the decrement and `FreeAnon`), or has `flags = 1` and either a process that has it open or the mark of one that ended with it open; the first `close()` that finds
`flags = 1` becomes the remover. `Kept` does not say that nobody else removes the file: `~SharedMem()` may, by `cnt`, and then the path names none. `AttachedIsReady` needs `Orderly`, which holds until two
processes open at the same time (`raced`): one process at a time is in the constructor, and every file is initialised, abandoned, or in the hands of that process.

### `KeyScan`, `Gsgp2cosim`, `Irq2gss`

Assumptions: at least two slots, one access or change, a positive timeout. `getKeyStrs` is a loop over a table of any size; its invariant `ScanInv` says that, with slot 0 free and no two entries
adjacent, either everything is listed or the search has not wrapped, counts no more slots than it has passed (`nxtKey` counts one too few per step, and adjacent entries would
make it more), and has listed all entries behind it.

`BoxInv` distinguishes directions. In a *fresh* one (no leftover, no timeout so far) the only message under way is the request or the answer of the access in progress, and which of them
depends on where bridge and RTL stand (`OwnRequest`, `OwnAnswer`); in any other, each message is a leftover or belongs to an access not before the first that expired (`Aged`). `AnswerExplained` is the
part of it that the caller sees.

`IrqInv` has an order that holds whatever was left (`Order`: published after in hand after sent), and, if nothing was, five places where the latest change may be (`Quiet`, `Published`,
`Acknowledged`, `Released`, `Overlapped`), in the last of which the RTL has published the next change before `transport` has sent the present one. `CleanStart` says when nothing was left.

### `Msi2gss`

`WakeupPending` is inductive. `StillPending` needs `AckClearsLate`: an acknowledgement with 0 in hand clears only what is marked `exposed`, raised since the peek or before one that failed.

### `Platform`

Assumptions: `MaxLen`, `MaxAddr`, `MaxEntry` natural numbers, `Wide` a positive multiple of 4, at least one MSI descriptor. `PlatformInv` has four parts, and each is kept by the steps of the others because `sc_main` does nothing while the
simulation runs (`NotRunning`), and bridge and C model are at rest while it does not.

* `HostInv`: what `sc_main` holds at each stage: the BARs attached so far, those still to be detached with `bars = stuck \union` the rest, the descriptors opened so far, the parts
  built, who was given the mutex, and that no call has failed where the program still goes on.
* `LogInv`: the actions configured are those of the last entry that set a level for the message. There is such a last entry (`HasLast`) whenever one sets a level, kept entry by entry, so
  that no induction over the sequence is needed.
* `BusInv`: while words are left, `index + len = size`, `index` is a multiple of 4, the bytes tried are those below `index`, and the return code is an error exactly while no byte was reached. The word
  address of a read, masked, is the address itself for aligned accesses below `Wide` (`WordAddress`).
* `CmodInv`: the kernel's thread holds the mutex exactly while the first port has an access on the bus, the CPU exactly while in a direct access; the transaction of a port that waits for the bus carries its
  own request, and one that was served and answered its own status.

The empty field of an `SC_LOG` entry has a name (`Empty`) in `LogConfig`, because the SMT backend cannot handle the empty string.

### Only model-checked

* Liveness (`LockFree`, `Returns`, `RtlReleased`, `LineFollows`, `Delivered`, `Served`): out of the prover's reach.
* The four properties that are violated.

## 7. Not modelled

* `simdb.hpp`: Windows branches; the listing of databases; lists of more than two blocks in `CncrLst` and of more than one in `CncrStr` (the co-simulation's values fit into one block); data
  races on block contents beyond which version wrote them; `getKey` and `len` as steps of their own (they search and count as `get` does); `nxt` while others write; a block count that is
  not a power of two; a process that dies in the middle of an operation of the store (the file and its keys are, in `SimdbFile`, `KeyScan` and the transactors).
* `gp2str.cpp`, the text of arguments and of `SC_LOG`, all messages: formatting.
* Destructors of the SystemC modules: `sc_main` never deletes its parts.
* The wrappers, and the binding of ports: construction only.
* The second platform that a forked child simulates when it cannot execute the simulator: `ExecSimv` has the step, nothing follows it.

## 8. Plan

1. Lists of several blocks in `CncrStr` (the version of the last block is never reset).
2. More compositions: mailbox with interrupt, MSI within `Platform`.
3. How far from its home a key can be put, and with it `EntryAccounted` and `DelIsCurrent` for keys that collide.
