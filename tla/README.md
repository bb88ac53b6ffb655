# HDF5 in TLA+

TLA+ models of the concurrent and stateful core of the HDF5 library (`src/src/*.c`),
the instances on which TLC checks them, and proofs that TLAPS checks. The C code is the
reference: the definitions are named after the functions they model, and `PROJECT.json`
maps each of them to its lines.

Contents: [the system](#the-system) · [modules](#modules) · [runs](#runs) ·
[fairness](#fairness) · [proofs](#proofs) · [where code and comments disagree](#where-code-and-comments-disagree) ·
[not modelled](#not-modelled) · [plan](#plan)

## The system

HDF5 stores groups and datasets in a file. An API call goes through the virtual object layer
(H5VL) to the native connector, whose packages (H5D, H5G, H5O, ...) build B-trees, heaps
and object headers. All these structures live as entries in the **metadata cache** (H5C, with
H5AC as its face to the clients), which reads and writes them through the page buffer (H5PB),
the metadata accumulator (H5Faccum) and a **virtual file driver** (H5FD). **H5TS** has the threads, locks,
semaphores and thread pool the rest uses; the **subfiling driver** has the only threads the
library starts by itself: the I/O concentrators.

| component | state | operations | who calls it | what is hard | what makes it correct |
|---|---|---|---|---|---|
| recursive readers/writer lock (`H5TSrec_rwlock.c`) | lock type, owner, counters of recursion and waiters, per-thread read counts, two condition variables | read and write lock, unlock | any thread | wake-ups that race newcomers; stale owner; upgrades | writers alone; exact counters; nobody asleep on a free lock |
| emulated semaphore (`H5TSsemaphore.[ch]`) | counter, waiters | signal, wait | thread pool | a woken thread overtaken; spurious wake-ups | is a counting semaphore; no signal lost |
| thread pool (`H5TSpool.[ch]`) | task queue, semaphore, shutdown flag, threads | create, add task, destroy | I/O concentrator | shutdown among announcements; tasks that add tasks; creation that fails half-way | accepted tasks run; nothing freed in use; calls return |
| metadata cache entries (`H5Centry.c`) | hash index, LRU / pinned / protected lists, dirty and image flags, flush dependencies with counters | insert, protect, unprotect, pin, dirty, resize, move, flush, evict, remove, depend | every metadata client | counters kept by a dozen operations; flags noted while protected | lists and counters exact; children before parents; no update lost, no dangling parent |
| metadata cache flush (`H5C.c`, `H5Cint.c`, `H5Ctag.c`, `H5Fint.c`) | skip list of dirty entries, ring, scan pointer, flags | flush file, flush object, make space | close, flush, client callbacks | callbacks change the skip list under the scan; proxies; failures half-way | no stale pointer; rings in order; success means written; termination |
| I/O concentrator (`H5FDsubfiling/H5FDioc_threads.c`) | queue of requests, workers, queue mutex, shutdown flag | receive, queue, dispatch, read, write, truncate, EOF, shutdown | subfiling clients through MPI | out-of-order dispatch; try-lock that gives up; answers before completion; shutdown | results as if in order; no dispatch lost; quiet at shutdown; clients served |
| API lock (`H5TSint.c`, `H5TSrwlock.h`, `H5private.h`) | readers/writer lock, per-thread disable count (DLFTT), the count each public function keeps | enter and leave a public function or a callback, acquire and release by the application | every API call, callbacks | a callback gives the lock up and takes it back under functions that remember an old count | library code always owns the lock; every function finds the count it left; waiters get in |
| external file cache (`H5Fefc.c`) | for each file the LRU list of files it caches, counts, temporary tags | open, close, evict, release, try to close | traversal of external links, file close | cycles of files that cache each other; closing re-enters itself; eviction closes files | counts exact; nothing unused stays open, nothing in use is taken |
| file open (`H5Fint.c`, `H5Fsuper.c`) | file lock, status flags in the file, open mode | open, create, start SWMR writing, close, clear flags | processes that share a file | lock and flags are separate steps; the lock is given up for SWMR; crashes at every step | who has the file open together follows the library's table; flags tell the truth |
| identifiers (`H5Iint.c`) | hash table per type, two reference counts, marks, member counts | register, count, remove, clear, destroy | all packages, free callbacks | callbacks change the table under the walk of a clear; callbacks fail; holders drop references to what a clear has freed | the walk stays in the table; a forced clear leaves nothing; nothing freed twice and counts exact, but for identifiers released late |
| accumulator, page buffer (`H5Faccum.c`, `H5PB.c`) | dirty region; pages of two kinds | read, write, free, flush, evict | cache and raw data | overlap cases; minimum shares; bypass | reads see the last write (not modelled) |
| event sets (`H5ESint.c`) | active and failed lists | insert, wait, cancel | applications | callbacks during the walk | every operation is reported once (not modelled) |

The interactions modelled: the thread pool uses the semaphore, the concentrator
uses the thread pool; flushing uses the entries, and the callbacks of entries that are flushed
come back into the cache; proxies hear from their children; the application's callbacks re-enter the library through the API lock and
the identifiers; closing a file re-enters the caches of other files; processes meet at a file. All other components are listed with
the reason in [Not modelled](#not-modelled) and in `PROJECT.json`.

## Modules

| module | what it is |
|---|---|
| `RWLockSpec` | abstract readers/writer lock: what was granted and not released |
| `RecRWLock`, `RecRWLock_proof` | `H5TSrec_rwlock.c`, implements `RWLockSpec` |
| `SemaphoreSpec` | abstract counting semaphore with blocked threads |
| `Semaphore` | the emulation of `H5TSsemaphore.[ch]`, implements `SemaphoreSpec`; proofs in `ThreadPool_proof` |
| `ThreadPool`, `ThreadPool_proof` | `H5TSpool.[ch]` over a counting semaphore (which `Semaphore` provides); the proofs of both |
| `MetaCache`, `MCMetaCache`, `MetaCache_proof` | entries of the metadata cache, one operation at a time |
| `CacheFlush`, `MCCacheFlush`, `CacheFlush_proof` | the flush loops over those entries, with callbacks in the middle |
| `IOCQueue`, `MCIOCQueue`, `IOCQueue_proof` | the I/O concentrator over a pool with the promises of `ThreadPool` |
| `APILock`, `APILock_proof` | the API lock of a build with concurrency, whose lock implements `RWLockSpec` |
| `ExternalFileCache`, `MCExternalFileCache`, `H5F_proof` | the caches of externally linked files and the close of files that form cycles |
| `OpenProtocol`, `H5F_proof` | processes that open one file: lock, flags, SWMR, crashes |
| `Identifiers`, `MCIdentifiers`, `Identifiers_proof` | identifiers, their reference counts, and clearing a type under callbacks |

A definition `f_x` marked *Mutant* in a comment is `f` with a plausible bug; each property is known to fail for one.

### RecRWLock
Every function of the lock holds `lock->mutex` except inside `cond_wait`, so a step is one
mutex section: `rdlock_grant`, `rdlock_wait`, `rdlock_recursive`, `rdlock_refused` are the four ends of
the first section of `H5TS__rec_rwlock_rdlock`, `rdlock_retest` is the section after a wake-up, and so
for writers. `WakeNext` is the choice made at the end of both unlocks. `SpuriousWakeup` lets any
blocked thread wake; `ThreadExit` frees a thread's counter. `rd_held` and `wr_held` record what callers were
granted; the refinement maps them to `RWLockSpec`.

### Semaphore
`H5TS_semaphore_wait` is split at its `cond_wait`: `semaphore_wait_take` (no wait),
`semaphore_wait_block`, and `semaphore_wait_retest` after a wake-up. `semaphore_signal` wakes one thread only
when the waiter count is above zero. Newcomers may take a unit before the thread that was woken for it.

### ThreadPool
`create_thread`, `create_done`, `create_fail` are the loop of `H5TS_pool_create` and its error path;
`destroy_shutdown`, `destroy_signal` and `pool_free` are `H5TS_pool_destroy`, whose joins
wait for `exited` workers. A worker goes round `semaphore_wait`, `take_task` or `leave`, `task_done`.
`add_task_queue` and `add_task_signal` are the two halves of `H5TS_pool_add_task`, which releases the
mutex in between; workers may call it from inside a task.

### MetaCache
Flag fields are the sets of the entries that have them; `flush_dep` holds the pairs <<parent, child>> of the
`flush_dep_parent` arrays; `nchildren`, `ndirty_children` and `nunser_children` are kept incrementally, as the code
does. Each operation of `H5Centry.c` is one action with its guards (most are assertions or
error returns there). The loops that flush and evict appear as the step they take on
an entry, under the test the loop makes: `flush_in_ring`, `make_space_flush`, `evict`, `expunge_entry`,
`remove_entry`, `serialize_single_entry`. `unsaved` (content the file lacks) and `last` (what the last step wrote and made an
image of) are auxiliary. Left out: sizes, tags, rings, addresses, epoch markers, the cache image, MPI.

### CacheFlush
`H5C__flush_ring` with its scan state (`node`, the node after the current one; `visited`, what lies behind; the two flags of
the pass), `H5C_flush_cache` around it (`end_ring`, `RingFailed`), and the two callers: a file (`flush_phase2`, `flush_again`,
`secure_from_file_flush`: H5F flushes twice, because drivers and free-space code may dirty metadata between) and an object
(`flush_tagged_entries`). `pc = "flush"` is the inside of `H5C__flush_single_entry`: there callbacks (`ClientStep`,
`move_self`) dirty, insert, load, move, write and evict other entries, at most `MaxCallbacks` in a call, within what
the cache asks of callbacks (`MayTouch`: not of outer rings, not what the entry waits for). A callback may leave
`slist_changed` behind, and the scan restarts. Protected entries make a flush fail. `WithProxies` is the notification that makes a
proxy (`H5ACproxy_entry.c`) dirty and clean with its children. Flush dependencies are fixed here, have no cycles
(`AcyclicAssumption`, asserted by `H5C_create_flush_dependency`), and the entries written last, the superblock and the driver information, have
none (`LastAssumption`).

### IOCQueue
Entry `i` is the `i`-th request received; its `status` tells whether it is in the queue. `inbox` is the header a client has sent.
The main thread goes `main_probe`, `add_entry`, `dispatch_eligible_entries`, `main_check`; a worker `take_task`, its
`transfer_*` or `truncate` / `report_eof`, `complete_entry`, then a dispatch under try-lock. The mutex is a variable because of that
try-lock. Transfers move one byte a step, so overlapping requests really interleave; a byte of the subfile holds
the number of the write it is from. `StorageFails` lets file operations and allocations fail; `MessagesFail`
lets the main thread leave on an MPI error. `finalize` goes through `H5FD__ioc_finalize_threads`.

### APILock
A thread is a stack of frames: application code, a public function it called, the callback that function called, and so on; a public
function keeps the disable count it read at its entry (`ApiFrame`), application code keeps the lock count a release gave it
(`UserFrame`). `api_lock_skip`, `api_lock_take`, `api_lock_wait` and `api_lock_retest` are `H5TS_api_lock` with the write side of
`H5TSrwlock.h`, which is split at its `cond_wait`; `api_unlock` is `H5_API_UNLOCK`; `user_cb_prepare` and `user_cb_restore` stand around a
callback. `mutex_acquire` (a try-lock) and `mutex_release` are what `H5TSmutex_acquire` and `H5TSmutex_release` do, called
by callbacks and by the application outside the library. Assumed of the application: it releases only what it holds, and a callback
that gave the lock up takes it back, with the count it was given, before it returns.

### ExternalFileCache
The API lock is held throughout, so public calls do not interleave; what makes the code hard is that its functions call each other
recursively and change the lists their callers are walking. So a call is a sequence of small steps over an explicit stack, `calls`. A frame names the function
(or, within `H5F_try_close`, the place it has reached: `pass1`, `pass2`, `cleanup`), its file, and the entries or files it has yet to go
through; `Call` pushes a callee, `Return` pops, `Continue` moves on. `release_entry` is one turn of the loop of `H5F__efc_release_real`: it takes the
entry from the list and calls `H5F_try_close` for its top, which may run the passes (`try_close_root`), re-enter a release (`try_close_reentered`), and then
destroys the top (`dest_top`, or `dest_efc` and `dest_shared` when it is the last). Client calls (`open_file`, `H5Fclose`, `efc_open_hit`, ...) begin only
when the stack is empty. The lists linked by `tmp_next` are the set `found`: pass 2 may take its files in any order. Each file is linked to by one name,
so that a cache has one entry for it.
`tag1_entry` and `tag2_entry` are the first two passes; the third is the recursion itself. An object may keep
open the top it was reached by (`objs`, `loose`), as with the close degree "weak". `ParentsHeld` is the library's own rule for
its clients: while a client uses an entry, the file of the cache is open by an identifier.

### OpenProtocol
`H5F_open` is split where other processes can see it: `truncate`, `lock_file`, `check_flags`, `flush_superblock`, `unlock_swmr`. A refused
lock leaves nothing behind, except after the file was truncated (`lock_fail`). `H5F__start_swmr_write` is split at its
unlock, lock and flush, and fails at each (`start_swmr_refused`, `start_swmr_fail`); closing is `clear_flags`, then `close_file`. `crash` may
come at any step. Modes: W, R, and with SWMR SW, SR. `Versions` tells superblocks of version 3, whose flags are checked, from
older ones (2), whose flags are not. Assumed: all processes use file locking; an application does not truncate a file others have
open; `h5clear` is run only on files nobody is writing. The guard of `truncate` that stands for the second of these is not in the code, where
`H5F_open` truncates before it locks. Without it, truncating the file of an SWMR writer, which has given its lock up, would go through
the lock and succeed: a second writer on the file, against `ConcurrentAccess` and `WriterFirst`. These two hold only of
applications that keep to the rule.

### Identifiers
An identifier is its place in the order of registration, which is the order in which the table is walked. `clear` is the local state of the
one `H5I_clear_type` under way, with the two cursors of `HASH_ITER`; `calls` is the stack of free callbacks, inside which any operation on any identifier
may happen. `dec_ref_last` and `dec_ref_return`, and `mark_node` and `mark_node_return`, are the code before and after the callback;
`clear_sweep` is the second phase, with the end of `H5I__destroy_type` for a type that is destroyed.

The rule of who may use an identifier (`Usable`) is this. The entry must be in the table, marked or not, since `H5I__find_id`
(`H5Iint.c:1665-1743`) does not look at the mark. The caller must hold a reference: `held`, which is not in the code, counts
the references that somebody still holds, apart from `count`, because a clear frees an object without asking its holders, and these may drop or
remove afterwards what they hold. A reference whose last drop is running its callback is given up and not used again. While a clear is on, only
its callbacks run, since the thread that clears has the API lock. An identifier is *released late* (`late`) if its last reference is dropped, or it is removed, when a
clear has got to it already: its object is then freed again (`:1063-1076`) and `id_count` taken down again (`:975`), in builds
without assertions; with them the program ends at `:956`. The model has the former. Assumed of callers besides: a callback clears
no type, and registers nothing in a type that is being destroyed.

## Runs

| run | instance | checks | shows |
|---|---|---|---|
| `rec_rwlock` | 3 threads, depth 2 | `CountersAgree` `NoLostWakeup` `ImplementsRWLock` `EveryWaiterServed` | the lock is the abstract lock; wake-ups reach everyone once requests cease |
| `semaphore` | 4 threads, counter up to 4 | `ImplementsSemaphore` | the emulation is a counting semaphore, liveness included |
| `pool` | 3 workers, 2 clients, 3 tasks, creation may fail | `AcceptedTasksDone` `NotFreedInUse` `DestroyTerminates` `AcceptedTasksRun` | tasks run, the pool is freed after its last use, destroy returns |
| `cache` | 3 entries, one a proxy, in a triangle of dependencies | `DependentsCached` `Consistent` `WriteOrder` `NoLostUpdate` | lists, pins and counters survive any order of operations; write order; no lost update |
| `cache_flush` | 5 entries, 2 rings, 3 callback steps | `NodeLive` `SlistAgree` `RingsInOrder` `FlushComplete` `FlushTerminates` | the scan is safe under callbacks, in order, complete, and ends |
| `ioc` | 2 clients, 2 workers, 3 requests on 2 bytes, all failures on | `StrictOrder` `NoForgottenEntry` `ResultsSerial` `QuietAtShutdown` | requests act as if run in order of arrival; shutdown leaves nobody |
| `ioc_live` | 2 requests, no failures | `ClientsServed` `FinalizeReturns` | calls and shutdown come to an end |
| `api_lock` | 3 threads, 5 frames, 8 calls | `InsideOwnsLock` `CountRestored` `ImplementsRWLock` `EveryCallerEnters` | nobody is in the library without the lock, counts survive callbacks that give it up, waiters get in |
| `efc` | 3 files, caches of one and two entries; 1 identifier a file, 1 open entry, 1 open object | `CountsAgree` `ReleaseWalksList` `NoFileLeftOpen` `OnlyUnusedReleased` | at every step counts are exact and a release walks the list as it is; closing decides rightly which files of any cycle go |
| `open_protocol` | 3 processes, SWMR started on version 3 files | `ConcurrentAccess` `FlagsHaveOwner` `CrashedLeftAlone` `WriterFirst` | the library's table holds between any steps and crashes; flags tell the truth |
| `open_refused` | the same, SWMR also started on older files | `ConcurrentAccess` (violated) | a refused start of SWMR leaves a writer without a lock |
| `identifiers` | 2 types, 3 identifiers, callbacks 3 deep, 1 identifier released late | `MembersAgree` `CursorSafe` `FreedOnce` `ForcedClearsAll` | clears keep their place and take everything under callbacks that release, remove, register and fail; counts are exact until something is released late, which harms no other object |

The largest runs: `identifiers` 2.8 million distinct states, `ioc` 1.3 million, `efc` 0.7 million, `cache` 0.5 million; the others have between 221
(`semaphore`) and 112 300.

Why the bounds are enough to be interesting:
- **Lock**: three threads give a holder, a waiter and a newcomer that overtakes; depth two tells first
  from recursive requests. No code path looks at more than one other thread.
- **Semaphore**: a signaller, a woken thread, a newcomer and a sleeper are four roles.
- **Pool**: three workers and three tasks: one can run, one be announced and one sleep while the pool shuts down; a task may add another.
- **Cache**: three entries make a chain (a child that is itself a parent), and a parent with two children; the proxy
  is the middle of the chain. `MaxRO` 2 tells the last shared reader from others.
- **Flush**: 1 is a parent of 2, 3 the proxy of 2, 4 independent, 5 the superblock in the inner ring; three callback
  steps suffice to remove the next node, put it back, and change another ring.
- **IOC**: three requests are the shortest chain in which a request that waits can be overtaken wrongly; two bytes
  let two requests overlap in part, and a write tear. The five kinds of requests in `Overlapping` conflict
  in every way the dispatcher tells apart. Clients and workers are symmetric (`Symmetry`; that run checks invariants only).
- **API lock**: five frames are a function called from a callback of a function called from a callback's function; three threads give an owner, a sleeper and
  one that takes the lock by `H5TSmutex_acquire` before the sleeper wakes. `MaxCalls` bounds the calls of all threads together.
- **External file cache**: three files have cycles of length one to three and a cycle with a tail, which is what tells pass 2 from pass 1. A full
  cache of one entry evicts at once. One identifier a file, one open entry and one open object are enough to keep any file open in
  either way while others are closed. Files with equal caches are symmetric. `TagsReset` is a constraint of the run: see the
  second disagreement below.
- **Open**: three processes are a writer, one in between its unlock and lock, and one that gets in; two references tell the last
  close from others.
- **Identifiers**: three identifiers are one under the walk, the one it will go to next, and one behind; three nested callbacks release all of
  them inside each other. One of them may be released late (`MaxLate`), which leaves two others to show that it does them no harm.

`CHECK_DEADLOCK FALSE` stands where the system may really stop: a pool that is freed, a
concentrator that is closed or whose requests (`MaxRequests`) are used up, calls and identifiers that are used up.

## Fairness

Fairness is stated only for what the code or the system underneath keeps doing by itself; no
specification forces a thread to begin a call.

- `RecRWLock`: a thread releases the lock it holds (assumed of callers), and a woken thread gets the mutex.
  `EveryWaiterServed` has as premise that requests cease: the lock prefers writers to
  readers at unlock and lets new readers past waiting writers, so neither is served for certain under
  a steady stream of requests.
- `Semaphore`: a woken thread gets the mutex. A sleeper is served only if enough is signalled, as in `SemaphoreSpec`.
- `ThreadPool`: the creating and destroying thread and the workers run; task functions return; a thread that has queued a task
  announces it. Nobody has to add a task or destroy the pool.
- `CacheFlush`: weak fairness of `FlushStep`, the rest of a flush that has begun; callbacks come to an end
  (`MaxCallbacks`), since otherwise they could dirty entries for ever.
- `IOCQueue`: threads run (weak fairness), and a thread that waits for the queue mutex gets it (strong fairness): others take it
  again and again only with sleeps or work in between; the main thread sleeps between polls.
- `APILock`: public functions and callbacks return, the application gives up a lock it acquired, a callback that released the
  lock keeps asking for it (its request is a try-lock: `mutex_acquire` cannot wait), and a woken thread gets the mutex. Calls are bounded, since
  threads that come again and again by the try-lock may keep a sleeper out for ever.
- The other modules state safety only.

## Proofs

For all values of the constants (finite sets of threads, entries, clients, workers; any depth, rings,
dependencies, requests), under the `ASSUME`s of each module, which TLC evaluates in its runs. Each
proof module has one lemma per operation or per conjunct, an inductive invariant `IInv`, and its theorems.

| module | inductive invariant beyond `TypeOK` | theorems |
|---|---|---|
| `RecRWLock_proof` | `CountersAgree`, `TsdAgrees`, `NoLostWakeup`, `NoHoldAndWait` | types, `MutualExclusion`, `CountersAgree`, `NoLostWakeup`, `NoHoldAndWait`, and that the lock implements `RWLockSpec` |
| `ThreadPool_proof` | `TokensBalance`, `ThreadsAgree`, `OwnerProgress`, `UnpublishedIdle`, `StatusAgrees` | types, `EmptyOnlyAtShutdown`, `AcceptedTasksDone`, `NotFreedInUse` |
| the same, last section | `NoLostWakeup`, `WaitersExact` of `Semaphore` | of the semaphore: types, `NoLostWakeup`, and that every step is one of `SemaphoreSpec` |
| `MetaCache_proof` | `ListsAgree`, `PinsAgree`, `CountsAgree`, `DependentsCached`, `NoLostUpdate` | each of them, types, `WriteOrder`, and `Consistent` (the first three together) |
| `CacheFlush_proof` | `ProxiesAgree`, `SlistAgree`, `BusyEnabled`, `NodeLive`, `ScanAhead`, `PointerWaits`, `ProxyNeverFlushed`; `RInv` for the rings | types, `NodeLive`, `SlistAgree`, `ProxyNeverFlushed`, `RingsInOrder`, `FlushComplete` |
| `IOCQueue_proof` | `BoundOK`, `MutexOK`, `PlaceOK`, `TasksOK`, `StrictOrder`, `NoForgottenEntry`, `EndOK`; `SInv` for the results | types, `StrictOrder`, `NoForgottenEntry`, `QuietAtShutdown`, `ResultsSerial` |
| `APILock_proof` | `LockOK`, `WaitOK`, `ThreadOK` of every thread's whole stack of frames | types, `InsideOwnsLock`, `CountRestored`, and that the lock implements `RWLockSpec` |
| `H5F_proof`, on `OpenProtocol` | `LockExcludes`, `LockHeld`, `OwnerShown`, `OwnerAlone`, `CrashedKept`, `FlagsHaveOwner` | types; under `StartsOn \subseteq {3}`: `ConcurrentAccess`, `WriterFirst`, `FlagsHaveOwner`, `CrashedLeftAlone` |
| `H5F_proof`, on `ExternalFileCache` | `EfcInv`: `OneEntry`, `Callers`, `PassesAlone`, `Locked`, `PassesUnlocked`, `PassedByOpen`, `ClientsHold`, `LastTop`, `EvictorHeld` | types, `CountsAgree`, `ReleaseWalksList` |
| the same, last sections | `ReachInv`: `NoGarbage`, `NoCacheEmpty`, `DestRight`, `OneRun`, `TagWalks`, `TagInPass`, `Pass1Right`, `Pass2Right`, `CleanupRight`, `RunTags`, `TagsTell`, `DestInRun` | under `[]NoObjects`: `NoFileLeftOpen`, `OnlyUnusedReleased` |
| `Identifiers_proof` | `FreshInv`, `CallsInv`, `ClearInv`, and the properties | types, `MembersAgree`, `CursorSafe`, `FreedOnce`, `ForcedClearsAll` |

Why the strengthenings are needed:
- *Lock*: exclusion needs the counters to be true, and those that a waiting thread holds nothing; else a
  woken thread could be granted a lock on top of one it forgot.
- *Semaphore*: a signal looks at the number of waiters, which must count exactly the threads in the loop.
- *Pool*: a worker that finds the queue empty holds a token; `TokensBalance` (tokens against tasks and shutdown signals) says
  that it is a shutdown token, and, when all have left, that no `add_task` has a signal to make.
- *Cache*: both ends of a dependency stay cached because a parent is pinned while it has children, which its counters decide,
  which are true because both ends stay cached: the parts hold only together.
- *Flush*: the pointer is alive because every removal the scan does not make itself sets `slist_changed`; the
  removals it makes are of entries behind it, or of proxies.
- *Rings* (`RInv`): a pass that writes nothing and meets no protected entry has seen every entry of the skip list wait for a dirty child;
  a set of entries without cycles of dependencies has one that waits for none of them, and that one would have been written. So the ring is left only when
  nothing of it is in the skip list. The argument needs the dirty children to be in the skip list too (`ChildrenListed`).
- *IOC*: order holds because an entry is compared with everything ahead, dispatched or not; a try-lock may give
  up because the holder has a dispatch still ahead of it.
- *Results* (`SInv`): what the property says of answers is kept, at every moment, of every byte of the subfile, of its size and of every byte already read: each
  is what the entries, as far as they have run, leave in the order of the queue. When a byte is written, no entry behind the writer has touched it, and
  none that has read it is behind the writer, since those wait for it; requests that do not overlap may run in any order because they touch different bytes.
- *API lock*: the properties speak of the function or callback that runs; the ones below it on the stack run again later, so the invariant
  says of each with which count it runs (`RunsWith`) and that the next was entered with that count (`Nested`).
- *Open*: a writer is alone because its exclusive lock keeps others from looking (`LockHeld`, `LockExcludes`), and where it gave the lock up its flags
  are in the file for all to see (`OwnerShown`); a crash takes the lock and leaves the flags (`CrashedKept`).
- *External file cache* (`EfcInv`): that a count is taken down once for each top needs to know what is on the stack: which call stands on which (`Callers`), that the
  passes close nothing and only look (`PassesAlone`), and that the last top of a file closes while nobody else closes one (`LastTop`). A release may trust the
  entry it goes on to because its cache is locked meanwhile and released once at a time (`Locked`), although the closes it makes may come back to the
  same file: a file with a locked cache is skipped by the passes (`PassesUnlocked`, `PassedByOpen`), and has a reference besides those of caches, the top being closed, so
  that it is not taken for a root. A client that evicts an entry adds the new one to the cache only after the close of the old one has returned; the file of that
  cache is still open then because somebody else keeps it open, not a cache (`ClientsHold`, `EvictorHeld`).
- *The three passes* (`ReachInv`): a file is garbage if it belongs to a set `U` of files to which only caches of `U` refer (`Unused`), and needed otherwise; speaking of
  all such sets instead of paths makes the argument one of sets and counts, without induction along the walk. While pass 1 has visited `V`, the tag of
  a file is the number of caches that hold it and in which it has not been seen (`Unseen`, `Pass1OK`): 0 at the end means that all of them are in `V`. Pass 2 keeps a
  set `X` of needed files, and every file of `V` outside it that one of `X` holds is still ahead of a walk (`Pass2OK`); so what is left at its end is a set `W` to which nothing but `W`
  refers. Pass 3 releases only caches of `W`, and each file of `W` that is still open while it runs has its cache empty or its release to come (`CleanupOK`), although
  the closes it makes re-enter the caches of `W` in any order and close tops of needed files on the way; none of them starts passes of its own (`OneRun`). `DestRight` is what all this is for: the close of a top that is
  not the last one leaves no garbage behind (`NoGarbage`).
- *Identifiers*: an object is freed once, unless it is released late, because a callback that runs for an identifier that is not in `late` is
  the only one on the stack for it, and its entry is there and unmarked (`CallsInv`). `MembersAgree` and `FreedOnce` are proved with the premise about `late`
  that they state; `CursorSafe` and `ForcedClearsAll` have none, since a late release can only mark again what is marked, or find the entry gone; a forced clear leaves nothing because what it has yet to take is at its
  walk or ahead of it (`ClearInv`).

Only model-checked: liveness and refinement of fairness (`EveryWaiterServed`, `DestroyTerminates`,
`AcceptedTasksRun`, `FlushTerminates`, `ClientsServed`, `FinalizeReturns`, `EveryCallerEnters`, the fairness in `ImplementsSemaphore`), which TLAPS does not
reach. `NoFileLeftOpen` and `OnlyUnusedReleased` of `ExternalFileCache` are proved for executions in which no object is open by way of an entry (`[]NoObjects`; objects of
files opened otherwise are allowed), since `CleanupOK` does not hold with one: its file, found closeable, stays open and keeps the tag CLOSE (see below). With such
objects `NoFileLeftOpen` is model-checked, from states without tags.

## Where code and comments disagree

Checked by a run that expects a violation:
- `open_refused`: the table of concurrent access at `H5Fint.c:1787-1803` and `doxygen/dox/file-locking.dox:144-147` say that a file open for
  writing, but not for SWMR writing, is open to nobody else. `H5F__start_swmr_write` unlocks the file at its label `done` (`:4053-4056`) also when
  the call is refused, for instance because the superblock is older than version 3; the flags of such a file are never looked at, so another process may then open it
  and write to it. The theorem has the assumption `StartsOn \subseteq {3}` for this reason.

Seen while modelling and not kept as runs:
- *Locks and pool.* `H5TSrec_rwlock.c:492` says "Readers defer to current or pending writers"; pending writers are not looked at.
  When a thread of a pool cannot be created, `H5TSpool.c:232-236` sets the shutdown flag and joins the others, but signals nobody: they sleep
  for ever. `NotFreedInUse`, the property named at that hazard, shows only that nothing is freed under them; it does not catch the hang.
- *External file cache.* When an object is open by way of an entry, its top stays open as the entry is removed; the assertion `nrefs == 1` after
  the release of the root (`H5Fefc.c:998`) then fails, and in a build without assertions files that stay open keep the tag CLOSE and are released by the
  next close. So `OnlyUnusedReleased` has the premise `NoObjects`, and the run goes on only from states without tags (`TagsReset`).
  The first pass also counts a visited file down (`:704`) without looking at `nopen`.
- *Opening.* `H5Fint.c:1767` says that truncating fails if the file is open; the file is truncated (`:1979`) before the
  lock is tried, so that another process's file is emptied and then the lock is refused. A flush or unlock that fails in `H5F_open`
  after the flags went to the file leaves them there, since `H5F__dest` is told not to flush; such I/O errors are not modelled.
- *Identifiers.* A reference that is dropped after a clear has freed its identifier is not noticed. Say identifiers 1 and 2 are of one type, and the object of 2
  holds the only reference to 1. The clear of the type frees and marks 1, goes on to 2, and the free callback of 2 calls `H5Idec_ref` on 1: the count is 1
  (`:1063`), so the object of 1 is freed a second time (`:1076`), and `H5I__remove_common` meets a marked entry, against its assertion `!info->marked`
  (`:956`), or, without assertions, takes `id_count` down a second time (`:975`). The model has this behaviour, eight states from the start, and it is
  why `MembersAgree` speaks of states in which `late` is empty and `FreedOnce` of identifiers outside it. `H5Ipublic.h:434-436` says that a clear calls the
  free function "on all of these identifiers to free their memory, then they are removed"; `test/tid.c:1003` that "Every freed object should have been
  freed exactly once", and its callbacks release only objects that are not freed yet (`:866`).
  An identifier of another type that is released during a clear is marked, since the flag is global, and never swept; `H5I__find_id`
  does not look at `marked`, so that `H5Iis_valid` (`H5Ipublic.h`) goes on saying yes. A clear inside the callback of a clear resets the flag under the
  outer walk; the rule that callbacks clear no type stands for that.
- *Metadata cache.* `H5Cint.c:1734` flushes no entry with dirty children, but the assertion at `H5Centry.c:390` about images can fail: a protected child that was marked dirty has no
  image and is not counted dirty yet. During the flush of one object the skip list holds only that object's entries (`H5Ctag.c:645-650`), against the assertion
  at `H5Centry.c:701`; and when a callback then dirties a parent of another object whose dirty child is not in the skip list, the parent waits for
  a child the scan never meets, and the next ring begins with an entry of the outer one left, against `H5Cint.c:1553-1554` and the assertion
  at `:1609`. So `RingsInOrder` has the premise `ChildrenListed` (met by every flush of a file). `H5C.c:1056-1064` says that disabling the skip list empties it; the code refuses if it is not empty.
- *Concentrator.* `H5FDioc_threads.c:418-419` says that every status reaches the client; a write that fails after its ACK has no message for it. `H5FDioc_priv.h:248-252` bounds the entries
  in progress by the number of workers; the dispatcher has no such bound. When the main thread leaves on an MPI error
  (`H5FDioc_threads.c:314-339`) it does not reset the flag for which the shutdown spins (`:190-193`): the shutdown never ends. `FinalizeReturns` is
  checked without such errors and does not cover that hazard.

## Not modelled

Inside the modelled components: failures of mutexes and condition variables; the lock's statistics; sizes, tags, the
cache image, epoch markers and MPI in the cache; `H5C__flush_invalidate_cache` and `H5C__serialize_cache`;
several subfiles, the driver's EOF, message tags and failures of messages other than the main thread's in the concentrator; the read
side of `H5TSrwlock.h`, which the library does not use, and the recursive mutex of builds without concurrency; mounted files and failures to close in the
external file cache; processes without file locking, objects open at close and I/O errors while opening; future objects, identifiers
registered again under an old number, `H5I_subst`, iteration and the look-up cache.

Other components, with reasons in `PROJECT.json`: the page buffer, the accumulator, event sets and free-space managers are good candidates and not done; formats and encoding
(H5O, H5T, H5Z, H5S) and sequential data structures on top
of the cache (H5B, H5B2, H5HF, H5EA, H5FA, H5G, H5D) are most of the library's lines and hold little state that several actors share; drivers are system calls or
networks (H5FD*); the rest is dispatch and bookkeeping (H5VL, H5P, H5E, H5CX, H5R), other languages, tools and tests.

## Plan

Done: the locks, semaphore and pool; the cache (entries, flush); the concentrator; the API lock; the external file cache; the open protocol; identifiers. In this order next:

1. `CacheSpace` (sizes of the lists, `H5C__make_space_in_cache`, `H5C_resize_entry`) and the close path (`H5C__serialize_cache`,
   `H5C__flush_invalidate_cache`), composed with `CacheFlush`.
2. `PageBuffer` (`H5PB.c:503-1550`) and the accumulator, against a file that is an array of bytes: reads see the last write.
3. Event sets; mounts and objects open at close.
4. `ThreadPool` composed over `Semaphore` in place of its counting semaphore; `IOCQueue` over `ThreadPool`.
5. Proofs, with 4: that the pool's steps are steps of `SemaphoreSpec`, and what a pool promises as an abstract specification of its own.

Runs stay few: one per question.
