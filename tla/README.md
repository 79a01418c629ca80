# OP-TEE on the Raspberry Pi 5: a TLA+ verification project

The repository ports OP-TEE to the Raspberry Pi 5. Little of it is new code
(`plat-rpi5`, `tools/optee-sw-log.c`, scripts, the `qai_ta` example); most of it
is TF-A, OP-TEE OS and its client, kept in the tree. This project specifies the
parts whose correctness rests on concurrency or on surviving power loss: the
secure-world log, the sleeping mutex, the threads and their RPCs, the TA manager,
registered shared memory, the pool of tee-supplicant, and the secure storage from
the hash tree up to the objects a TA opens. TLC checks the modules on small
instances; TLAPS proves their safety for every value of the constants, under the
conditions section 5 states.

`PROJECT.json` lists the components, the runs, the lines each definition models,
the hazards, the mutants that show each property can fail, and the findings.

## 1. Inventory

The normal world (Linux, libteec, tee-supplicant) enters the secure world with an
SMC. TF-A's dispatcher (opteed) switches worlds. OP-TEE gives a standard call one
of `CFG_NUM_THREADS` threads, runs the TA manager on it, and leaves for the normal
world in an RPC whenever it needs a file, memory, or to sleep; any core may bring
the thread back. Every sleeping lock of OP-TEE sleeps in such an RPC.

| component | state | operations | hard behaviour | what makes it correct |
|---|---|---|---|---|
| log ring (`sw_log.c`, `trace_ext.c`, `optee-sw-log.c`) | ring, position, generation; two busy flags, two spinlocks; the reader's position | trace a line, store a byte, drain | cores and interrupts trace at once; a lock-free reader samples three unordered stores | no byte lost, lines not mixed, every line ends, the reader catches up |
| mutex, wait queue, condvars (`mutex.c`, `wait_queue.c`) | `m->state`, queue of elements on stacks, pending notifications | lock, try-lock, unlock, wait, signal | no handover: woken threads race with barging ones; early and late notifications | mutual exclusion, no lost wakeup |
| threads and RPC (`thread.c`, `thread_optee_smc.c`) | thread states, per-core current thread, saved arguments, RPC buffers and their caches | allocate, run, suspend, resume, free; allocate and free buffers; switch the cache | migration, doubled returns, foreign interrupts, out of memory at any RPC | one core per thread, every buffer freed once and as allocated, every call ends |
| TA manager (`tee_ta_manager.c`, `user_ta.c`) | sessions and contexts with reference counts, session lock, busy flag, single-instance lock | open, invoke, cancel, close, load, panic, release | nested calls, TAs that panic while others wait for them, close racing with use | no use after free, exact counts, one instance, no deadlock, no core panic |
| dynamic shared memory (`mobj_dyn_shm.c`) | registered buffers, guard, reference counts | register, get by cookie, put, unregister | unregister waits for users | mapped while used, gone afterwards |
| page-table cache (`pgt_cache.c`) | free and used tables | get, put, wait | threads wait for each other's tables | no deadlock |
| hash tree (`fs_htree.c`, block level of `tee_ree_fs.c`) | two images of the head, of each node and block; the tree in memory | create, open, read, write, extend, truncate, synchronise | power loss between any two writes; writes that stop half way | the file opens again with the old or the new content, whole |
| objects (`tee_ree_fs.c`, `fs_dirfile.c`, `tee_pobj.c`, `tee_svc_storage.c`) | directory entries on disk and in memory, a counted directory handle, the table of open objects | open, create, overwrite, read, write, rename, delete, list, close | an object's file and its entry are committed one after the other; a failing call closes a handle others share, or has an intact object removed as corrupt | a map from names to contents, changed in one step |
| tee-supplicant (`tee_supplicant.c`) | pool of receive loops, count of waiting ones | receive, spawn, serve, answer, give up | a request may be served until another one is | a request always finds a loop |
| opteed, PSCI | per-core world contexts | world switch, CPU on, off, suspend | power management against calls | the right context restored |
| scripts | boot partition | build, deploy, install, recover | power loss half way | the board still boots |
| `qai_ta` | none between commands | fixed-point inference | overflow at the edges | same result as the reference |

They interact as follows. The log's `puts_lock` is below every other lock. The
TA manager's `tee_ta_mutex` is an RwMutex with the condvars `tee_ta_cv`,
`tee_ta_init_cv`, `busy_cv`, `lock_cv` and `refc_cv`. A thread that waits for a
mutex sleeps in an RPC of TeeThread, and is SUSPENDED there. The RPCs are served by
Linux and tee-supplicant. A parameter of a call that is shared memory is a buffer of
DynShm. The files of the storage are written by RPCs: an object is a hash tree, the
directory that names the objects is another, and ReeFs takes from HashTree that a
file changes atomically.

## 2. Plan

Done, in this order: SwLog; RwMutex with its abstract RwLock and its proofs;
TeeThread; TaManager; HashTree against AtomicFile; ReeFs against ObjectStore;
DynShm; Supplicant; and the proofs of all of them (section 5).

Next:
1. `PgtCache`: threads wait for page tables that others hold. `OpteedPm`: the
   dispatcher's world switch and its CPU hooks. `Refcount` and `Handle`.
2. `CancelTime`: `set_invoke_timeout` as 32-bit arithmetic against a reference.
3. `TaDb`: a TA package replaced in two files, over ReeFs. `Install`: the scripts
   with power loss; the memory windows of the port.

## 3. The modules

### SwLog

One step is one critical section or one unlocked load or store. A context is a
core in thread or interrupt mode; an interrupt stops the thread of its core.
`TraceBegin`, `TraceAcquire`, `TraceDefer` and `TraceRelease` are `trace_ext_puts`
with its lock (interrupts masked) or its two busy flags (not masked), the build being
chosen in the initial state; `PutcLock` picks the slot (with `Wrap`),
`PutcStore` makes the three stores of `sw_log_putc` visible, `PutcUnlock` returns.
The stores are plain and the reader takes no barrier, so with
`StoresInOrder = FALSE` they become visible in any order. `MapPos`, `MapGen`,
`DrainPos`, `DrainGen` and `DrainEmit` are the reader, one load each. Bytes are
numbered; their values do not matter. The first bounds check of `sw_log_putc` can
only fire for a ring retained with another size, which the fixed region excludes;
a retained `write_pos` (warm reboot) is an initial state. The reader maps the
region with its own cache attributes; coherence is assumed.

### RwMutex, RwLock, RwMutexProofs

One step is one section under the mutex's spinlock. The wait queue's own spinlock
is only taken inside such a section or alone (`WakeMark`), so it adds no step. A
thread that cannot lock queues its element (`LockQueue`), sleeps, is marked
(`WakeMark`) and notified (`WakeSend`) by a waker's loop, removes its element
(`Dequeue`) and tries again; others may barge in. A wait may also return with no
notification (`WaitMayReturn`: the threads to which that happens; timeout, stale bit) and a send may fail
(`SendMayFail`). `CondWait` queues, lets go and wakes the next; `CondSignal`
promotes one element or all. RwLock is the abstract lock: enter alone as a writer
or with others as a reader, leave. `RefinesRwLock` maps its two sets to the holders.
Left out: lockdep, the recursive mutex and the power-management variant.

### TeeThread

One step is a section under `thread_lock_global`, the code behind it up to the
thread, or a thread's program up to its next exit to the normal world. `AllocThread`
and `AllocRun`, `ResumeFromRpc` and `ResumeRun`, `Suspend` and `ThreadStateFree` are
thread.c; the rest is the program of a call: entry with or without a supplied RPC
struct, commands, payload buffers (`ShmCacheAlloc`), the argument buffer
(`AllocArg`), the prealloc cache (`ClearPrealloc`, `DisableCache`, `EnableCache`)
and the clean-up at the end. The normal world holds a table of buffers, may refuse
any allocation, may be entered on any core, and may return from the same RPC
twice. Left out: stacks, VFP, pointer authentication, exception masks.

### TaManager

One step is a section under `tee_ta_mutex` up to a `condvar_wait`; the mutex and
its condvars are the ones RwMutex specifies, here a queue of sleepers that a
signal removes. Each thread has a stack of frames, one per call of the manager,
because a TA calls other TAs and a release closes what the TA had opened. A frame's `pc`
names the step: `get`/`lock` (tee_ta_get_session), `init`/`find`/`load`
(tee_ta_init_session), `busy` (tee_ta_try_set_busy), `ta`, `release`/`release_state`
(maybe_release_ta_ctx), `clear` (tee_ta_clear_busy), `put`, and `close`, `unlink`,
`unlinking`, `drop`, `destroy` (close_session). An open that fails goes on as the
close it calls. `TaReturn` writes `ctx->panicked`, as `thread_unwind_user_mode`
does. Built as by default: `CFG_CONCURRENT_SINGLE_INSTANCE_TA` and
`CFG_SECURE_DATA_PATH` off, user TAs never `TA_FLAG_CONCURRENT`.

The normal world passes ids it was told of, and gives an id up before its close,
which it makes when the other calls on the session have looked it up. The core
itself does not enforce this: an id is handed out again as soon as the list is
empty, and an open that fails to load frees its session without waiting. Left out:
pseudo TAs and StMM, identities (each list has one kind of client), the cancel flag
and its time-out, statistics and profiling.

### HashTree, AtomicFile, HashTreeProofs

One step is one request to tee-supplicant, which opened the file `O_SYNC`: between
two of them power may be lost. The file has two images of the head, of every node
and of every block; `Image` keeps what a node verifies by: a hash is the
nested sequence of what was hashed, a tag is the number of the encryption, so
hashing and authenticated encryption are perfect. `OutOfPlaceWrite` writes the
blocks of a range into the images not in use (`TreeWritten`) and
`OutOfPlaceWriteStops` gives up after some of them; `Extend` and `Truncate` change
the length. `TruncateFails` is a truncation whose request to cut the file fails after
the tree in memory was cut; with `CutMayFail = FALSE` only where no node was to go. `SyncToStorage`, one `SyncNode` per node in post-order and
`SyncHead` are `tee_fs_htree_sync_to_storage`; `WriteDummyHead` is the second head
of a new file. `Anchor` is the commit of the directory entry that holds an object's
root hash. The directory file itself (`mode = "counter"`) is found by the higher
counter of its heads. `Lose` is power loss, a failed request and a close. AtomicFile is a
saved and a working content; `RefinesAtomicFile` maps saved to what an open would
find now and work to what the open tree reads back.

### ReeFs, ObjectStore

A file is the set of roots that are whole in it: HashTree shows that a commit is
atomic and that a write spares the tree it started from, and nothing else. One step
is a section of a system call up to the release of `ree_fs_mutex`, to a commit, or
to a change of the table of open objects. Each client is a session of one TA, with
one handle: `Open`/`FsOpen`, `Create`/`CreateTmp`/`SetName`/`RemoveOld`/`CreateFinal`,
`WriteBlocks`/`WriteSync`, `Rename`/`FsRename`/`PobjRename`, `FsRemove`/`RemoveFile`,
`FsClose`/`Release`, `StartEnum`/`ReadDir`/`EnumGet`/`FreeEnum`. `Commit` is
`commit_dirh_writes`, `PowerLoss` may strike anywhere. The directory handle in memory
is shared, counted, and closed under the others by a call that fails; that is how its
changes are dropped. ObjectStore is a map from names to contents in which an object is
put, deleted or moved in one step; `RefinesStore` maps it to what the committed
directory names.

Every request and allocation may fail (`Fails`, `CreateFails`, `FsRenameFails`,
`FsRemoveFails`, `GivesUp`, `ReadFails`, and the failing disjuncts of `FsOpen`,
`PobjRename`, `StartEnum` and `ReadDir`); one that reports failure is taken not to have
happened. Three consequences carry state:

- A request that fails in `tee_fs_htree_*` closes the handle's tree (`closed`). The
  next call through the handle (`FindsClosed`) returns CORRUPT_OBJECT.
- A call that returns CORRUPT_OBJECT, which an open does after any failed
  request of the normal world, removes the object of that name, intact or not, and closes
  its handle (place `corrupt`, then `FsRemove`). Another session that shares the object
  for reading keeps a handle on nothing; HandleMatchesStore says that this is all that
  can happen to it. (A TA with `TA_FLAG_DONT_CLOSE_HANDLE_ON_CORRUPT_OBJECT` keeps the
  handle too; that flag is not modelled.)
- `tee_pobj_rename` fails after the directory has committed the move, because memory
  is short or an enumeration holds a reference. The handle keeps the old name (`failed`), and the
  new one is free for another session. An enumeration may also take its reference on the
  object that only reserves the new name: such references are counted in `reserved`, and
  the client that has one is marked `spare`.

Two assumptions on the environment are constants, `Retry` and `FindMayFail` (section 7).
A directory handle that a failed `StartEnum` leaves with its tree closed is not tracked:
whoever meets it fails, which every operation may do anyway. Left out: seeking,
attributes and object info (data of one handle).

### DynShm

One step is a section under a spinlock or one access to an atomic counter. `Alloc`
registers, with a guard if the buffer is passed with one call only; `GetByCookie`
looks up, `IncMap`/`InitMap`/`DecMap`/`Unmap` map and unmap, `Put` and `Free` drop a
reference and, as the last one, either free the buffer or tell the thread that
unregisters it (`Notify`). `Release`, `Drop`, `Enter` and `Check` are
`mobj_reg_shm_release_by_cookie`. `LateLookup` lets the normal world pass a buffer
that it is already unregistering. Protected memory is not built for the platform.

### Supplicant

One step is a section under the process's mutex or a call of the driver. `Receive`
takes the first request, `CountDown` leaves the waiting count and, as the last one,
goes to `Spawn` and `Create` before it serves; `Start` is the new thread's first
step, `Answer` and `Fails` end a request, `Abort` ends the loops. What a request does
is not modelled: it may take for ever.

## 4. The runs

| run | instance | shows |
|---|---|---|
| `swlog_ring` | both builds of `CFG_CONSOLE_MASK_INTERRUPTS`; two cores, one with an interrupt context; ring of 3, two lines of 2 bytes from a retained position, so the ring wraps twice and laps the reader | TailIntact: bytes complete and in order whenever no store is under way; LinesNotMixed; MaskedLineEnds; ReaderComesToRest, with stores in any order |
| `swlog_follow` (violation) | one writer, stores in order | a sample between the stores of `generation` and `write_pos` at a wrap makes the reader emit the old ring again |
| `mutex` | three threads, read and write locks, a condvar, waits of one thread returning at any time | holders counted, queue equal to the stacks, no lost wakeup, marked means notified; refinement of RwLock; a free mutex is taken; unless readers keep it between them, every waiter is woken |
| `thread_safety` | two cores, two threads, prealloc cache | one core per thread, user mapping follows, commands have a buffer, none leaked |
| `thread_payload` | two cores, one thread, two buffer types, three cookies | every buffer freed as the type it was allocated as, whatever is refused; every call gives its thread back |
| `ta_safety` | three threads, a keep-alive single-instance TA that may panic or fail to load and calls a multi-instance TA, two ids per list, two contexts | no use after free, exact reference counts, one instance, exclusion, what a TA opened is closed when it goes, no lost wakeup or wait cycle, no core panic, keep-alive kept |
| `htree` | files of up to three blocks, an object's and the directory's; three changes | the committed content opens again, whole, after a power loss anywhere; no image it is made of is touched; refinement of AtomicFile |
| `htree_truncate` (violation) | four blocks, so that a parent is not the root | a truncation leaves the parent of the removed node with its old hash: the file does not open again |
| `reefs` | two sessions, one of which also lists and opens objects for shared reading only, two names, two file numbers | entries name whole files, handles stay on their objects, the shared directory handle is counted exactly; refinement of ObjectStore |
| `reefs_overwrite` (violation) | two sessions that share writing | after an overwrite, a write through the older handle fails the assertion of `tee_fs_dirfile_update_hash` |
| `dynshm` | three threads, two cookies, three registrations | mapped while used, freed once and after the last user, no core panic, every unregistering call ends |
| `supplicant` | four threads, two requests served for any time | the count of waiting loops is exact, every request is received |

TypeOK is part of the `mutex` run; in the other modules it is part of the inductive
invariant of the proofs, or stated for the reader.

Bounds. Two contexts suffice for an old and a new instance, or a caller and a
callee, at once; two ids for two sessions of one TA and for reuse. Three threads
give a holder, a waiter and a third party (a canceller, a barging locker, a second
waiter). Two cores give migration. `MaxRpc = 3` reaches the replacement of a
replaced payload buffer. Three blocks give a root with two children, the smallest tree in
which the flags of a parent choose among children; a block is two units, so that a
cut can fall inside one. Every truncation of the `htree` run takes away at least one unit
(`MinCut`) and at most one block (`MaxShrink`), and one that takes nodes away does not fail
half way (`CutMayFail`): outside these limits the code does not
keep its promise (section 7). Two file numbers hold two objects, or one and the
temporary file that replaces it, and numbers and entries are used again, the place where a stale
handle would do harm; a creation with both in use does not come to its file. The
`reefs_overwrite` run has three. `MaxRoot` roots of one file are never needed at once. Four threads of the
supplicant are one more than two requests can keep busy with a loop left in front of
the driver; the code may start more when a new thread is slow to come to its loop, and
a thread that would start a fifth one stays there or fails. Symmetry is used over threads, cookies and names, in runs
without liveness only. A single-instance TA without MULTI_SESSION is not part of an
instance: it only adds an early error to an open.

Fairness. SwLog: cores run and Linux schedules the reader. RwMutex: Linux resumes
woken threads and every holder unlocks; nothing is assumed of who gets the lock.
TeeThread: strong fairness for a thread's own steps and its resumption, because an
interrupt can keep disabling them and Linux always re-enters a suspended thread;
weak fairness for serving an RPC. DynShm: a thread inside a call goes on, because it
holds only spinlocks and `shm_mu` for a moment; the bound on registrations makes the
traffic on `shm_mu` finite, so weak fairness is enough. Supplicant: the process's
threads run; none is assumed for serving, failing or answering, and the driver hands
requests out in order. The process may end, so deadlock is not checked there. TaManager has no liveness run: its session lock,
busy flag and single-instance lock are not handed over, so a caller can be
overtaken without end; WaitsEnd says instead that among any set of sleepers one
waits for a thread outside it, which excludes lost wakeups and cycles.

## 5. The proofs

Each module of proofs states one inductive invariant, proves that it holds
initially and that every action keeps it (one lemma per action, or per conjunct),
and derives the listed theorems from it. They hold for every value of the
constants that satisfies the named assumption of the module: finite sets where
something is counted, null values outside the sets they stand beside, bounds that
are positive numbers. The modules that count start with the same few lemmas on
cardinalities: what a set loses or gains when one member changes.

`RwMutexProofs` (any finite set of threads, any condvars, whichever waits return
early or sends fail):

- `Invariance`: the inductive invariant IInv. StateCountsHolders needs
  TypeOK; NoLostWakeup is not inductive alone: a waker must be known to start its scan with no
  wake type (FreshScan), the queue must hold exactly the elements on stacks
  (QueueMatchesStacks), and a marked element must not belong to an unsignalled
  condvar (DoneWasSignalled);
- `TypeCorrect`, `CountCorrect`, `QueueCorrect`, `WakeupNotLost` follow from it;
- `NotificationSent`: if sends do not fail, marked means notified;
- `Refinement`: the mutex implements RwLock, each step mapping to one step of
  RwLock or to a stutter.

`SwLogProofs` (any contexts, any size of ring and line, both builds, stores visible
in any order): `LinesKeptApart` and `NoByteLost`. TailIntact speaks of the moments
when no byte is being stored. The invariant adds how far a byte in the making is
(`Storing`: each of the three stores is done or pending, and only the slot being
written is in doubt), who is inside the two critical sections (`LockOwners`), and that
`generation * DataSize + write_pos` is the byte count up to the retained position.
The rest is arithmetic of a ring that wraps.

`TeeThreadProofs` (any cores, threads, cookies, commands): `OneCore`,
`UserMapCorrect`, `CommandsCarried`, `NoLeak`, and `FreesMatch` for a normal world
that aligns what it allocates (`~MayMisalign`; section 7 has the other case).
`OwnerInv` says that every active thread is run or claimed by exactly one core,
`BufferInv` that every allocated buffer belongs to exactly one thread in one of two
roles, which `ArgOf` and `PayOf` read off the thread's place in its program and
its outstanding request. A buffer changes hands inside a request, so ownership has
to be stated for requests as well as for threads.

`DynShmProofs` (any threads, buffers, registrations): `MappedCorrect`,
`NotFreedInUse`, `NeverPanics` for a normal world that passes no buffer it is giving
back (`~LateLookup`), and `ReleaseNotMissed`: a thread that sleeps on a buffer it
could free has its waker on the way, the safety half of ReleaseEnds. The invariant
counts references (`RefsExact`: those of threads and the one of the registration),
bounds the mappings, and says that at most one thread finishes and at most one
unregisters a buffer (`FinishedOnce`, `ReleasedOnce`).

`SupplicantProofs` (any threads and requests): `WaitersCorrect`; the count is
inductive with the types.

`HashTreeProofs` (any number of nodes, blocks, changes and syncs, any cuts, power
loss between any two requests): `ReopensAfterPowerLoss`, `UpdatesOutOfPlace` and
`FileIsAtomic`, from the inductive invariant of `Inductive`, under
`GentleTruncation`: a truncation makes the file shorter, by at most one block, the
parent of a node it takes away is dirty, so that its hash is computed anew, and one whose
request fails took no node away. Each of the four conditions excludes one failure of
section 7 (the third is the `htree_truncate` run). Three corollaries are free of it:

- `DirectoryFile`: the directory file, which is never truncated, without any
  condition;
- `UntruncatedFile`: an object of any size, as long as no call tries to make it shorter;
- `SmallFile`: files of at most three blocks under the `MinCut`, `MaxShrink` and
  `CutMayFail` of the `htree` run, so the run's instance is one of the theorem.

The properties speak of what an open would find; the invariant says what it would find it
in. `DiskInv`: one version of head and root is the one an open takes
(`Commit`), and following the flags of the parents from it gives nodes whose hashes are
right and blocks that decrypt (`Tree`). `MemInv`: between syncs the tree in memory is
that tree but for what is flagged (`Near`: a written block is in the image its base does not
use, and its node is dirty, and so is the root of a longer file); during a sync the visited nodes are in the file
under their new hashes, in the version that their parents will name (`Synced`), and
a node not visited yet either is dirty or still has a right image, all the way down
(`Unsynced`). Three things make it inductive:

- the nodes that wait are in post-order (`Order`), so that a node is hashed after its
  children and its parent's flag is turned before the parent is written. `Ordered`
  proves this of the recursion in PostOrder, and `LoadedIs` that the recursion of an
  open follows the flags; both are inductions over the nodes, taken as
  the absence of a least counterexample, because the library's induction
  theorems cannot be instantiated here;
- a node that is not dirty need not be visited (`SkipNode`): nothing under it changed;
- a root is only written with a new hash (`RootChanges`, `RootsDiffer`), because an
  object's file is opened by its hash alone. A sync that writes the same hash is what the
  truncation to the same length does.

`FileIsAtomic` maps every step to one of AtomicFile or to a stutter (`CreateFile` to
`LoseFile`): a write changes exactly the units it was given (`WriteData`), and
the head of the directory file, or the directory entry of an object, commits
(`CommitFile`). `ConstantsOK` says that the two null values are not contents.

`ReeFsProofs` (any clients, names, file numbers, roots, and any choice of flags):

- `DirhRefsCorrect` holds without any assumption on the clients: shared writing,
  retries and failing look-ups included. It needs where a client is to tell what it
  holds (`ShapeInv`).
- `StoreKeptIntact`, `HandlesCorrect`, `StoreRefined` and `UpdateAsserted` are proved under
  `ExclusiveUse`: whoever creates an object, or opens one for writing, does not
  share it for writing, and the two constants of section 7 are off: nobody writes
  through a handle on which a call failed, and a look-up that fails is one of a missing
  name. Renames that fail half way and objects removed as corrupt are part of it. The
  `reefs` run is an instance of it; `reefs_overwrite` shows that the first
  half cannot be dropped, section 7 the rest. The invariant `StoreInv` says how the directory in memory differs from the
  committed one at every point of every operation (`NamingOK`, `UpdatingOK`,
  `MovingOK`, `RemovingOK`: by one entry, of a name the client has to itself),
  that the table of open objects counts its users and keeps exclusive objects
  exclusive (`PobjInv`, which counts the references that reserve a name apart), that a handle
  which can still write is on its entry and that a shared reader is on its own or
  on none (`Gone`), and that what an operation will delete is no longer named
  (`CommittedOK`). `CommitChange` brings the four kinds of commit to one form, `Change`: one
  entry of the client's own object, and everything about the other clients follows
  from that. `StoreRefined` maps a commit to one Put, Delete or Move of
  ObjectStore, or to a stutter, and every other step, power loss included, to a stutter.

`TaManagerProofs` (any threads, TAs with any flags, any `Calls` between them,
cycles included, any ids, contexts and depth of nested calls): `SessionRefs`,
`CtxRefs`, `NothingUsedFreed`, `SingleInstance`, `Excluded`, `NothingOwned`, `TypesHold`,
`NobodyWaitsForever`, the action property `StaysAlive`, and `CoreDoesNotPanic` if no
single-instance TA reaches itself through `Calls` (`NoReentry`, which MCTaManager
assumes so that TLC evaluates it; section 7 shows that it is needed). None of the invariants
is inductive alone; IInv joins

- `StackInv`: what a frame has at each step (`Shape`), and that the frame below
  it is at a step that calls, in the context on whose list the frame's session is
  (`Chain`). So who runs inside a list of sessions is who runs in its context.
- `SessInv`: the calls on a session are counted; one of them has it locked; an open
  or a close has no rival, and nobody looks the session up once a close has; the ids
  the normal world knows are of sessions that nobody opens or closes.
- `CtxInv`: a context is registered exactly while it is loaded and not released;
  its sessions, and the closes that still owe it a count, are its references;
  whoever destroys it, or loads it, is alone in it.
- `BusyInv`, `OneListed`, `SingleInv`: the busy flag has one holder, a
  single-instance TA one registered context, the single-instance lock one thread.

The argument turns on four lemmas: a context with a frame in it has a reference, or
is being destroyed by that frame (`InUse`), so a destroyer or a loader meets nobody
(`DestroyAlone`, `LoadAlone`), and at most one frame at a time
calls from inside a context (`OneCaller`). A call that gives up `tee_ta_mutex` may then
find anything changed but what it counts.

`NobodyWaitsForever` adds `WInv`, about the queue of sleepers. A thread sleeps on one
condition variable only, at the step that waits for it, and never on a busy flag
(`QueueInv`; an instance has one session or is entered under the single-instance lock:
`MultiInv`, `Exclusive`). Whoever sleeps for the single-instance lock, a session's lock, the
last user of a session or a load has it held by another, or left free with somebody
awake to take it (`SiWake`, `LockWake`, `RefcWake`, `InitWake`). To keep these over a
step one must know what a broadcast leaves in the queue: `RecursionSolved` solves the
recursion of `Broadcast`, `BroadcastEffect` says that exactly the sleepers of the variable go. That the
waits end is then a ranking: a session's lock waits for the single-instance
lock, which waits for loads and last users, which wait for somebody awake
(`Rank`, `Nearer`). Of any set of sleepers one of least rank has someone
outside the set in its way.

`CoreDoesNotPanic` adds `CallsInv`: along a stack each context may call the one
above it. So two frames of one thread in one single-instance context would have its TA
reach itself (`Reached`, `EnteredOnce`), and a thread never meets a busy flag of its own.

Only model-checked: the reader of SwLog; all liveness, which is out of the prover's reach.
HashTree is proved for the truncations described above only; for the others the properties
do not hold.

## 6. Not modelled

See `components` in `PROJECT.json` for each part and the reason: vendored code off the
port's path (u-boot, optee_test, most TF-A drivers), sequential boot and layout
code, cryptography, wrappers of ioctls, and the parts of the plan above that come
later. The Linux driver is not in the repository; what it does is taken from how
OP-TEE uses it and marked external.

Off for this platform and therefore left out: asynchronous notifications
(`CFG_CORE_ASYNC_NOTIF`), RPMB (`CFG_RPMB_FS`), the pager, protected shared memory.

## 7. Limits of the code that the models show

Three are runs that end in a violation, listed under `findings`. The others are
reached by giving a constant another value; in the runs the constant keeps the
environment inside the limit, so that the properties speak about the rest.

| limit | how to see it |
|---|---|
| The send RPC's result is dropped: if it fails, the marked waiter sleeps on a free mutex (`wait_queue.c:148`) | `mutex` with `SendMayFail = TRUE` violates FreeLockTaken |
| A payload buffer refused for its alignment is freed as the type the cache entry had before (`kernel/thread.c:846`) | `thread_payload` with `MayMisalign = TRUE` violates FreedAsAllocated |
| With `CFG_CONSOLE_MASK_INTERRUPTS=n`, an interrupt that traces while its core holds `sw_log_lock` spins forever (`sw_log.c:64`) | the conclusion of MaskedLineEnds without its hypothesis, one core with a thread and an interrupt |
| A single-instance TA that opens itself: the open is refused ("Deadlock avoided"), and closing the refused session panics the core (`tee_ta_manager.c:169`) | `ta_safety` with `Calls` containing `<<A, A>>` violates NoPanic |
| A close that waited for the busy flag enters a TA that crashed meanwhile, and its exit clears `ctx->panicked` (`tee_ta_manager.c:471`) | a kept crashed TA, and the action property that it stays panicked |
| A truncation by two blocks or more cuts the file before the new tree is committed; power loss then leaves the committed tree without its blocks (`tee_ree_fs.c:306`) | `htree` with `MaxShrink = 2` violates ReopenVerifies |
| A truncation to the same length rewrites the root with an unchanged hash, next to a head of an older root (`tee_ree_fs.c:312`) | `htree` with `MinCut = 0` violates ReopenVerifies |
| A truncation whose request to cut the file fails has already taken nodes from the tree in memory, which keeps its old length: what is read back, or saved by the next call, is neither the old nor the new content (`tee_ree_fs.c:305`) | `htree` with `CutMayFail = TRUE` violates RefinesAtomicFile |
| A handle is used again after a write through it failed: it works on a root that was never committed, and the write overwrites the committed one (`tee_ree_fs.c:948`) | `reefs` with `Retry = TRUE` violates StoreIntact |
| A rename commits its move and then fails, out of memory or because an enumeration holds a reference (`tee_pobj.c:190-197`): the handle keeps the old name, another session opens the new one exclusively, and both write to one file | `reefs` with `Retry = TRUE`, which lets the first handle go on writing; with `FALSE` the handle may only read, close or be deleted by its old name |
| One failed request of the normal world makes a call take an intact object for corrupt and remove it, also under a session that reads it (`tee_ree_fs.c:776`, `tee_ree_fs.c:335`, `tee_svc_storage.c:240`) | part of the `reefs` run: HandleMatchesStore without its second alternative is violated |
| A look-up that fails otherwise than with "not found" lets a rename go on: two entries of one name (`tee_ree_fs.c:967`) | `reefs` with `FindMayFail = TRUE` violates StoreIntact |
| `mobj_get` panics on a buffer whose count has reached zero (`mobj.h:147`) | `dynshm` with `LateLookup = TRUE` violates NoPanic |

Read in the code, not modelled: any failure to open the directory file, out of
memory included, removes it (`tee_ree_fs.c:481`); `TEE_RestrictObjectUsage1`
(`tee_svc_cryp.c:1221`) writes an object's header through any handle, a shared reader's
too; a transient object's handle that
becomes the handle of a new object leaves the object marked as being created
(`CreateFinal` allows it); an enumeration started on an empty storage has no
directory, which the next call reads; a request that is being served when tee-supplicant
gives up is never answered; `set_invoke_timeout` loses the seconds on a
millisecond carry (`tee_ta_manager.c:439`).
