# Verification of DataLiteC

DataLiteC is a Swift package around SQLCipher 4.9.0 (the SQLite 3.49.2
amalgamation, `src/Sources/DataLiteC/sqlcipher/sqlite3.c`) with LibTomCrypt as
its cryptographic provider.  This directory holds TLA+ models of its
concurrency and recovery protocols, TLC configurations that check them on small
instances, and theorems checked by TLAPS.

Line numbers below are lines of `sqlite3.c`.  `Package.swift` sets
`SQLITE_THREADSAFE=1`, `SQLITE_HOMEGROWN_RECURSIVE_MUTEX`,
`SQLITE_OMIT_SHARED_CACHE`, `SQLITE_HAS_CODEC`, `SQLITE_SECURE_DELETE`,
`SQLITE_TEMP_STORE=2` and `SQLCIPHER_CRYPTO_LIBTOMCRYPT`; snapshots, blocking
locks (`SQLITE_ENABLE_SETLK_TIMEOUT`) and unlock-notify are not compiled.  The
models assume these settings.

## 1. The system

| Part | State | Operations | What makes it hard | What makes it correct |
|---|---|---|---|---|
| Unix VFS locking (39690-40945) | `unixInodeInfo` (one per process and file), `unixFile`, the kernel's byte-range locks | `unixLock`, `posixUnlock`, `unixCheckReservedLock`, `unixOpen`, `unixClose` | POSIX locks belong to the process and vanish with any `close()`; each `fcntl()` interleaves with other processes; releases can fail half way | the compatibility table of os.h, backed by kernel locks; no starved writer; no lost descriptor |
| WAL (65760-69860) | wal-index header in two copies, `nBackfill`, read-marks, five locks; the log; per connection a header copy, a read lock, `minFrame` | begin/end read, begin write, append, commit, undo, restart, checkpoint, recover | readers, a writer and a checkpointer run without excluding each other; any process may die at any step | snapshot isolation; one history; commits survive; the cache is never stale |
| Rollback pager (57200-65700) | `Pager.eState`, `eLock`, journal file, database file, page cache, savepoints | shared lock with hot-journal recovery, begin, write, spill, two-phase commit, rollback, savepoint | power loss reorders unsynced writes; a hot journal is recognised without a lock | atomic commit; a hot journal restores the last committed image |
| wal-index hash tables (66600-66830) | `aHash`, `aPgno` per block | append, look up, clean up | probing, wrap-around, stale entries of an earlier log | a look-up answers the last frame of the page |
| wal-index shared memory (43240-43900) | `unixShmNode`, the DMS lock | map, lock, barrier, unmap | who is first may truncate the file | nobody truncates under a user |
| Recursive mutex (29972-30175) | `nRef`, `owner` | enter, try, leave | the owner test reads without holding the mutex | exclusion and reentrancy; a thread never waits for itself |
| Library start and shutdown (187580-187820, 107920-108173) | `isInit`, `inProgress`, `pInitMutex` and its count; `sqlcipher_init`, `sqlcipher_init_error` | `sqlite3_initialize`, `sqlite3_shutdown`, `sqlcipher_extra_init`, `sqlcipher_extra_shutdown` | threads start the library at once, the start calls itself, its mutex is freed by the last user, SQLCipher comes up after it | one initialiser; no freed mutex in use; who is told OK finds a library that is ready |
| Page cache (55000-56900) | dirty list, LRU, shared page group | fetch, unpin, make clean or dirty, spill, truncate | groups recycle pages of one another | a pinned or dirty page is never recycled |
| Bitvec, RowSet | hash table or tree of bitvecs | set, test, clear | the representation changes when full | equals a set |
| Backup (78800-79500) | source and destination pagers, `iNext` | step, finish, source write callback | the source changes under the backup | the copy is one image of the source |
| Multi-file commit (88400-88700) | super-journal, a journal per file | two phases | a crash between the deletions of the journals | all files commit or none |
| SQLCipher codec and rekey (105000-111380) | codec contexts, provider, keys | attach, key, rekey, page codec | a context that fails half way; a rekey is a rewrite of each page in one transaction | a page is read with the key it was written with |
| LibTomCrypt provider (111380-111490) | `ltc_init`, `ltc_ref_count`, the PRNG | activate, deactivate, add entropy, random | two mutexes, nested calls, the last user wipes the generator, the next one restarts it | no call blocks for ever; random bytes come from a seeded generator only; the state of the generator does not outlive its last user |
| LibTomCrypt (527 files) | cipher, hash, PRNG, AEAD states | init, process, done | call order, pool schedule | call-order state machines |
| SQL front end, VDBE, FTS, R-Tree, JSON | - | - | language semantics | - |

Interaction: the pager calls the VFS for locks and the WAL for transactions; the
WAL uses the shared-memory locks of the VFS; all connections of a process share
`unixInodeInfo` and `unixShmNode`, all processes share the kernel's locks, the
files and the wal-index.  A commit of several files drives the pagers of its files
through both phases and leaves a super-journal to their recovery.  A key attaches a
codec to the pager, and the codec draws the initialisation vector of each page from the
provider's generator, which all connections of the process share; the start of
the library brings both up.  `PROJECT.json` lists every component, with its status,
and under `hazards` the places where a test would hardly reach what can go wrong.

## 2. Modules

| Module | What it is |
|---|---|
| `FileLock` | the locking promise of os.h (16016-16040), one level per connection |
| `UnixLock` | `unixLock`, `posixUnlock`, `unixOpen`/`unixClose` one `fcntl()` at a time |
| `MCUnixLock` | processes and connections for TLC |
| `UnixLockProofs` | theorems about `UnixLock` inside one process, faults included, then between processes, and the refinement of `FileLock` |
| `SnapshotStore` | what both journal modes promise: snapshots, one writer, one history |
| `Wal` | readers, writer, checkpoints, restart and recovery of the log |
| `MCWal` | pages, connections, deaths for TLC |
| `WalControlProofs` | theorems about the locks of `Wal` at each step, and its page caches |
| `WalProofs` | the inductive invariant of `Wal`: what log, headers and database file say; the properties that follow, and the refinement of `SnapshotStore` |
| `RollbackPager` | the pager with a rollback journal, process deaths and power losses |
| `MCRollbackPager` | journal modes and synchronous levels for TLC |
| `RollbackPagerProofs` | the inductive invariant of `RollbackPager` over the steps and deaths of processes |
| `RollbackDiskProofs` | what a power loss may leave, the properties that follow, and the refinement of `SnapshotStore` |
| `MultiCommit` | commits of several files, their super-journal and their recovery |
| `MCMultiCommit` | journal modes and the symmetry of the files for TLC |
| `MultiCommitProofs` | theorems about `MultiCommit` |
| `MutexContract` | the promise of `sqlite3_mutex_enter` |
| `RecursiveMutex` | `mutex_unix.c` one access to `nRef` and `owner` at a time |
| `MCRecursiveMutex` | threads for TLC |
| `RecursiveMutexProofs` | theorems about `RecursiveMutex` |
| `LibInit` | start and shutdown of the library, codecs, provider and generator |
| `MCLibInit` | threads for TLC |
| `LibInitProofs` | theorems about `LibInit` |

How they compose: `UnixLock` implements `FileLock`, and `RollbackPager` and `MultiCommit`
take their locks from what `FileLock` promises.  `Wal` and `RollbackPager` implement
`SnapshotStore`.  `MultiCommit` takes one file's pager as one image and one
journal, whose steps inside are those of `RollbackPager`.  `RecursiveMutex` implements
`MutexContract`, on which the mutexes of `LibInit` rest.

### 2.1 UnixLock

The kernel is three functions from process to mode, one per byte range (pending,
reserved, shared); a write-lock conflicts with any lock of another process, a
process replaces its own lock, and closing any descriptor or dying drops all
of them.  `inodeLock`, `nShared`, `nLock`, `nUnused`, `nRef` are the fields of
`unixInodeInfo`; `fdLock` and `hasFd` those of `unixFile`; `lockMutex` and
`bigMutex` the owners of `pLockMutex` and `unixBigLock`; `pc` and `want` where a
call stands.  One action is one `fcntl()` (or `open`, `close`) with the code
around it, because that is what another process can see.  Calls that change
nothing (a level already held, a refusal by the inode tests) are not steps.

| Action | Code |
|---|---|
| `LockSharedInProcess`, `LockBegin` | the tests at the head of `unixLock`, 40498-40558 |
| `LockPendingRead`, `LockPendingWrite` | pending byte, 40553-40570 |
| `LockSharedRange`, `LockDropPending` | shared range, drop of the pending byte, 40576-40608 |
| `LockReserved`, `LockExclusive` | 40609-40666 |
| `UnlockBegin`, `UnlockDowngrade`, `UnlockRelease`, `UnlockCount` | `posixUnlock`, 40695-40846 |
| `OpenDescriptor`, `OpenInode` | `findReusableFd`, `findInodeInfo` |
| `CloseBegin`, `CloseInode`, `CloseDescriptor` | `unixClose`, `releaseInodeInfo`, `closeUnixFile` |
| `Die` | death of a process |

`CloseInode` of the last connection of a process also zeroes the fields of its
`unixInodeInfo`: the structure is freed, and `findInodeInfo` makes the next one
with every field zero (40215).

An `fcntl()` that sets a lock may always fail (another program, a signal, a full
lock table).  One that releases may fail only if `ReleaseFaults` is TRUE: the
kernel has no reason to refuse an unlock, but the code handles it.
Abstracted: file descriptors (only whether a connection has one), errno
values, the device and inode comparison, the directory sync.  Left out: the
flock, dot-file, AFP, NFS and proxy methods, and the Apple branch of
`posixUnlock` for NFS.

`SpecNoOverlap` is `Spec` without the interleavings of one divergence (a lock taken
while another thread of the process is between the test of `nLock` in `unixClose`
and its `close()`).

### 2.2 Wal

A page's content is the number of the transaction that wrote it.  A wal-index
header is the triple of what its fields identify: the last valid frame, the salt
of the log, the transaction it makes current.  The checksum chain is the
transaction of the frame before; a frame whose salt or predecessor does not fit
is invalid.  The steps are those at which one process can see the other: each
copy of the header is written on its own (`Publish1`, `Publish0`; `RestartLog`,
`RestartHdr0`), `nBackfill` and the read-marks on their own, a reader's choice and lock
of a read-mark, its load of `nBackfill` and its check are four steps, and a checkpoint looks at one read-mark
and copies one page at a time.  Taking a lock is merged with the next step and
releasing one with the step before: neither can be told apart by others.

Read transactions are `BeginRead` (`walIndexReadHdr`), `ChooseLog`, `LockRead0`,
`PickMark`, `LockMark`, `LoadBackfill`, `CheckMark` (`walTryBeginRead`), `EndRead`.  Recovery is
`RecoverScan`, `RecoverHdr0`, `RecoverInfo` (`walIndexRecover`).  Writing is
`BeginWrite`, `RestartLog`/`KeepLog`/`RestartHdr0`/`RestartBackfill`/`RestartMarks`
(`walRestartLog`, `walRestartHdr`), `SpillPage`, `CommitFrames` (`walFrames`),
`Publish1`, `Publish0` (`walIndexWriteHdr`), `Rollback` (`sqlite3WalUndo`).
Checkpoints are `CkptBegin` ... `CkptReturn` (`sqlite3WalCheckpoint`,
`walCheckpoint`, `walIteratorInit`).  `Die` is the death of one process, `ShmLost`
of all: the wal-index is then truncated by the next one (`unixLockSharedMemory`).

The first frame of a log takes the salt of the header or, in a connection whose own
`nCkpt` is 0, a fresh one (69505-69528); `nCkpt` is not kept, so `SaltChoice` allows both.

`cached` is the transaction whose image the page cache of a connection holds: the
pager drops the cache only if the header changed (60807-60828).  `image`, `latest`
are bookkeeping: the image of each transaction that reached its commit frame and
the transaction whose header is published.

Abstracted or left out: the first free read-mark is found in one step; a spilled
page that is written again in place has no effect of its own (the rewriting of
checksums is not modelled); RESTART is FULL as far as state goes (it waits for
readers); the file header is written with the first frame; savepoints;
synchronous modes and power loss (every written frame stays); heap-memory mode;
exclusive locking mode; read-only wal-index; the deletion of the log by
the last connection.  A failure of an operation of the system is a death.

Bounds: `MaxFrame` frames, `MaxTx` transactions, `MaxSalt` restarts of the log,
`NReader` read-marks beside READ(0).  `Readers`, `Writers`, `Checkpointers`,
`Modes` and `DeathPcs` restrict who does what and where processes die.

With `StaleCheckpoints` FALSE the header a checkpoint has read does not get old: while one is between
its read of the header and READ(0) (`ckTest`, `ckScan`), the restart of the log waits.  Two
interleavings are left out that way.  One is that of the finding (`WalStale`): the log is restarted
before the checkpoint looks at `nBackfill`.  The other came up when the invariant of
section 5 turned out not to be inductive without it, and needs a death: a writer dies right
before it publishes the header of a new log, recovery publishes the old header again with
`nBackfill` zero, a checkpoint of that header begins, another one backfills the log, and a connection that
had chosen READ(0) before the recovery still may restart the log under the first one.

### 2.3 RollbackPager

A page's content names the change that wrote it: `2t` for transaction `t`, `2t+1` if `t`
wrote it after its savepoint, and `Garbage` for a torn page.  The journal is a
sequence of slots, each a header or a page record; a header has its magic, its record
count, the checksum initialiser (the transaction) and the original size.  Next
to each file is what the disk may hold of it: `dbDisk` and `jrDisk` are per page and per slot the
contents written since the last sync, and `jrOther` what the name of the journal may still lead to
(nothing, or an older file).  A power loss picks any of them for every page and every slot.

| Action | Code |
|---|---|
| `SharedLock` ... `Validate` | `sqlite3PagerSharedLock`, `hasHotJournal`: look for the journal, ask for RESERVED, read its first byte, lock EXCLUSIVE, look again: each step can meet another connection |
| `HotPlayback`, `PlayPage`, `PlaySync` | `pager_playback`, page by page |
| `PagerBegin`, `Write` | `sqlite3PagerBegin`, `pager_open_journal`, `pager_write` |
| `StressSync`, `StressWrite` | `pagerStress` |
| `OpenSavepoint`, `RollbackTo` | `pagerOpenSavepoint`, `pagerPlaybackSavepoint` |
| `ExclusiveBusy`, `CommitPhaseOne` | `sqlite3PagerExclusiveLock`, `sqlite3PagerCommitPhaseOne` |
| `SyncRecords`, `WriteRecordCount`, `SyncHeader` | `syncJournal`: sync, record count, sync |
| `WritePage`, `SyncDatabase`, `CommitPhaseTwo` | `pager_write_pagelist`, the sync of the database, phase two |
| `Rollback`, `RollbackNothing` | `sqlite3PagerRollback` |
| `Finalize`, `FinalSync`, `EndTransaction` | `pager_end_transaction` |
| `Die`, `PowerLoss` | death of a process or an I/O error; power loss |

Which pages are in the cache when a rollback begins is chosen by `inCache`: only the dirty ones, or
all.  `committed` is the image recovery must find, `maybe` the images a power loss may leave
(two from the end of the journal until it is synced), `info` the change counter and the
size each transaction wrote into page 1.

A playback is not a loop here but what the loop comes to: `Readable` says when
`pager_playback` goes on at a slot that it has reached, `Playback` is the set of records
it reads, and `PlayPage` takes the first one left of `todo`.  When a record is played twice the last
one counts in a recovery (`Recovered`), the first one in a rollback to the savepoint (`SavepointData`, `pDone` in the code).

The refinement of `SnapshotStore` needs two choices.  `Newest`: a commit whose end of journal is not
yet synced is not one for the store until it is, so that a power loss may take it back.  `Seen`: while
a rollback plays the journal back, its connection reads nothing beyond the size of the committed image.
After a death between the end of the journal and the truncation of the file
(59651-59664) the file is longer than the image; a later transaction that appends pages
journals those stale pages (they are below `dbOrigSize`), and its rollback restores them into memory
before it takes the size from page 1 again.  Nobody reads them in between, and without `Seen`
a mapping would show pages that the store never had.

Left out: MEMORY and OFF journals, exclusive locking mode, `synchronous=OFF`, device
characteristics, memory-mapped I/O, nested savepoints, the sector's other pages, page moves
of auto-vacuum, the error state of the pager (an error is a `Die`).

Two constants leave out what section 4 lists as divergences: `LoseUnsynced = FALSE` keeps
the power on while a commit others may have seen has an end of journal that nobody
has synced (NORMAL, or a process that died right before the sync), and
`AlignedSegments = FALSE` excludes records that end exactly at a sector boundary.

### 2.4 MultiCommit

A file is the number of the transaction whose image it holds, or `Half`; a journal is
what decides its fate: does it begin with a header, which super-journal does its tail name,
which image does it restore.  Super-journals have names of their own (their transaction)
and list the files they were written for.

| Action | Code |
|---|---|
| `BeginRead`, `BeginRecovery`, `EndRead` | `sqlite3PagerSharedLock`, `pager_unlock` |
| `BeginWrite`, `Spill`, `ExclusiveLock` | `sqlite3PagerBegin`, `pagerStress`, `sqlite3PagerExclusiveLock` |
| `Commit`, `Locked` | `vdbeCommit`: EXCLUSIVE on every file first (88409-88490) |
| `CreateSuper`, `SyncSuper` | 88520-88602 |
| `PhaseOne`, `WriteSuperJournal`, `SyncJournal`, `WritePages`, `SyncDatabase` | phase one of each file (88604-88625, `sqlite3PagerCommitPhaseOne`) |
| `DeleteSuper`, `SyncDirectory` | the commit (88627-88636) |
| `PhaseTwo`, `Finalize`, `EndSync` | phase two of each file |
| `Fail`, `RollbackFile`, `CheckSuper`, `PlayBack`, `SyncPlayed` | a failed commit, and the playback of one file, hot or not |
| `CheckChild`, `NoChildren`, `NextFile` | `pager_delsuper` |
| `EndTransaction`, `Die`, `PowerLoss` | end of the statement; failures |

`ShortJournals` and `LoseUnsynced` exclude two divergences in the same way.  What a disk may hold
of a file (`dbDisk`, `jrDisk`, `superDisk`) is kept for the power losses that are still to come
(`KeptAfter`).  Left out:
files without a journal, the commit hook, collisions of super-journal names, statement
journals.

### 2.5 RecursiveMutex and MutexContract

Every load and store of `nRef` and `owner` is a step.  The unlocked load of `nRef` races with
the stores of the thread inside, so a thread that is not inside may read anything
(`SeesEntered`); the load of `owner` returns what is stored, which the comment in
`pthreadMutexEnter` assumes.  `Call`, `ReadRef`, `ReadOwner`, `Again`, `Lock`, `Busy`,
`SetOwner`, `SetRef` are `pthreadMutexEnter` and `pthreadMutexTry`; `Leave`, `Clear`, `Unlock`
are `pthreadMutexLeave`.  `MaxDepth` bounds how often a thread enters without leaving.

### 2.6 LibInit

Threads with one connection each.  `sqlite3_initialize` is `Initialize` (the test
without a mutex), `AllocMutex`, `LoadMutex`, `Body`, `Register` (the recursive call that
`sqlite3_vfs_register` makes), `Finish`, `LeaveInit`, `Unref`, with an action for each mutex that is
entered; `sqlcipher_extra_init` is `ExtraInit`, `ExtraInitFails`, `ShieldFails`; `Shutdown` is
`sqlite3_shutdown` with `sqlcipher_extra_shutdown`, called as its documentation demands, while
nothing is open and nobody is in a call.  A key is `Key`, `KeyAgain` (the old codec is
freed first) or `KeyUninitialised`; the provider is `Activate`, `AddToActivate`, `LeaveActivate`,
`SetupFails`, `Random` and `Read`, `AddRandom` and `Add`, `Deactivate` and `Wipe`.

The generator is "zero", "started", "ready" or "done".  `leaked` counts references whose codec
failed after it had activated the provider.  Left out: the error returns inside the critical
section of `sqlcipher_ltc_activate`, which need a full descriptor table or a failing hash and
cannot occur in this build; `sqlite3_config`; the subsystems one by one; and the `Shutdown` after
`ShieldFails`, see section 4.

## 3. What the runs check

| Run | Instance | Shows |
|---|---|---|
| `UnixLock` | 2+1 connections in 2 processes, `SpecNoOverlap` | levels compatible (`LockExclusion`), every level backed by a kernel lock of the process (`KernelBacked`), a live writer is seen by `xCheckReservedLock` (`WriterIsSeen`), the last unlock of a process closes what was deferred (`UnlockClosesDeferred`), each step is one of `FileLock` (`ImplementsFileLock`) |
| `UnixLockFaults` | the same, releases may fail, no interleaving excluded | connections of one process still exclude each other (`ExclusionInProcess`); no inode is freed with deferred descriptors open (`NoDescriptorLeak`) |
| `UnixLockStarve` | 3 processes, `FairSpec` | a PENDING writer gets EXCLUSIVE or gives up, whatever readers do |
| `Wal` | 2 connections in every role, 1 read-mark, TRUNCATE, which goes on as PASSIVE if a writer is active | types, `CacheFresh`, `BackfillWithinLog`; every step is one of `SnapshotStore` (`ImplementsSnapshotStore`) |
| `WalDeaths` | a writer and a connection that reads and checkpoints, 2 read-marks, both die before any step but one | `SnapshotRead`: every transaction reads one committed image; `CommittedSurvives`: recovery finds the last commit and nothing after it |
| `WalStale` (violation) | 2 connections, the excluded interleaving allowed | a checkpoint with an old header overwrites pages in use |
| `RollbackPager` | 2 connections that write, DELETE with EXTRA and PERSIST with FULL, deaths, one power loss | `RecoveryIsExact`, `PowerLossIsAtomic`, `ReaderSeesCommitted`; each step is one of `SnapshotStore` |
| `RollbackSavepoint` | 1 connection, 3 pages of which one is appended, TRUNCATE with NORMAL, a savepoint | `SavepointRestored` with pages spilled, appended and changed again; `RecoveryIsExact` all the while |
| `MultiCommit` | 2 connections, 2 files, PERSIST and DELETE, a death, a failure, a power loss | all of a transaction or none after recovery (`RecoveryIsExact`), after a power loss (`PowerLossIsAtomic`), in a reader of both files (`ReaderSeesCommitted`); no super-journal is deleted while needed (`OnlyCommitCommits`) |
| `RecursiveMutex` | 3 threads, 3 levels | `SelfNeverBlocks`, `HeldWhileEntered`; the mutex implements `MutexContract` |
| `LibInit` | 2 threads, failures, one leaked codec, `FairSpec` | the reference counts in their bounds, one thread at a time in a mutex and none left inside one (`TypeOK`); `InitMutexLives`, `OneInitialiser`, `RandomIsSeeded`, `WipedWhenUnused`; every call returns (`EveryCallReturns`) |
| `LibInitEarly` (violation) | 2 threads, no failures | a thread is told SQLITE_OK while SQLCipher is not initialised |

Why the bounds are enough.  Locking: two connections in one process are needed for
the shared `unixInodeInfo`, one in another process for kernel conflicts; the
starvation run needs two readers that alternate beside the writer.  WAL: three
transactions and two restarts give an old snapshot, a newer one and an open write;
three frames hold a spilled page, a commit and a stale frame of the log before; two
read-marks make a reader share a mark or lose it to a checkpoint; two pages make a
torn image visible.  Rollback journal: two connections for each race at a hot
journal; two pages, so that a transaction can be half written; two transactions after the initial
one, so that a kept journal has records of an older one behind the new; `MaxEvents` bounds
transactions, deaths and power losses together.  The savepoint needs a page
in each journal and one beyond the end of the file.  Several files: two files, of which one may be
committed and the other not; two transactions, of which one recovers what
the other left.  Mutex: one thread inside, one on its way in, one on its way out.  Start: two
threads race for each mutex; a third only repeats the part of the second.

Fairness (`FairSpec` only).  A thread inside a call is scheduled (weak): `F_SETLK` does
not block.  A reader ends its transaction (strong on its unlock: it needs
`pLockMutex`, which others also take).  The busy handler of a connection left with PENDING
tries again (weak), and the `fcntl()` for EXCLUSIVE fails for conflicts only (strong).
`LibInit`: a thread inside a call goes on (weak), and one that waits for a mutex gets it
if the mutex is free again and again (strong on `Enters`: pthread mutexes do not promise a
queue, but a scheduler that lets others in for ever is not what the code guards against).  What an
application calls, and whether it calls, is not fair.

A refused `SharedLock` or `PagerBegin` simply is not enabled: the caller gets SQLITE_BUSY and
may come back.  `RollbackPager` may stop when its events are used up, hence
`CHECK_DEADLOCK FALSE` there.

## 4. Where code and comments disagree

Two runs expect a violation and are listed as findings.

- `WalStale`: `walCheckpoint` (67672) compares the live `nBackfill` with the `mxFrame`
  of a header read earlier; a restart of the log in between lets it copy frames that are not
  committed.  (After a death the same happens later in the checkpoint, see 2.2.)
- `LibInitEarly`: `sqlite3_initialize` sets `isInit` (187693) before it calls
  `sqlcipher_extra_init` (187736).  A thread that tests `isInit` in between (187603, no mutex) is told
  SQLITE_OK, and the key of its connection is refused.

The others are excluded from the passing runs by the constant or the specification named, and
most can be seen with a configuration of this directory that is not one of the listed runs.

| Configuration | Property violated | What happens |
|---|---|---|
| `UnixLockRace` (`Spec` in place of `SpecNoOverlap`) | `KernelBacked` | `unixClose` tests `nLock` under `pLockMutex`, leaves it (40936) and `close()`s afterwards (40939): a thread that locks in between loses its kernel lock and does not know (comment 39869-39873) |
| `UnixLockPending` | `PendingStopsReaders` | a process that holds SHARED serves a second request from its own counters (40536), so a new reader appears while another process is PENDING (comment 40478-40480) |
| `UnixLockRelease` (`ReleaseFaults`) | `LockExclusion` | after the second `fcntl()` of `posixUnlock` failed (40808) the connection keeps EXCLUSIVE in `eFileLock` while another process reads (16029) |
| `WalRestartDeath` | `BackfillWithinLog` | `walRestartHdr` publishes the header before it clears `nBackfill` (67611); a death in between leaves `nBackfill` beyond `mxFrame` (65803-65804) |
| `RollbackNormal` (`LoseUnsynced`) | `PowerLossIsAtomic` | in NORMAL, TRUNCATE mode the end of the journal is not synced: a power loss undoes a commit others have seen (documented behaviour of NORMAL; in FULL and EXTRA it needs a process that dies right before the sync) |
| `RollbackAligned` (`AlignedSegments`) | `OldHeaderUnrecognised` | records that end at a sector boundary leave `journalHdr` at the place of a next header, whose magic `readJournalHdr` does not test there (59108): a rollback goes on into an older journal (comment 61858-61880) |
| `MultiStale` (`ShortJournals`) | `RecoveryIsExact` | a recovery that finds the super-journal missing has read no header, so a PERSIST journal is not finalised (58897); the next transaction's journal may end before the old name, which then is its tail |
| `MultiCommit` with `LoseUnsynced = TRUE` | `PowerLossIsAtomic` | the super-journal is unlinked but the directory not yet synced (88631): a power loss brings it back after some files were finished |

Without a property: if there is no memory for the shield mask, `sqlcipher_extra_init` tears everything
down, leaves the provider activated and returns SQLITE_OK (108047-108051, the comment at 108089
promises the error code); `sqlcipher_init_error` is SQLITE_OK too, so a key then succeeds
without attaching a codec (`ShieldFails`, `KeyUninitialised`).  The default provider, in the heap freed
there, stays registered: what a restart after that does is undefined, and `Shutdown` excludes it.

## 5. What is proved

`UnixLockProofs`, for any set of processes, any finite set of connections and both values
of `ReleaseFaults`:

- `TypeCorrect`: `Spec => []TypeOK`.  Not only types: the counters, which the code
  decrements without a test, stay natural numbers.
- `DescriptorsKept`: `Spec => []NoDescriptorLeak`: while descriptors wait on `pUnused` a
  connection is counted in `nRef`, so that `releaseInodeInfo` is still to come for them.
- `UnlockClosesThem`: `~ReleaseFaults` implies `Spec => []UnlockClosesDeferred`: `nLock` counts
  exactly the connections with a lock, so that `posixUnlock` is still to come.  With failing
  releases it is not: a connection that closes after its unlock failed leaves its lock
  counted, and only the end of the inode closes the descriptors.
- `InProcessExclusion`: `Spec => []ExclusionInProcess`.
- `Invariance`: `Spec => []IInv`, on which the four rest.

The only assumption, but for `~ReleaseFaults` where it is named, is `ConnAssumption`.  None of the four is inductive.  `IInv`
adds: who is in a call owns `pLockMutex` (`InMutex`); what a call under way has found out
about its own and its process's level, which nobody can change while it is inside
(`CallInv`); a level above SHARED is the same in `unixFile` and `unixInodeInfo`, except
between the two halves of an unlock (`Agree`); one connection of a process is above SHARED
(`OneWriter`); and `nShared = nLock`, both cover the connections with a lock, EXCLUSIVE
has one, `nRef` counts the open connections, and a process without one has no lock counted (`CountInv`).  With failing releases `nShared` may
exceed the number of holders, hence the inequality there.  Each action has a lemma;
`MutexStep` and `OtherStep` do the part that is the same for all, `Alone` says that
inside the mutex nobody else of the process is in a call.

Between processes, for the same constants, under the hypothesis `~ReleaseFaults` and for
`SpecNoOverlap`, which are what the run `UnixLock` takes too:

- `KernelBacks`: `SpecNoOverlap => []KernelBacked`.
- `LocksExclude`: `SpecNoOverlap => []LockExclusion`.
- `WriterSeen`: `SpecNoOverlap => []WriterIsSeen`.
- `RefinesFileLock`: `SpecNoOverlap => ImplementsFileLock`, the refinement with the mapping
  `held <- Held`: a connection is at its level until it asks for less.
- `KernelInvariance`: `SpecNoOverlap => []KInv`, on which the four rest.

Both hypotheses are needed: section 4 has the run in which each of them is missing and a
property fails (`UnixLockRelease`, `UnixLockRace`).  `KInv` is `IInv` and: the byte ranges the
process must hold for the level of each connection and for what its call has obtained so far
(`Backed`); a writer is alone on each range (`Exclusive`, what `fcntl()` grants); the counters are
now exact (`Exact`).  `KernelStep` does the part that is the same for all actions: other
processes see only what `fcntl()` grants.  The delicate actions are those that drop every lock of
the process.  `UnlockCount` does so when `nShared` or `nLock` is 1, which by `Exact` leaves no other
holder; `CloseInode` when `nRef` is 1, which leaves no other user, and by `Exact` no lock in the fields it zeroes; `CloseDescriptor` is where
`NoCloseOverlap` is used.  In the refinement `LockSharedInProcess` needs a connection of the
process that has SHARED or RESERVED, which `Exact` provides (`nShared` cannot be 0), and the
last step of a first SHARED needs that its read-lock on the pending byte is still there, so that no
other process is PENDING.

`RecursiveMutexProofs`, for any set of threads and any `MaxDepth`:

- `MutexTypeCorrect`: `Spec => []TypeOK`; the count is never decremented below zero.
- `NoSelfDeadlock`: `Spec => []SelfNeverBlocks`.
- `LastLeaveReleases`: `Spec => []HeldWhileEntered`.
- `RefinesContract`: `Spec => ImplementsMutexContract`, the refinement: the initial states map
  to initial states of `MutexContract`, and every step is an `Enter`, a `Leave` or a stutter.
- `MutexInvariance`: `Spec => []IInv`, on which the four rest.

The assumptions are `NoThreadIsNoThread` and `MaxDepthIsPositive`.  None of the properties is
inductive, because a thread on its way in has read values others write.  `IInv` says what
those values are worth: a thread not inside the pthread mutex is never the owner and has
entered nothing (`Outside`), whatever it has read of `nRef`; for the thread inside, `owner` and `nRef`
are tied to where it stands (`Inside`); when the pthread mutex is free there is no owner and no
count (`Free`); `nRef` is the depth of the thread inside (`Bounded` gives its range).  `StepIInv` has one
step per action; the refinement follows because in `Enter` steps the other depths are 0.

`LibInitProofs`, for any finite set of threads, any `MaxLeaks` and with or without failures:

- `StartTypeCorrect`: `Spec => []TypeOK`; a mutex has one owner at most and no call returns
  inside one, neither reference count goes below zero, and each
  is bounded by the number of threads.
- `TemporaryMutexLives`: `Spec => []InitMutexLives`.
- `StartsOnce`: `Spec => []OneInitialiser`.
- `ReadsAreSeeded`: `Spec => []RandomIsSeeded`.
- `NothingOutlives`: `Spec => []WipedWhenUnused`.
- `StartInvariance`: `Spec => []IInv`, on which the five rest.

The assumptions are `ThreadIsFinite`, `FaultsIsBoolean` and `MaxLeaksIsNat`.  No action of
`LibInit` says which thread holds what: the code only counts.  `IInv` ties each count to the
places of the threads: what a thread has entered follows from `pc` and `nested`, and a mutex has
one holder (`Mutexes`); `nRefInitMutex` is the number of threads between `AllocMutex`
and `Unref` plus that of the recursive calls under way, `ltc_ref_count` the number of
activations that a connection holds or has lost (`Counts`).  `RefCounted` and `OwnerCounted`
draw the consequence both frees need: who takes the count from 1 to 0 is the only one
left.  `Phases` orders `inProgress`, `isInit`, `bRunExtraInit` and `sqlcipher_init`: a codec exists
only after SQLCipher has been started, and then no thread is still to start it.  `Generator`
says when the generator is ready, and that it is zero when nobody owns it.  Each part has
a lemma with one step per action.  TLC has checked `IInv` itself with two and three threads.

`WalControlProofs` and `WalProofs`, for any finite set of connections, any
roles, any finite set of pages and any number of read-marks, frames, transactions and restarts (the
only assumption is `WalAssumption`):

- `ControlInvariant`: `Spec => []Control`, with deaths anywhere and stale checkpoints allowed.
- `CacheIsFresh`: `Spec => []CacheFresh`, likewise without a hypothesis.
- `LogInvariant`: `Spec => []LogInv`, under `Sound`.
- `SnapshotIsolation`: `Spec => []SnapshotRead`, under `Sound`.
- `CommitsSurvive`: `Spec => []CommittedSurvives`, under `Sound`.
- `BackfillStays`: `Spec => []BackfillWithinLog`, under `Sound`.
- `TypeCorrect`: `Spec => []TypeOK`, under `Sound`.
- `RefinesSnapshotStore`: `Spec => ImplementsSnapshotStore`, under `Sound` and without deaths, for
  at least one page.

`Sound` is `~StaleCheckpoints` and `"restartInfo" \notin DeathPcs`; the passing runs take instances
of it, and `WalStale` and `WalRestartDeath` show the property that fails without either half.  Deaths at
every other step are allowed.  The refinement is for runs without deaths because `SnapshotStore`
cannot say what the log does after one: a commit frame that was written, but whose header was not
published, is a transaction without a writer that the next recovery commits.  `CommittedSurvives`
says what is true then: recovery finds the last commit or a newer one, whole.

The argument has three layers.  `Control` says which locks go with each step (`LockInvOf`), that
nobody reads the log while it is restarted and nobody reads the database file alone while
pages are copied (`ReadersOut`).  For each action `A` a definition `ADone(c)` says what `A` does to `c` and to the
shared state, and `OnlyAt(c)` that no other connection's locals change: the later layers use those and
`OthersSame` in place of the action.

`LogInv` is what none of the properties can do without.  `ChainInv`: the valid frames are a
prefix, transactions follow each other in it.  `ImageInv`: the frames up to a commit make up its image, with the database
file for the pages that have none, and the database file is never newer than the last commit.
`RecoverableInv`: the log has the last commit, or the database file does.  `PublishedInv`: the published header is
that of the last commit, and the frames up to `nBackfill` are in the database file (`Filled`).  `SpillInv`: what an open
transaction has spilled is not a commit and comes last.  `HeaderOf`: what a header read some steps
ago is worth now, which is where the races are: a reader that has chosen the database file
may hold the header of a log that is gone, but then the database file has its image or a newer one.  `ReaderOf`:
the snapshot of a reader is in the log above `minFrame` and in the database file below, and
its read-mark is not beyond it.  `MarksRespected`: a checkpoint that has passed a read-mark in use
copies nothing beyond it.  `CkptOf`: which pages are still to be copied, and from which frames.
Each action has a lemma.  Most leave the log, the database file and the published header as they are and share the
lemmas `SameOperators` to `QuietExcluded`; the others satisfy `Advance` (the log keeps what the published
header covers, and nothing gets older), from which `HeaderKept`, `ReaderKept` and `CkptKept` conclude that the other
connections still are where they think.

Two lemmas connect that to the properties: `LookupImage` (the look-up above `minFrame`, and the database
file below, gives the image of the header's transaction) and `RecoveryFinds`.  `IndexInv`, for the
refinement, says that without deaths only a new wal-index is recovered, so that a recovery commits
nothing; `Views` replaces the pages read through the log by the images of the commits, and
`BeginStep` to `AbortStep` are the steps of `SnapshotStore`.  TLC has checked `LogInv` on the instances of
the runs.

`MultiCommitProofs`, for any finite set of files, any set of connections, either journal mode of each,
and any number of transactions, deaths, failures and power losses (the only assumption is
`MultiAssumption`), under `Sound`:

- `TypeCorrect`: `Spec => []TypeOK`; with it, `vdbeCommit` has EXCLUSIVE on every file it commits.
- `ExactRecovery`: `Spec => []RecoveryIsExact`.
- `AtomicPowerLoss`: `Spec => []PowerLossIsAtomic`.
- `ReadersSee`: `Spec => []ReaderSeesCommitted`.
- `OnlyCommits`: `Spec => OnlyCommitCommits`.
- `Invariance`: `Spec => []IInv`, on which the five rest.

`Sound` is `~ShortJournals` and `~LoseUnsynced`, which the run `MultiCommit` takes too; `MultiStale` and
`MultiCommit` with `LoseUnsynced = TRUE` show what fails without either half.

The properties speak of a recovery that has not happened yet, so `IInv` says for each file why it will
come out right.  A file of which anything but the committed image may be seen, now or on
disk, has only journals that restore that image, and the super-journal these name stands
(`Guarded`); a journal that would be played back restores what is committed even if there is no need
(`Exact`).  Deleting a super-journal therefore may do harm in two ways, and the rest of `IInv`
excludes both.  It must not go while a file relies on it: `KidsInv` says that the children
`pager_delsuper` has still to look at are all whose journals name it, and `NameInv` that its list of
children is complete.  And when it goes to commit, every file must be ready: `WorkInv` says
how far phase one has come (`Done`: journal and image written and synced, nothing else on disk;
`NotNamed`: the journals ahead do not name it yet), so that at `DeleteSuper` all files are
`Done`, and `Guarded` holds for the new image.  `FinishInv` is phase two, `CurInv` and `RollInv` the playback and
the end of one file; `PairInv` keeps apart the transactions of two connections, because a transaction's
number is the name of its super-journal.  For power losses `PendInv` says that one commit at most is
uncertain, the one that waits for the sync of its deletion, and that two images differ in its files
alone; `DiskInv`, that every journal which the disk may bring back restores the images before it.

A step of `c` changes one file, which `c` has locked (`FilesStep`, `SupersStep`, `NamesStep`,
`HistStepKept`); from that alone `OthersKeep` concludes that the invariants of the other connections stay.
`OwnKeep` is that of `c`, with a lemma per action; `FileInvStep`, `NameStep`, `PairStep`, `PendStep`,
`DiskStep` are the shared parts, `LossKeeps` the power loss.  TLC has checked `IInv` on the run `MultiCommit`,
with a third connection, and with two power losses and `extraSync` off.

`RollbackPagerProofs` and `RollbackDiskProofs`, for any set of connections, each with its own
journal mode and synchronous level, any number of pages, transactions, deaths and power losses, with
and without savepoints (the assumptions are `PagerAssumption` and `NoFileIsNoJournal`), under
`Sound`:

- `PagerTypes`: `Spec => []TypeOK`; with it, `pInJournal` has only pages from before the transaction.
- `RecoversExactly`: `Spec => []RecoveryIsExact`.
- `CommitIsAtomic`: `Spec => []PowerLossIsAtomic`.
- `ReadersSeeCommitted`: `Spec => []ReaderSeesCommitted`.
- `SavepointsRestore`: `Spec => SavepointRestored`.
- `OldHeadersIgnored`: `Spec => []OldHeaderUnrecognised`, which `RollbackAligned` shows to fail without `Sound`.
- `PagerRefinesSnapshotStore`: `Spec => ImplementsSnapshotStore`, deaths and power losses included.
- `PagerInvariance`: `Spec => []IInv`, on which the others rest.

`Sound` is `~AlignedSegments`, and, if the power may fail at all, `~LoseUnsynced` and FULL or EXTRA
for every connection.  `RollbackAligned` and `RollbackNormal` show the properties that fail without the first
two.  FULL is needed as well: NORMAL leaves out the sync between the records and their count, and
a PERSIST journal whose header reaches the disk before its records has, in their places, whatever
the disk makes of an interrupted write.  (SQLite's documentation of `PRAGMA synchronous` concedes
that a power loss may corrupt a database in NORMAL with a rollback journal.)  Without power losses the
theorems hold for NORMAL too.

The properties speak of a playback that has not happened yet, and of files that somebody is writing.
`IInv0` says why it will come out right:

- `FileInv`: every page of the database file is as committed, or the journal restores it
  (`Covers`); and a journal that would be played back restores nothing else, even where nothing needs it
  (`Harmless`).
- `TxOfInv`, the transaction under way.  Its records are those of `SlotsOk`; those below `hdr` are synced and
  count, with a header before them that says how many they are (`SyncedOk`); what comes after is
  one segment whose header has no count yet (`HeaderOk`), and behind that, nothing that a playback
  takes for its next header or record (`StaleOk`, which is where `~AlignedSegments` and `StaleHeader` are used).
  A page of the file that has changed has a synced record (`DbOk`, why `pagerStress` tests
  `PGHDR_NEED_SYNC`); memory is as committed but for the pages in `pInJournal` and those appended (`MemOk`).
- `SavepointOk`: each page of the savepoint's image is unchanged in memory, or has a record
  behind `iOffset` or in the sub-journal, and every record there has the content from before the savepoint.
- `PlayOk` and `HotInv`: in a rollback, or in a recovery, a page whose record has been played
  is as committed; the others still have theirs.
- `CacheOf` and `ColdOf`: a cache with the change counter of the committed image holds that image,
  and nobody who is past the look at the journal has a hot one beside it.

Each action has a lemma (`WriteKeeps` to `EndTransactionKeeps`); `OpenStep`, `WriteStep`, `ExclusiveStep`
and `QuietStep` are the parts that are the same for many.  Playback is a set, so what a longer journal
plays back follows from which of its slots changed (`PlaybackEnd`, `ReadableBehind`, `OwnPlayback`).  `PagesIn` and
`Recovered` use the greatest element of a set, which is why the natural-number induction of the library appears.

`DiskInv` is the same for what the disk may hold, where every slot and page may have
several contents.  `Mild` slots are those a recovery may read without harm to the image, `Quiet` ones end it.  The
journal on disk has a fence (`Fence`): a place, and a transaction, such that all slots before it are mild for
that transaction and the slot there is quiet, whichever contents the disk keeps.  Before the first sync of a
transaction it is a fence of an older one, or of none; the sync of the records lets the fence move past them, and
only then does the header get its count (`TxDisk`).  A page of the file that the disk may hold changed has a synced record
(`Undone`).  When the journal has been finalised but not synced, either journal may come back, and
each image in `maybe` is what one of them recovers (`Reverts`, `FinalDiskInv`).
`SureSurvives` and `PowerLossDoes` draw the conclusion for every choice of a power loss.

For the refinement `SeenInv` adds that what a connection sees in a rollback are pages of the
committed image and its own; `Late` is the commit whose lock has not been given back, for which the store
has no writer any more.  `MapsToBegin` to `MapsToVanish` are the steps of `SnapshotStore`, and
each action has a lemma that says which one it takes.  TLC has checked `IInv` on the instances of the
runs, and the mapping with savepoints and deaths together.

Checked by TLC only: liveness
(`WriterNotStarved`, `EveryCallReturns`), which is out of the prover's reach together with ENABLED and
induction over data.  Every other property of a passing run is a theorem; what the runs of
`Wal` and `UnixLock` exclude, section 4 lists.

## 6. Not modelled, and what is left to do

Next in line, were the project to go on:

1. The refinement of `SnapshotStore` by `Wal` with deaths, for which `SnapshotStore` needs a step
   that commits for a writer that is gone.
2. `WalLog`: the write path with savepoints, checksum rewriting, synchronous modes,
   padding frames and power loss; then the hash tables against a reference look-up.
3. The shared-memory DMS lock; `RollbackPager` on `UnixLock` in place of `FileLock`, so that
   a failed unlock reaches the pager.
4. `pcache1`, Bitvec against a set, the backup, the codec's keys and rekey, Fortuna's pools, the
   busy handler.

Not modelled and not planned: the SQL front end, the VDBE and the extensions (language
semantics, generated code), B-tree balancing, cipher and hash kernels, public-key and bignum
arithmetic, encodings (pure functions: test vectors are the right tool; most of LibTomCrypt is not
called by SQLCipher), the Windows VFS (not compiled).  They are by far the larger part of
the repository by lines, which is why the modelled share of all lines is small:
the models are about the protocols, where interleavings and crashes are.

## 7. Running

    tlc -workers 2 -config UnixLock.cfg MCUnixLock.tla
    tlc -workers 2 -config RollbackPager.cfg MCRollbackPager.tla
    tlapm RecursiveMutexProofs.tla
    tlapm LibInitProofs.tla
    tlapm UnixLockProofs.tla
    tlapm WalControlProofs.tla
    tlapm WalProofs.tla
    tlapm RollbackPagerProofs.tla
    tlapm RollbackDiskProofs.tla
    tlapm MultiCommitProofs.tla

Every run of `PROJECT.json` names its module and configuration.  No run takes more
than five minutes with two workers.
