# sqlol: TLA+ models and proofs

sqlol runs SQLite inside the JVM: `sqlite3.c` is compiled to WebAssembly with
threads, translated to JVM byte code, and used by many JVM threads at once over one
shared linear memory. What an operating system does for SQLite elsewhere (file
locks, shared memory, threads) is written in Kotlin here, and so is the life of
runtimes, workers, connections and statements. These modules model that code, and the
parts of `sqlite3.c` that rest on it: the write-ahead log and the rollback journal.

## 1. Inventory

| Part | Source | State | Operations | What makes it hard |
|---|---|---|---|---|
| Lock table | `JvmVfsLocks.kt` | level per connection, slots shared/exclusive | lock, unlock, checkReserved, shmLock, shmUnmap | ranges of slots, upgrades, handles used again |
| Owner lock | `DbOwnerLock.kt` | sidecar file, OS lock, token | acquire (16 rounds), close | processes, crashes, unlink and re-create, POSIX close |
| Shared memory | `ShmArena.kt` | regions by string key, cursor | map, dropFile | cached pointers, no bound |
| VFS shim | `os_jvm.c`, `sqlite3.c` (pager, WAL) | pointers and locks a connection believes in | open, map, write, close | two lock tables that protect each other |
| Write-ahead log | `sqlite3.c` (wal.c) | wal-index header, read marks, WAL and database file | read and write transactions, checkpoints, recovery, close | loads and stores without a lock, restarts of the log, power loss |
| Frame index | `sqlite3.c` (wal.c) | `aPgno`, `aHash` | append, clean up, find, iterate | a reader walks chains while the writer changes them |
| Pager | `sqlite3.c` (pager.c) | lock level, journal, database file, cache | read, write, spill, commit, roll back, play back | hot journals, order of syncs, failed writes |
| C workers | `conn_worker.c`, `SqliteWalPool.kt` | words in linear memory, pool, read/write lock | request, await, stop | lost wakeups, late answers |
| Workers | `SqliteWorker.kt`, `JvmVfsRuntime.kt` | carrier thread, three futures, lock, session | spawn, run, interrupt, stop | a stack per instance, failing spawns, time-outs |
| Data source | `SqliteDataSource.kt` | connections, closed flags, spawn lock | getConnection, execute, close (two levels) | close racing everything |
| JDBC ports | `WorkerDbPort.kt` | counted runtimes by path | openFile, openMemory, submit, close | counts, failing spawns |
| Reader pool | `SqliteWal.kt` | pool of readers, one writer | open, exec, query, close | borrow/return against close |
| Statements | `SqliteWorker.kt` (Session), `SqlitePreparedStatement.kt` | cache by text, registry by address | query, prepare, execute, close | addresses used again, eviction, left-over bindings |
| Retries | `SqliteWorker.kt` (Session.run) | attempts | run | a retry repeats committed work |
| WASI lock, callbacks, bulk memory | `JvmVfsRuntime.kt`, `JvmCallbacks.kt`, `StatelessBulkMemory.kt` | lock modes, keys, pages | imports, register/free, read/write | close during calls, stale keys, 32-bit bounds |
| JDBC driver | `modules/sqlite-jdbc` | monitors, statement pointers, batches, result sets | the JDBC interfaces | locks in two orders, auto-commit, finalizers |
| Loom glue | `LoomScheduledExecutorService.kt`, `LoomCoroutineDispatcher.kt`, `LoomIoHandler.kt` | tasks, queues | schedule, cancel, shutdown, submit | cancel against run, lost wake-ups |

`PROJECT.json` lists the parts with their status, the source lines behind every
definition, and the hazards at the line where they bite.

## 2. Modules

Three modules are abstract and are implemented by others: `RwLock` (one
reader/writer lock), `Worker` (closures run one at a time and only on a live worker,
which is closed once) and `SnapshotStore` (a growing list of committed images, a fixed
view per transaction, one writer, and what a crash may take).

```
   RwLock <--implements-- JvmVfsLocks --+
                          ShmArena -----+--> WalIndex
   SnapshotStore <--implements-- Wal (in WalStore), Pager   (both extend JvmVfsLocks)
   Worker <--implements-- SqliteWorker
   Worker --extended by-> SqliteDataSource, WorkerDbRuntimes, SqliteWal
   WalHash --extended by-> WalHashIterator
   DbOwnerLock, Session, SessionRun, ConnWorker,
   LoomScheduledExecutorService, LoomIoHandler stand alone
```

**JvmVfsLocks.** `levels` is `FileState.levels`; `shared` and `excl` are the slots.
Each Kotlin function is synchronized and hence one action. File locks are asked for
the way `pagerLockDb` and `pagerUnlockDb` ask, slots in the ranges `slotRange` names.

**DbOwnerLock.** `acquire` and `close` are split at every system call. The file
system (`sidecar`, inodes, tokens), the OS lock, the JVM's own lock table, refused
deletes and the death of a process are external and modelled from what the code
relies on. `CloseDropsLocks` selects the two kinds of OS lock: per handle (Windows,
OFD) or per process and inode, dropped by closing any descriptor (POSIX `fcntl`, what
`FileChannel.tryLock` uses on Linux and macOS).

**ShmArena, WalIndex.** `regions` and `cursor` are the fields of the arena; keys are
sequences of strings, since `dropFile` works on a string prefix. WalIndex composes arena and lock table with the pager: a connection takes
SHARED, opens the WAL, maps regions and caches the pointers (`apWiData`), takes the
write slot, and closes, where it deletes the index only if it gets EXCLUSIVE. The import
`shm_unmap` takes the monitor of the lock table and then that of the arena, hence
two actions (`shmUnmapLocks`, `shmUnmapDrop`).

**Wal.** The wal-index (`aHdr`, `nBackfill`, `aReadMark`) and the two files are shared;
`pWal[c]` is a connection's `Wal` object. A load or store whose order matters is a step,
a short exclusive lock around one store is part of it, and recovery and the rewriting
of checksums are one step each. A file block has the content the operating system sees
and the contents the device may have, among which a power loss chooses. `WalStore` holds
the mapping to `SnapshotStore`.

**WalHash.** The hash tables behind Wal's search for a page, one slot per step: the
writer appends and cleans up, a reader searches. The first table is shorter than the
others, as in the code. `WalHashIterator` adds the merge sort of the checkpointer, with
recursive operators.

**Pager.** Rollback-journal mode over the lock levels. A call of the file system is a
step; the journal is a row of headers and page records. Files have device contents as in
Wal, and an unlinked journal may come back until its directory is synced.

**ConnWorker.** `req` and `done` are the words of a channel, `w` the workers of
`conn_worker.c`, `t` the callers in `ch_await` or `SqliteWalPool`. Wait and notify are
Chicory's, with its counter of pending wakeups (external).

**LoomScheduledExecutorService.** One task of one of the three classes. `pc[k]` is the
virtual thread of its k-th execution; the sleeper and the task are `FutureTask`s
(external), `cancel` is cut where it reads `sleepTask`, cancels it and cancels the task.

**LoomIoHandler.** `loop` is the event-loop thread inside `run()`, `caller` the threads
in `submit` and `cancel`. Netty's loop around `run()` and `LockSupport` are external.

**SqliteWorker.** `pc[t]` and `at[t]` say where a calling thread is and in which
worker; `vt` is the carrier thread; `started`, `shutdown` are the futures and
`lifetime` is `vt = "gone"`; `lock`, `closed` are the fields of the worker, `heap` and
`dbPtr` the addresses of the `sqlite3` objects. Route A and B, each failure of a spawn,
the time-outs of `started.get`, `stop` and `closeChild`, a failing `session.close`,
`interruptDb` and the lazy `cbPtrs` are actions.

**SqliteDataSource.** Connections are named by their worker. `getConnection` is cut
where it reads `closed`, takes `spawnLock` and returns; `close` of a connection where
it tests, sets, stops and unregisters; `close` of the data source at each connection.
`Manager` are the threads that open and close; the others only execute. `listed` keeps
the connections that `close` of the data source found open.

**WorkerDbRuntimes.** `files` is the registry (`Memory` is the key of `memRt`),
`rtPath` the open runtimes, `ownerLock` their sidecars. `open` and `release` hold the
registry's monitor. `openRuntime` is cut where its runtime exists: what follows may throw
(`openFails`), and then the lock is given back while the runtime is left as it is
(`abandoned`), as `SqliteDataSource.kt:93-95` does.

**SqliteWal.** `pool` is `readerPool`; a thread borrows, runs, gives back.

**Session.** `stmts` is the access-ordered `LinkedHashMap` as a sequence, `userStmts`
the registry, `heap` the text and the bound values of the statement at an address.
`Worker` runs one closure at a time. A closure that executes is cut in two: it finds the
statement, binds value after value (any of which may be refused, which ends it) and is
then in `call`; `stepReturns` is the `finally` block. Only `query` and `queryRows` clear the
bindings, and only when they had parameters. The `closed` test of a prepared statement,
with the copy of its values, comes earlier, as an action.

**SessionRun.** Sessions of several workers compete for the write lock. A text is a row of
writes, BEGIN, COMMIT and ROLLBACK, of which SQLite's rules are external; `ran` counts how
often each statement of the text was executed, and a BUSY starts the text again.

## 3. Runs

Passing runs. An MC module that joins several models has a variable `part`, chosen in
the initial state: a behaviour is about one of them and leaves the others alone.
Deadlock is checked except where sets of workers, sessions or addresses run out or
everything has been closed.

| Run | Instance | Shows |
|---|---|---|
| `in_process` | lock table: 3 connections, 3 slots; wal-index: 2 regions, 6 openings; registry: 3 threads, a file and memory, 3 runtimes | `LevelsCompatible`, `SlotsAreRwLocks` (refinement of `RwLock`); `IndexAgreement`; `LivePortOnOpenRuntime`, `NoLockLeak` |
| `facades` | data source: 2 managers, 1 user, 2 connections; `SqliteWal`: 3 threads, a writer, 2 readers; fair | `ClosedBeforeRelease`, `CloseReturns`; `PoolConserved`, `CloseIsLast`, `ReaderComesBack` |
| `statements` | 2 texts of 2 parameters, 3 addresses, cache of 1, 2 objects, 2 threads; retries: 2 writers, 4 texts of up to 4 statements, 3 attempts, fair | `StatementsOwned`, `StepsWithOwnValues`, `StepsOwnStatement`; `RetryEffects`, `RunEnds` |
| `wal_protocol` | 2 connections, 4 frames, the scenarios `Interleavings`: two writers of 2 pages; a writer of 1 page and blocking checkpoints, or closing | `CacheFresh`, `ReadersKeepTheLog`, `ImplementsStore` (refinement of `SnapshotStore`) |
| `wal_crash` | the scenarios `Faults`: power loss, death of the process, spills, closing | `ImplementsStore`, `KillLosesNothing` |
| `wal_hash` | 2 pages, tables of 1 and 4 frames with 8 slots, 4 frames | `FindsSnapshotFrame`, `FramesReachable`, `IteratorReturnsNewest` |
| `pager` | 2 connections, up to 3 pages, 13 scenarios | `AlwaysRecoverable`, `HotIsDead`, `PagerImplementsStore` (refinement of `SnapshotStore`) |
| `hand_over` | channels: four set-ups; a task with 2 executions and a canceller; I/O handler: 2 threads of 2 calls; fair | `AnswersOwnRequest`, `RequestsAnswered`, `StopEndsWorkers`; `KeepsSchedule`, `CancelSparesCommand`, `ShutdownEnds`; `NoEventAfterClose`, `OpsHandled` |
| `owner` | 3 acquirers in 2 processes, 4 inodes, 2 rounds, handle locks | `SoleOwner`, `DeletesOwnSidecar` |
| `worker` | 3 threads, 2 workers, 2 addresses, fair | `OneInChild`, `CarrierSleeps`, `ImplementsWorker`, `CallsReturn` |

Most modules also define a type invariant; the runs do not list it.

*Why the bounds are enough.* Three connections give a holder, a requester and a
bystander, three slots give overlapping ranges. Six openings let each of three
connections come back after a delete. Three acquirers are an old owner, a new one and
one that holds the unlinked inode; two rounds give a retry. With three threads one is
inside a worker, one waits for it and one stops it; two workers and two addresses
suffice for an address to go from one connection to another. Two managers are one that
closes the data source and one that opens or closes a connection meanwhile. A cache of one
under two texts evicts, three addresses let a freed one be used again, two parameters let a
call end half bound or give fewer values than the one before. The four texts are a single
write, two that commit by themselves, a transaction, and the ROLLBACK that ends one left
open. Four frames of two pages
hold a log, its restart and frames left over from the old one; three slots for readers
give mark 0, a mark in use and one to move. Four frames fill the first hash table and
go on in the second, and the two pages start at neighbouring slots so that chains meet
and wrap around. Two connections are what the log and the pager can be explored with;
behaviours that need three connections at once are not covered. Commits of two pages
meet two writers, the death of the process and the closing of the log; blocking
checkpoints and the power loss under a writer and a checkpointer are explored with
commits of one page (the power loss of closing connections and of a lone one with two). Two executions of
a task give one hand-over between threads. Two callers share one channel; the pool of
two channels has one caller, since liveness with two is too costly, but
`AnswersOwnRequest` is proved for any number of both.

Two runs end in a violation; each records a disagreement between the code and its own
comments (quoted under `findings` in `PROJECT.json`):

| Run | Property | What happens |
|---|---|---|
| `owner_posix` | `SoleOwner` | reading the token back closes a descriptor of the sidecar, which drops the lock |
| `data_source_race` | `OwnerLockLast` | `close` misses a connection that another thread is opening or closing |

Further deviations the models exhibit. Each is obtained by the change in the first
column, to the configuration or to the `INSTANCE` or alias in the MC module:

| Change | Fails | Code and what it says |
|---|---|---|
| `MCSqliteWorker.cfg`: INVARIANT `CancelsOwnStatement` | a cancel after close interrupts the next user of the address | `SqliteDataSource.kt:119`; line 116 promises a no-op |
| `MCSqliteWorker.cfg`: INVARIANT `OneInMain` | `cbPtrs` enters the main instance without `mainLock` | `JvmVfsRuntime.kt:124`; `BUILD.md:60` forbids it |
| `MCSqliteWorker.cfg`: INVARIANT `FailedSpawnReleases` | a failed open keeps its `sqlite3` object | `SqliteWorker.kt:127`; `sqlite3.h:3733` asks for `sqlite3_close` |
| `MCInProcess.cfg`: INVARIANT `RegionsInArena` | regions behind the end of the arena | `ShmArena.kt:25`; line 8 says "from the arena" |
| `MCInProcess.tla`: a third path in `MCPath` that `fileOf` maps to `main`; `R!OneRuntimePerFile` | two names of one file get two runtimes | `WorkerDbPort.kt:36`; line 416 says canonical path |
| `MCInProcess.cfg`: `SharedPort = TRUE` | `LivePortOnOpenRuntime`: two closes at once return two references | `WorkerDbPort.kt:405`; line 403 says idempotent |
| `MCFacades.tla`: `W!ReadersRecalled` | `close` stops a borrowed reader | `SqliteWal.kt:69`; line 67 says all are recovered first |
| `MCFacades.tla`: `W!ClosedByHolder` | a second `close` deletes a sidecar that is no longer its own | `SqliteWal.kt:72`; `DbOwnerLock.kt:37` says the lock is held |
| `MCStatements.cfg`: `SharedObject = TRUE` | `StepsOwnStatement`: an address in the registry is a new statement's | `SqliteWorker.kt:359`; line 158 calls it a guard |
| `MCHandOver.cfg`: `Watchdog = TRUE` | `AnswersOwnRequest`: after a time-out the next caller gets the late answer | `SqliteWalPool.kt:50`; line 35 calls the 30 s a mere watchdog |
| `MCHandOver.tla`: `H!AllHandlesClosed` | `prepareToDestroy` forgets a registration that another thread is canceling; its handle is not closed | `LoomIoHandler.kt:80`; no comment speaks of it |

`SqliteWorker.kt:250-251` calls a retry safe because BUSY and PROTOCOL come before the
transaction starts. `RetryEffects` states what is left of that for a text of several
statements, which goes to `sqlite3_exec`: when a later one is refused, those before it have
committed and are executed again, at most once per attempt. And when a write after a BEGIN
is refused, the second attempt meets the BEGIN inside the transaction that is still open,
so that `run` returns an error and leaves the transaction open.

`SqliteDataSource.openRuntime` gives back the owner lock when it fails but does not close the
runtime made at line 87 (`SqliteDataSource.kt:93-95`). It is the `abandoned` of
`NoLockLeak`: it keeps its memory and its descriptors, and has no port and no lock.

`ShmArena.dropFile` forgets, with the regions of a file `a`, those of a file whose name
begins with `a#` (`ShmArena.kt:35`); WalIndex has one file and does not show this.
The comment at `sqlite3.c:67642` says of `walFindFrame`: "Because the hash table is never
more than half full, the search is guaranteed to eventually hit an unused entry." That
is so of a table that stands still. A writer that rolls back and appends again while the
search is on its way may move the unused slots behind it each time, and after
`HASHTABLE_NSLOT` collisions the search returns `SQLITE_CORRUPT` (lines 71003-71018) with
nothing corrupt. `FindsSnapshotFrame` therefore allows that result, but only if slots were
cleared during the search (`r.undone`). Tables of 1 and 2 frames with 4 pages show it
(`MCWalHash.cfg`: `Page = {1, 2, 3, 4}`, `HASHTABLE_NPAGE = 2`, `HASHTABLE_NPAGE_ONE = 1`,
`MaxFrame = 3`, INVARIANT `r.pc # "SQLITE_CORRUPT"`).
`KeepsSchedule` excepts `shutdownNow`: its interrupt ends the sleep of a task without
cancelling it, and the command then runs before its time. A `cancel` of a delayed task
may return false although it cancelled the task, when the woken thread cancels it first
(`LoomScheduledExecutorService.kt:239`).

*Fairness.* A thread that can take its next step takes it (weak fairness per thread,
the scheduler's promise); a statement is assumed to end, as the comment on `stop`
does for its 60 s. Where a thread waits for a lock that others may take again and
again, the timed wait of `stop` is the step that is always possible, so weak fairness
is enough. No fairness is put on starting new calls. In LoomScheduledExecutorService
time passes and commands end; in LoomIoHandler the owner of the event loop keeps calling
`run()`.

## 4. Proofs

For every value of the constants, checked by TLAPS. A theorem in brackets states a
property that no run lists:

| Module | Theorems | Hypotheses |
|---|---|---|
| `Wal_proof` | `LogKeptForReaders` | |
| `WalHash_proof` | [`IndexTypes`], `EveryFrameReachable`, `SearchFindsNewest` | |
| `InProcess_proof` | lock table: [`LocksTypes`], `LocksSafe` (levels compatible), `SlotsRefineRwLock` (each slot implements `RwLock`); wal-index: [`IndexTypes`], [`IndexIsCoherent`], `IndexIsShared`, [`SingleWriter`]; registry: `RuntimeKeptForPorts`, `LocksReleased` | `RegistryConstants` for the registry |
| `SqliteWorker_proof` | [`WorkerTypes`], `ChildSerialised`, `NoEagerCall`, [`ClosuresRunOnOpenDb`], `WorkerContract` (implements `Worker`) | |
| `Facades_proof` | owner lock: [`OwnerTypes`], [`OnePerJvm`], `OneOwner`, `OwnSidecarDeleted`; data source: `ListedAreClosed`; reader pool: `ReadersConserved`, `ClosedLast` | `LocksLast` for `OneOwner` and `OwnSidecarDeleted`; `WalConstants` for the reader pool |
| `Statements_proof` | `StatementsHaveOneOwner`, `NoValueLeaks`, `NoUseAfterFinalize`; retries: `RetryIsSafe` | `OwnObjects` for the third; `Texts` for the retries |
| `HandOver_proof` | I/O handler: `ClosedHandleGetsNoEvent`; executor: `CommandIsSpared`, `ScheduleIsKept` | `TaskConstants` for the executor |
| `ConnWorker_proof` | `AnswerIsOwn` | `AnswersInTime` |

Assumptions on constants are the named `ASSUME`s of the modules (sentinels are not
members, sizes are natural numbers). The hypotheses in the last column are definitions
of the proof modules. Four of them only name constants: `RegistryConstants` (a port is
closed by one thread at a time, finitely many ports), `WalConstants` (the writer is a
worker), `Texts` (a text is not empty), `TaskConstants` (a task may run, its period is not
negative). The
others are the side of a case distinction on which the property holds; section 3 has the
counterexample of the other side:

- `LocksLast`: the OS lock belongs to the handle, or all acquirers are in one process
  (`owner_posix` has POSIX locks and two processes);
- `OwnObjects`: a statement object belongs to one thread (`SharedObject = TRUE`);
- `AnswersInTime`: the 30 s of `SqliteWalPool` do not run out (`Watchdog = TRUE`).

The arguments. None of the properties is inductive except the first:

- *Locks.* `LocksTypeOK /\ LevelsCompatible` is inductive once the caller is the pager,
  which never asks for less than it has and never for PENDING. A range operation
  acts on one slot as a single step or not at all, hence the refinement.
- *Wal-index.* `IndexAgreement` follows from coherence: a cached pointer is the
  registered one. That survives deletes because a deleter has EXCLUSIVE on the file
  while every cache belongs to a connection with SHARED, so the invariant joins
  both lock tables.
- *Write-ahead log.* `LogInv` says for every control point of a connection which locks
  it holds (`ReadLocks`, `WriteLock`) and how its header relates to the published one
  (`ReadersHeader`, `WritersHeader`). A reader that has checked its mark holds that slot
  shared; whoever moves a mark or starts a new log holds the slot exclusively, and the
  slots are reader/writer locks (`SlotsInv`). A writer's unpublished header continues
  the published one, or starts over while that one is empty; `Savepoints` keeps a rollback from going behind what is published. The proof
  first shows what a step does to the slots and to the headers of the others (`Apart`),
  then, action by action, what it does to its own connection. It needs no more of the
  constants than `SHM_NLOCK > 4`: one read lock beside the four fixed ones.
- *Frame index.* The code's argument, that a slot is free because a table has twice as
  many slots as frames, is a pigeon-hole over entries that are in one slot each (`Row`).
  `IndexedInv` strengthens `FramesReachable`: the chain to a frame runs over *older*
  frames only, so that clearing newer ones does not cut it. `AppendInv` says that past the
  frame being entered the table is empty, which the look at `aPgno[idx-1]` ensures after
  a writer that died. `SearchInv` says what a reader knows of the slots it has passed:
  no frame of its snapshot in them is newer than `iRead`; the writer moves no frame of a
  snapshot. The sizes of the tables need not be powers of two.
- *Registry.* Both properties need that the count of a path is the
  number of its ports that have not given their reference back, plus one for the port
  being spawned (`CountInv`). `PortInv` says who closes which port, `RegistryInv` that a
  path has an entry exactly while its count is not zero, and that the runtimes which were
  not abandoned are those of the entries and the one being opened (`rtOf`), each with the
  owner lock of its path. Six actions open, count or release, one lemma each; the others
  are shown to leave every holder alone (`QuietSteps`).
- *Owner lock.* An acquirer between `tryLock` and
  the check of the token may hold the lock of an unlinked inode. `JvmInv` is what the lock
  table of the JVM ensures within a process, on every platform; `HandleInv` what the OS adds
  between processes where a lock belongs to its handle. Together, or the first alone when
  there is one process, they exclude two holders of an inode (`HoldersExclude`). `PathInv`
  then ties the inode of an owner to the path: the token read back through the path is the
  acquirer's own only if the path still names the inode it has locked.
- *Worker.* The invariant has five parts: what a thread's control point implies, one
  spawner per child, the holder of a lock is inside, the futures tell where the carrier
  is, an open connection occupies its address. `WorkerContract` maps `live`, `closed`,
  `lock` to the states of `Worker`; the owners' modules rest on it.
- *Data source.* `MarkedInv`: a connection that is marked closed is closed, or some thread,
  not necessarily the one in `close`, is at its stop. `ListedInv`: a listed connection
  leaves `connections` only when it is closed, and the loop of `close` passes over it only
  when it is closed or marked. Both end with the first stop that fails (`SourceInv`).
- *Reader pool.* `ControlInv` keeps callers out before `open` has returned; `CloseInv`
  says which workers a closing thread has still to stop.
- *Statements.* `CacheInv`: no address is in the cache twice, and it is not over its
  limit. `HeapInv` adds who owns an address. `CallInv`: between calls every cached statement
  is unbound, so that the one being stepped has what its call has bound and NULL elsewhere;
  a statement of the user may have old values, but its call binds all. `ObjectInv`: the address of an object that is
  open or being finalized is in the registry, is nobody else's and has its text, and a
  submitted closure is on an object that was not closed since.
- *Retries.* `RetryInv` says of a call at its k-th statement how the counts relate: those
  before k are ahead of k's, the first is at most the number of attempts, the last is still
  zero; and when the text is one transaction whose BEGIN was executed, the connection is
  inside it, so that a second BEGIN fails.
- *Executor.* `ChainInv`: an execution begins when those before it are over.
  `InterruptInv`: an interrupt that is neither `shutdownNow`'s nor a `cancel(true)`'s hits
  a sleep that it cancels, and a cancelled sleep is not followed by the command.
  `SleepInv`: a sleep that is not cancelled ends at its mark. `MarkInv`: how many commands
  have begun and ended at each point of the k-th execution, and what its mark is.
- *I/O handler.* `HandlerInv`: only a canceled registration is queued for its close and
  closed, and the thread that closes is the one that tests `isValid`.
- *Channels.* `OwnersInv`: a channel has one owner, in the pool or a caller.
  `LifeInv`: nobody has the pool before it is open or once a channel is stopped.
  `BusyInv`: a request is in a channel only while its owner waits. `TurnsInv`: the request
  of the owner is posted, loaded, executed and answered in turn, as the words `req` and
  `done` tell. `OutcomeInv`: what the owner wrote or will read is its own.

A property of an executor, a registry or a pool is checked by its run through an
instance of the module; the theorem is about that same instance.

Only model-checked:

- every liveness property: fairness and ENABLED are out of the prover's reach;
- Wal: `CacheFresh`, `ImplementsStore`, `KillLosesNothing`, and Pager: `AlwaysRecoverable`,
  `HotIsDead`, `PagerImplementsStore`. Their invariants relate the contents of two files,
  the index and the device; `LogInv` is the part of that of Wal which speaks of locks and
  headers only;
- WalHashIterator: `IteratorReturnsNewest` is about a recursive merge sort, hence an
  induction over its input.

## 5. Not modelled

- Most of `sqlite3.c`: tokenizer, parser, code generator, VDBE, B-tree, built-in
  functions, FTS and R-tree; and `shell.c`. They are nine tenths and more of the C in
  the repository, unmodified SQLite, and sequential inside one connection. A model of
  them would be a transliteration; the models cover the layers where connections meet,
  a small share of the C lines.
- In Wal: I/O errors, `SQLITE_PROTOCOL` in `walRestartLog`, `journal_size_limit`,
  read-only and heap-memory wal-index, exclusive locking mode, three connections.
- In Pager: close, savepoints, super-journals, exclusive locking mode, MEMORY and OFF,
  temporary files, memory mapping, sectors larger than a page, a failed sync followed by
  a power loss; shrinking with a power loss in DELETE mode and in TRUNCATE mode without
  FULL, where nothing orders the two writes on the device.
- Time, except in LoomScheduledExecutorService: a wait with a limit may end at any moment
  at which its condition is false.
- The JDBC driver: `DB`, statements and result sets work under the monitor of one
  connection. Callbacks, bulk memory, the lock around WASI calls, the coroutine
  dispatcher and the socket handles: not yet.
- The application's Spring wiring, foreign-function bindings, reflection helpers and
  the commented-out copy of the WASI implementation: no state to check.
- JDBC metadata, configuration and date formatting: text without state.

## 6. Plan

1. Callbacks and the `WorkerDB` adapter that owns their keys; backup and restore of
   `WorkerDbPort`; the WASI lock against `JvmVfsRuntime.close`; bulk memory as operators
   checked against a byte-wise reference.
2. JDBC core: the monitor of `DB`, `SafeStmtPtr`, `executeBatch`, `ensureAutoCommit`;
   then statements, result sets, connections and pooled connections above it.
3. Savepoints in Pager; I/O errors and a third connection in Wal.
4. Proofs: `HotIsDead` of Pager; on top of `LogInv`, that Wal implements `SnapshotStore`.
