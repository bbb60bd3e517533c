# A verification project for mosbench

mosbench is a set of application benchmarks for multicore kernels: servers and
tools that were changed to scale (Postgres, Exim, memcached, Apache, gmake,
psearchy, Metis), load generators for them, and `mparts`, which runs the
experiments. Most of the tree is vendored code. What the repository adds of its
own, and what this project models, is concurrent code that its unit tests can
hardly reach: a scalable heavyweight lock for Postgres (`postgres/gsl`), the
change to Postgres' lock manager that uses it, the MapReduce library Metis, and
the experiment manager of `mparts` with its remote calls and its supervision of
processes.

Contents: [Inventory](#inventory) · [Modules](#modules-and-the-code-they-model) ·
[Runs](#runs) · [Fairness](#fairness) · [Proofs](#proofs) ·
[Findings](#findings) · [Not modelled](#not-modelled) · [Plan](#plan)

Paths below are relative to the repository; `lmgr/` stands for
`postgres/postgresql-8.3.9/src/backend/storage/lmgr/`.

## Inventory

### GSL, the scalable lock (`postgres/gsl/gsl-impl.h`, `gsl-header.h`)

*State.* Per lock: one atomic word `c` (a count of holders and a wait bit for each
mode), a mutex `queueLock`, a singly linked queue of waiting processes (`waiter`,
`waiterTail`, each process's `lockNext`) and `waitCounts`. Per process:
`wantMode`, `isUpgrade`, `waitHolding` (shared), `awaitedLock` and `holding`
(local).
*Operations.* `gslLockInit`, `gslAcquire` (blocking, or `dontWait`), `wake`,
`gslRelease`, `gslCancel`.
*Interaction.* Fast paths touch only the word, by compare-and-swap; slow paths
queue under `queueLock` and leave wait bits so that fast paths turn back. The
includer supplies the mutex, the sleep and the wakeup as macros: Postgres' LWLocks
and semaphores, or the test's scheduler.
*Hard.* A blocking request counts itself before it tests, and takes the count back
under the mutex; between the two a holder may release and see no wait bit. `wake`
grants on behalf of others, wakes before it unlinks, and skips upgrades.
*Correct when* conflicting modes are never held together; the word counts exactly
who holds what; the wait bits say exactly who waits; nobody is passed over by a
newcomer; nobody sleeps whose turn has come; every request is answered.

### Lock counters (`lc-int128*.h`, `lc-array.h`) and modes (`modes-pg.h`, `modes-rwsem.h`)

The word packs eight 16-bit fields into 128 bits; masks and shifts test "does a
mode that conflicts with mine, other than my own holds, have a holder or a waiter".
Correct when the packed arithmetic never carries between fields and the masks
answer what the unpacked counters would. The conflict tables are Postgres' eight
modes and a reader-writer table.

### checklock and parex (`checklock.c`, `parex.c`, `gsl-parex.[ch]`)

The lock's own test: two or three threads that acquire one or two modes and release
them, run by `parex`, a user-level scheduler that enumerates interleavings up to
a number of switches. `checkDeadlock` decides which stuck runs are expected.
Correct when every stuck run is one the rule names, and everything is released at
the end.

### Postgres' lock manager under `LOCK_SCALABLE` (`lmgr/lock.c`, `proc.c`, `gsl.c`)

*State.* The shared table of `LOCK` entries, each with a GSL lock and a pin count;
per backend `waitStatus` and a semaphore. *Operations.* `LockAcquire` (find and
pin the entry under the shared partition lock, or create it under the exclusive
one), `LockRelease`, `LockReleaseAll`, `CleanUpLock` (unpin, delete the entry if
nobody uses it), `ProcSleep`, `ProcWakeup`, `LockWaitCancel`. *Hard.* The entry is
unlocked between finding and using it; a pin is traded for a hold and back; the
collector reads pins and word one after the other; a process may be granted before
it gets to sleep. *Correct when* nobody uses a deleted entry, pins are exact, and a
wakeup is not forgotten.

### Metis (`metis/lib`)

*State.* A pool of threads (`ready`, `running` per thread), the phase, a shared
task counter, the split counter, a matrix of hash buckets (one row per mapper,
one column per reduce task), reduce buckets, the sort's arrays and barrier.
*Operations.* `mr_run_scheduler` runs sampling, map, reduce and merge as phases of
`mr_run_task`; pool threads poll for work; `psrs` is a parallel sort by regular
sampling whose stages a polled barrier keeps apart. *Interaction.* No locks: atomic adds on counters,
polled flags with fences, disjoint rows and columns of arrays. *Hard.* Reused flags
and a reused barrier word, counters that run past their limit, tables freed by one
thread while others copy, state that survives into the next job of the process.
*Correct when* a call returns, no thread of a phase survives it, no barrier is
passed early, and the results are exactly the pairs the mappers emitted, sorted.

### Metis collections (`keyvals_btree.c`, `keyvals_array.c`, `bsearch.c`)

*State.* A bucket of the store is a B+ tree: nodes with up to `2*order` keys
(leaves one more), parent pointers, leaves chained from left to right.
*Operations.* `pch_insert_kv` (a value for a key), `pch_insert_kvs` (a whole key),
iteration, `pch_shallow_free`; the binary searches `bsearch_lar` and `bsearch_eq`.
*Hard.* A split of an internal node hands children over to a new node and may
recurse up to a new root; a mistake in a pointer shows many insertions later.
*Correct when*, in whatever order keys come, the chain of leaves is sorted and
complete and every search ends in the right leaf.

### mparts (`mparts/*.py`)

*State.* Client: the next request id, the table of outstanding calls with a
wake-up pipe each, a send queue of size one. Server: a handler thread per request,
the table of objects, per process a lock, an exit code and a death pipe. Manager:
the tasks and their states. *Operations.* `Manager.run` (start, wait, stop, and
reset when anything raises); the hooks of the tasks; `_call`, the send and receive
loops, `close`; `RemoteHost.run`, `Process.wait`, `kill`.
*Interaction.* The hooks make calls, in the main thread or in `Async` threads, over
one pair of pipes; the server's methods fork processes and wait for them.
*Hard.* An interrupt in the middle of a call or of a hook; a server that dies; late
replies; two requests that wait for one process; processes that outlive the server.
*Correct when* a call is executed at most once and returns its own result or an
exception; `run()` comes back with every task stopped; nothing it started is left
behind; and when the server is gone its processes die.

`configspace.py`, `table.py` and `analyze.py` are pure functions over configurations
and results. Not modelled.

### The rest

psearchy's indexer (processes that share a file list and write disjoint files), the
memcached and Postgres load generators (I/O loops), micro benchmarks, scripts, and
vendored servers that run unchanged.

## Modules and the code they model

| Module | Models | Uses |
|---|---|---|
| `LockModes` | both conflict tables | |
| `ModeLock` | abstract: what any lock with modes promises | |
| `GSLLock` | the lock, with its queue, word and mutex | `ModeLock` |
| `LockWord` | the packed word beside the unpacked counters | `GSLLock` |
| `CheckLock` | `checklock` over the lock | `GSLLock` |
| `PgLock` | one lock table entry around the lock | `GSLLock` |
| `GSLLockProofs`, `GSLLockRefines`, `GSLQueueProofs` | theorems about the lock, its refinement, its queue | `GSLLock` |
| `CheckLockProofs`, `PgLockProofs` | theorems about the lock in use | `GSLQueueProofs`, `GSLLockProofs` |
| `Bsearch` | Metis' binary searches | |
| `KeyvalsBtree` | the B+ tree of the store | `Bsearch` |
| `PsrsSort` | the sort's pure parts: shares, pivots, sublists, merge | `Bsearch` |
| `Metis` | pool, scheduler, store and sort as one state machine | `PsrsSort`, `KeyvalsBtree` |
| `Calls` | abstract: what a remote call promises | |
| `Rpc` | `rpc.py`, client and server | `Calls` |
| `RemoteHost` | `server.py`: methods, processes, death pipes | `Rpc` |
| `Manager` | `manager.py`, `host.py` and the hooks of two benchmarks | `RemoteHost` |
| `MetisProofs` | theorems about the pool, the counters, the backup and the sort's barrier | `Metis` |
| `ManagerProofs`, `ManagerEndProofs` | theorems about the manager and its calls, its objects and its end | `Manager` |
| `MC*` | instances for TLC | |

**GSLLock.** An action is one access to the lock word, or one acquisition of
`queueLock`, with the work up to the next such access. That work touches only the
process's own fields, or fields `queueLock` protects while it is held. A
compare-and-swap retry loop is one atomic read-modify-write, which is what it
achieves when it succeeds. `wake`'s wakeup and unlinking are one action: the woken
process touches the queue only under `queueLock`, which the waker still holds.
An assert is a guard, so a process whose assert fails stops there, and a separate
invariant says that the asserted condition holds (`EntryAsserts`, `WakeAsserts`).
`lockNext[Head]` is `lock->waiter`, so that a link and the head are the same kind
of cell, as `gslProc_t **prevLink` makes them in the code; `waiterTail` is the cell
the next fair waiter is linked from. `OnQueue`, the processes the head leads to, is the
least set that is closed under the links. `Next` has every operation but the aborted
sleep; `CancelNext` adds `SleepAbort` and `gslCancel`, apart because their defects
(below) would hide what the rest of the lock guarantees. Statistics are left out.

**ModeLock.** The modes each process holds and asks for. `Acquire` requires that nobody
conflicts and nobody conflicting is pending (unless it is an upgrade), `Request`
makes a request pending, `Grant` serves one, `Release` drops a mode.

**LockWord.** The variable `c` is the packed word, updated by the same additions,
subtractions and masks as the code, modulo `2^(fields * width)`, in step with the
counters of `GSLLock` (which are the unpacked ones of `lc-array.h`).

**CheckLock.** `TestCase` is what `generateRun` enumerates for one thread. A state
in which no thread can run is parex's stuck run. The bound on switches is dropped:
TLC visits all interleavings.

**PgLock.** One tag. The entry's memory is one slot: deleting it leaves its
contents, creating it again runs `gslLockInit` on them and, as in the code, does
not reset the pin count. `queueLock` is the partition lock; the shared mode in
which `LockFind` looks up an entry is a step that needs it free. The semaphore
counts, `waitStatus` is separate from it, and `ProcSleep` runs its loop on both.

**Metis.** An action is one access to a flag or counter, or the work between two
such accesses, which stays in the thread's own row, column or slots
(`StagesSeparated` and `CopyComplete` check that it does). Fences and x86's store
order make flag accesses sequentially consistent here: each writer of a flag
fences before it polls another one. Polling loops over flags are guards. A bucket
is a B+ tree of `KeyvalsBtree`; each key carries how many values arrived (values
themselves are opaque). A put touches its column's tree only, so the keys of a split go
column by column, in their order (`put_column`), which is the same row. The application's hash is the key itself and its reduce
function emits one pair per key. The estimate of the number of keys, which only sizes the
tables, is any member of `Estimates`. The output array of the sort is `rbkts[0]`,
as in the code. Jobs follow one another in one process with the pool kept; the
model covers jobs that reduce or group, under the default `mr-conf.h`.

**KeyvalsBtree.** A tree is a value: its nodes are numbered in the order of their
allocation, keys and children of a node are two sequences, and an insertion is a
function from tree to tree with the code's recursion. Freeing drops the nodes and
keeps the stale root and count, as `pch_shallow_free` does.

**Rpc.** A client thread goes through `_call` in the steps between which another
thread may run: registration under `oLock`, the look at `sendQ` and the `put`, which may block, the
read of the wake-up pipe, and the two halves of the `finally` clause. The main thread
may be interrupted at each of them: inside the `try` the interrupt leads to `finally`;
after the registration and before the `try`, or in `finally` itself, it leaves the call at
once, with its entry in `outstanding` and its pipe as they are (before the registration it is the same
as an interrupt between two calls). The send loop takes the `None` of `close()` in one step and sets `sendQ`
to None in the next: a thread that was waiting for room puts its request into a queue that nobody
reads any more, and is answered at the end of the link, while a second such thread, for which there
is no room, waits for good, which keeps the script, but not `run()`, from its end. A call is named by its
request id. The server reads a request as soon as it is sent, since its loop does
nothing but start threads, and a handler's reply is written together with its
result; when the server ends, any suffix of the replies may be lost. The
assignment of an object id is two steps, because the code's is two statements.

**RemoteHost.** Each method is the handler's steps between its blocking points:
`run` opens the death pipe and forks in two steps, `wait` takes `waitLock` and
blocks in `waitpid`. Popen and the size of the table that follows it are one step.
A process ends by itself, on a signal, or when its death pipe has no writer; a
server's process may also fail. Its exit code is chosen when it is reaped.

**Manager.** A hook is a sequence of steps, each one call, one use of an `Async`
thread, or local work (rsync, parsing) that may fail; an exception ends the hook.
Interrupts come to the main thread, inside `_call`, between two
steps of a hook, or between two hooks. In the reset only the hook is inside the `try` statement: there the
interrupt is ignored and ends the hook (`InReset`); before the hook is called, and from its end to the
assignment of the state, it leaves `__reset` and `run()` with it (`Escape`), with the tasks that
are left as they are. The benchmarks are Apache's load (parallel clients, killed at the end),
memcached's server (a process that is polled, then killed) and memcached's load (a
build that is waited for, then parallel clients that end by themselves), each with
its Host. In the repository the last two share a manager; apart, they keep the
state space small, and they interact only through the manager's loops. One script
makes one `run()`, so the host is not connected before.

## Runs

Twelve runs; each passing run's properties have mutants that break them.

| Run | Instance | Distinct states | Result |
|---|---|---|---|
| `gsl` | 3 processes, 2 modes, each may hold both | 59,653 (up to symmetry) | holds |
| `gsl_word` | 3 processes, one mode each; 2-bit counts, liveness | 38,496 | holds |
| `gsl_tail` | upgrades | | `WakeAsserts` violated |
| `gsl_cancel_grant` | aborted sleeps | | `MutualExclusion` violated |
| `checklock` | 2 threads, 4 of Postgres' modes, every test case, liveness | 119,175 | holds |
| `pglock` | 3 backends, one entry, one mode each | 274,022 (up to symmetry) | holds |
| `pglock_wake` | the same | | `WakeNotForgotten` violated |
| `pglock_free` | the same | | `NoUseAfterFree` violated |
| `metis` | 2 CPUs, 2 jobs, sampled or not, 3 or 9 keys, trees of order 1, liveness | 78,750 | holds |
| `metis_sorted` | 2 CPUs, 1 job | | `ResultSorted` violated |
| `mparts` | 3 benchmarks, 2 load clients, 1 interrupt, crash of the server, liveness | 418,433 | holds |
| `mparts_oid` | Apache's load, 2 clients, no interrupt | | `ProxiesExact` violated |

What the properties say:

- *Lock* (`gsl`, `gsl_word`). `MutualExclusion`: no two processes own
  conflicting modes. `CountsExact`: the word counts each owner, each grant under
  way and each transient count once. `WaitBitsExact`: a wait bit is set exactly
  when somebody waits for the mode and no grant to it has happened.
  `QueueExact`: the queue from the head is exactly the waiting processes.
  `NoLostWakeup`: once everybody is outside the lock code or asleep, no request
  whose turn it is could be granted. `NoBarging`: no newcomer takes a mode past a queued
  conflicting request. `AcquireReturns`: every blocking request returns.
  `ImplementsModeLock`: the lock implements `ModeLock`.
  `EntryAsserts`, `WakeAsserts`: the code's asserts hold.
- *Word* (`gsl_word`). `WordExact`: the packed word is the packing of the counters.
  `TestsExact`: the masked tests agree with the tests on the counters.
- *Test* (`checklock`). `OnlyExpectedDeadlocks`, `NoConflictingLockHeld`,
  `CleanAtEnd`, and `Termination` of the cases that are not expected to deadlock.
- *Table* (`pglock`). `HoldersKeepEntry`: nobody who holds a mode or is inside
  `LockAcquire`, asleep without a pin included, loses the entry. `PinsExact`: the pin count is the number of processes that have pinned it.
  `MutualExclusion` again, now across deletions and re-creations.
- *Metis* (`metis`). `NoStragglers`: whoever works, works for the phase under
  way and on a task counter that is not freed. `CountersInRange`: the counters of
  splits and of reduce tasks pass their limits by at most one per thread.
  `StagesSeparated`: no thread works in a stage of the sort before all have
  finished the one before. `CopyComplete`: whoever copies from the buckets finds
  all the pairs that were counted. `BackupReady`: the assert of the rehash holds. `ResultExact`:
  the results have exactly the keys and counts the mappers emitted, over
  sampling, rehashing and the parallel sort. `TreesSound`: every tree of the store
  is sound in every state, and no key is rehashed into a tree that has it.
  `TreesExact`: all orders of inserting up to eight keys give a sound tree with just these keys (a
  reference check of the algorithm, evaluated in the initial states). `CallReturns`: each call returns.
- *mparts* (`mparts`). `ImplementsCalls`: the multiplexer implements `Calls`, at most
  one execution and one answer per call, its own. `PipesOpen`: the receive loop
  never writes to a pipe that its call has closed, and an entry it still has belongs to a call
  under way or to one that an interrupt ended. `NoneForgotten`: a waiting thread will be answered.
  `WaitExact`: whoever waited for a process is answered by its exit code.
  `AllStopped`: after `run()` all tasks are stopped and after an exception the
  connection is dropped, whatever the hooks of the reset raise; an interrupt that ends the reset outside its
  hooks leaves just the tasks that the reset had not come to. The docstring's
  promise, without that exception, does not hold (see [Findings](#findings)). `EndClean`: a `run()` that returns leaves no process
  running (where no id was given twice). `RunReturns`: `run()` returns or raises, or the send loop died with a full
  queue. `OrphansDie`: when the server is gone its processes end, unless two hold each other's death pipes.

*Bounds, and why they are enough.* Three processes are the fewest for a holder, a
waiter and a newcomer, or two waiters behind a holder; all defects found need three or
fewer, and two modes with the reader-writer table give self-compatible, conflicting
and self-conflicting requests. What holds for three is proved for any number where
a theorem says so. `MaxHeld = 2` allows every upgrade that two modes allow. In
`gsl_word` the counts are two bits wide, so that three holders fill a field: the
edge that 15 bits reach at 32767. `gsl_word` checks the queue's
shape and liveness with `MaxHeld = 1`: `gsl_tail` shows that upgrades break the one,
and two upgrades that block each other refute the other. What upgrades add to the
word's arithmetic, the subtraction of a process's own modes from the counts, is in
`TestsExact` for every idle process that holds a mode and one it does not hold. `pglock` allows one mode per
backend, since what is at stake is the entry's life. In `metis` nine keys are more
than `NCpus^3 = 8`, so that the parallel sort runs; the smaller inputs take the path
where the main thread sorts alone. With `Order = 1` a leaf holds three keys, four
leaves make three levels, and eight keys in one column are enough for a split of an
internal node (the code's order is 3; the algorithm is the same). The sampling threshold, table sizes and split
counts are small but pass through each branch. Three CPUs with 27 keys and one
job were also explored, without a violation; the run takes minutes and is not
kept. `PsrsSort` supports at most three CPUs: with four and the smallest inputs
the code searches in a range of negative length. In `mparts` two clients are the
fewest that can overlap; `MaxRid = 10` is more than the calls of the longest
benchmark, so the bound never stops a call; one interrupt and one crash come at any
point, in a hook or outside it, together with failing methods, failing local work and failing processes,
so that the reset is reached both ways and is interrupted itself.

*Deadlock.* TLC checks deadlock in `gsl_word`. In `gsl` two upgrades may block
each other, as checklock's rule expects; a test ends; a backend may sleep for good
(finding 3); a Metis process ends after its last job; a script ends.

## Fairness

- `gsl_word` (`AcquireReturns`): weak fairness of each process's own steps (a process
  that can run is scheduled), strong fairness of taking `queueLock` (parex's mutex hands over to
  its waiters in order; an LWLock queues its waiters too, but a newcomer may take it before the one it wakes up, so
  for Postgres this is an assumption about the scheduler as well),
  and weak fairness of releasing (a holder releases in the end, without which no lock
  can promise anything). Calls themselves are not fair: nobody must acquire.
- `checklock` (`Termination`): the same for the lock's steps; the test's own steps
  are weakly fair.
- `metis` (`CallReturns`): weak fairness of the library's steps taken together. Each
  flag is polled by a running thread, and in each reachable state some library
  step other than polling is enabled until the call returns. The application owes
  nothing.

- `mparts` (`RunReturns`, `OrphansDie`): weak fairness of the steps of the system
  taken together: client threads, handlers and processes that have something to do
  are scheduled, a signalled process ends, a program that ends by itself does.
  Interrupts, the crash of the server and failing processes are not fair: they may
  happen and need not.

## Proofs

TLAPS checks the theorems below for every value of the constants that satisfies
the named assumptions, where the runs check an instance.

| Module | Theorem | States |
|---|---|---|
| `GSLLockProofs` | `Invariance` | the inductive invariant `IInv` |
| | `TypeCorrect` | `TypeOK`: no count goes below zero, no link leaves the processes |
| | `Exclusion` | `MutualExclusion` |
| | `LockWordExact` | `CountsExact` |
| | `WaitBitsCorrect` | `WaitBitsExact` |
| | `EntryAssertsHold` | the asserts at the entry of `gslAcquire` and `gslRelease` |
| | `NoOvertaking` | `NoBarging` |
| `GSLLockRefines` | `Refinement` | `GSLLock` implements `ModeLock` |
| `GSLQueueProofs` | `WakeupsKept` | `NoLostWakeup`, with any nesting of upgrades |
| | `QueueCorrect` | `QueueExact`, where nobody upgrades (`MaxHeld = 1`) |
| | `WakeAssertsHold` | the asserts inside `wake`, where nobody upgrades |
| `CheckLockProofs` | `TestInvariance` | the inductive invariant `TestInv` |
| | `TestRunsTheLock` | every run of the test is a run of `GSLLock` |
| | `TestExclusion` | `NoConflictingLockHeld`, the check checklock makes |
| | `TestLeavesClean` | `CleanAtEnd` |
| | `NoDeadlock` | `OnlyExpectedDeadlocks`, without upgrades (`MaxHeld = 1 /\ ~Upgrades`) |
| `PgLockProofs` | `PgInvariance` | the inductive invariant `PgIInv` |
| | `PinsCorrect` | `PinsExact` |
| | `EntryKept` | `HoldersKeepEntry` |
| | `PgExclusion` | `MutualExclusion`, entries coming and going included |
| `MetisProofs` | `Invariance` | the inductive invariant of pool and barrier |
| | `NoThreadFallsBehind` | `NoStragglers` |
| | `BarrierSeparates` | `StagesSeparated` |
| | `SharesComplete` | `CopyComplete` |
| | `RehashFindsBackup` | `BackupReady`, where jobs of both kinds do not mix (`~MixedKinds`) |
| | `CountersBounded` | `CountersInRange` |
| `ManagerProofs` | `ManagerInvariance` | the inductive invariant `MIInv` |
| | `EverythingStopped` | `AllStopped` |
| | `PipesStayOpen` | `PipesOpen` |
| | `NoCallForgotten` | `NoneForgotten` |
| | `WaitsExact` | `WaitExact` |
| | `CallsRefinement` | the calls implement `Calls` |
| `ManagerEndProofs` | `ObjectInvariance` | the inductive invariant `ObjInv` of the objects |
| | `TypeCorrect` | `TypeOK`: every `wait`, `poll` and `kill` finds a process |
| | `EndInvariance` | the inductive invariant `EndInv` of the processes |
| | `NothingLeftRunning` | `EndClean` |

### Assumptions

- The lock: `ProcAssumption` (finitely many processes), `CellAssumption` (the null
  pointer, the head cell and processes differ), `ConflictsAssumption` (the table is
  symmetric and there is a mode). `LockModes` has Postgres's table; the proofs use
  no more of it than its symmetry.
- The queue: `QueueCorrect` and `WakeAssertsHold` are about processes that hold at
  most one mode, since the run `gsl_tail` shows both false with upgrades (finding 1).
- Metis: `NCpusAssumption`, at least one CPU, and of `MetisAssumption` that inputs are
  nonempty lists of splits and that the numbers of tasks are positive. `SortAssumption`,
  which limits the model of the sort's data to three CPUs, is cited by no proof: pool,
  counters and barrier do not depend on it. `RehashFindsBackup` is about processes whose jobs are
  all sampled or all not, since with `MixedKinds = TRUE` TLC shows it false.
- mparts: `RpcAssumption` and `ManagerAssumption`: thread 0 is the main thread, `1 .. N`
  are the Async threads, `N >= 1`; a benchmark is a nonempty list of the four task
  classes. The list of tasks, `N`, and the numbers of calls and interrupts are
  arbitrary, and so is the moment at which the server is lost.

### Arguments

*The lock.* `MutualExclusion` is not inductive: a fast path tests a counter, so the
counter must be exact (`CountInv`, over the map `Claim` from processes to what each
contributes to the word); a grant by `wake` tests the counter less what the waiter
recorded as held when it queued, so that record must still be true (`CallInv`);
`wake` grants to the process it finds on the list, so that must be one that really
waits, and only once (`ListInv`: links of queued processes lead to queued
processes, and no two to the same one); `wake` decides from `waitCounts` whether to
clear a bit, so these must be exact too; and the slow path runs alone
(`ControlInv`). `RankInv`, that some ranking orders the links, excludes
cycles. It is stated as a ranking instead of reachability because upgrades
leave waiters that the head no longer leads to (finding 1), and the theorems
hold of those states as well: even with the stale tail, the lock never gives
conflicting modes. The step lemmas come in pairs: what an action does to the maps
`Claim`, `Held`, `InQ` and pending (`...Maps`), and what it does to the structure
(`...Structure`); `IInvNext` has one case per action. `NoOvertaking` and
`Refinement` follow from `IInv` action by action.

*No lost wakeup.* When all processes rest, nobody will run `wake`, so the last
`wake` must have left every request whose turn it is blocked. `WalkInv` says it
while `wake` is on its way: there is a set of upgrade requests from the head to
the cursor (`Passed`) that are blocked, unless some process that does not rest will
come to `queueLock` and run `wake` again. `OrderInv`, fair requests come behind
upgrades, tells that nothing behind the first fair request has its turn. A step
either is calm (it takes no claim back, so blocked requests stay blocked:
`CalmStep`) or leaves somebody who does not rest (`LoudStep`). It holds even with the
stale tail, since a request off the queue has no turn.

*The queue.* Where nobody upgrades, `wake` never leaves the head, `waiterTail` is
the last process, and every queued process is linked from the head or from another
one (`FifoInv`). If some queued process could not be reached from the head, one of
least rank in `RankInv`'s ranking could not be reached either (`Least`, by
well-founded induction), but it is linked from a cell of smaller rank: so all are
(`AllReached`).

*The test.* `TestNext` with the invariant is a step of `GSLLock` or leaves it alone, so
the theorems about the lock carry over. Without upgrades, a stuck test would have
everybody asleep or done; then nobody claims a mode, the head of the queue is not
blocked, and `NoLostWakeup` is contradicted.

*The table entry.* The lock's `IInv` is reused: each step of `PgLock` is a step of the
lock, or leaves it alone, or makes it anew while nobody is inside (`EntryInv`). The
collector frees the entry when the count of pins is zero and the lock is idle; that
a sleeper, who has given its pin back, keeps the entry is `CollectInv`: at
that moment every acquirer left is asleep or holds the lock, and either one shows
in the word that the collector tests. `CallsInv` ties the place in `lock.c` to the place in
the lock.

*The pool and the barrier.* `PlaceInv`, `MainInv` and `WorkerInv` follow the hand-over: from the
moment the main thread has written a thread's routine to the moment the join sees its
`running` flag cleared, that routine is the one of the task in progress. `BarrierInv` relates the
status word to each CPU's stage and flag, and is needed for both halves of the barrier
(arriving and leaving), without which a fast CPU could see the flag of the round before.
`CopyInv` says that the buckets hold all counted pairs until the barrier after the copy.

*The counters and the backup.* A counter passes its limit only by the fetch of a thread that
then returns, and a thread that has returned does not fetch again in its phase
(`ReturnedKept`): so `CounterInv` bounds the excess by the number of threads that have returned, and
a fetch that adds to the one adds to the other. After sampling the counter restarts at the
number of sampled splits, which is never more than there are (`SampledFew`). `BackupInv` follows
a row of the backup: while sampling every thread has a row and `has_backup` is off; from the switch of
the tables until a thread has come past `kvst_map_worker_init` its row is still there, because no thread gets
there twice in one phase (`NotMappedKept`); and an unsampled job never sees `has_backup` set.

*mparts.* `FlowInv` is about the manager alone: `TaskInv` (how far the tasks are
taken), `ConnInv` (who still has to drop the connection), `MainInv` and `AsyncInv`
(which thread is in a call at which step). It rests on `TheHookGood`: every hook that a
class has starts its Async threads in its first steps and then syncs with each of
them, or has none. `CallsInv` is about the calls: `OwnerInv` (one thread per
call, and an entry or an answer for each thread that waits), `SendInv` (the server knows
nothing of a call that is not sent), `AnswerInv` (every reply, cell and outcome is the
handler's own result or an exception). `OidInv` and `TableInv` say that each object id in use is
in the table and how many there can be, so that every request finds its object.
`WaitInv` is what makes `WaitExact` inductive: the handler in `waitpid` has the
process's lock, so that nobody reaps it meanwhile. In the refinement a `Register` is
`Issue`, the handler's last step is `Execute`, and a refused call, a `NoPut` after `close()`, a `Read` and an interrupt
are `Return`; all else stutters. What an interrupt outside the `try` statements adds: a thread in `finally` has
its outcome already, so that a second interrupt there changes nothing that `Calls` sees (`OwnerInv`), and
the reset is left only by the step that ends `run()` (`TaskInv`: in the reset `failed` is not `"escaped"`).

*The objects.* `TypeOK` of mparts is not inductive: an id that two parallel calls both took is
stored twice, and which class the second store leaves there depends on who may have taken it.
`ObjInv` says who: the user root is stored first, by call 0, and nobody calls anything
else until it is (`ConnKinds`, `RequestKind`); every later id is above 1 and is a process's, in
the table, in a handler about to store it, in a proxy, in a request or a thread that carries
it and in a task's list (`TableKinds`, `HandlerKind`, `ThreadKind`). So a shared id (finding 6) still
names a process, if not always the right one. `DoneInv` and `SyncInv` are about the Async threads a
hook collects proxies from: each has returned and none raised.

*The end.* `EndInv` holds while `run()` has not raised. A process whose `run` call has returned is in its
task's list (`RunsInv`), unless the call is still under way in the main thread or in an Async thread that
the hook will collect. A task fills its list once, at the step `RecAhead` names, with no more
processes than its hooks wait for (`RecInv`). The wait in step `i` of a hook carries the id in place `i` of
the list (`ProcCallInv`) and its handler reaps the process that the table has for that id (`TargetInv`).
Together: once the wait is no longer ahead (`WaitAhead`), that process is reaped (`WaitedInv`). The last two are
about states where no two proxies share an id; `Stable` shows that an id once shared stays shared, so that
the steps before were not disturbed either. The steps of all hooks are
sorted into seven kinds (`ManagerKinds`) and those of the calls and the server into four (`StepKinds`);
each part of the invariant is proved kind by kind.

### Only model-checked

- Liveness: `AcquireReturns`, `Termination`, `CallReturns`, `RunReturns`, `OrphansDie`. Fairness
  is outside what the prover does.
- The packed word (`WordExact`, `TestsExact`): it uses bitwise operators.
- Of Metis, `TreesSound`, `TreesExact` and `ResultExact`: they say what recursive functions
  compute (the insertion in a tree, the merge), which takes induction over data. So does
  `TypeOK`, because of the sizes the sort computes (`total_len`, `partsize`); what the control
  depends on of it is proved with `Invariance` (`PoolTypes`).
- `OnlyExpectedDeadlocks` with upgrades, whose queue is not exact.

## Findings

1. **Stale tail** (`gsl_tail`). `wake` unlinks the last waiter without moving
   `waiterTail`; while an upgrade keeps the queue non-empty the next fair waiter is
   linked from a cell off the queue, is never found, and `wake`'s own assert fails.
2. **Cancel takes a null link for a grant** (`gsl_cancel_grant`). The last waiter of
   the queue has a null `lockNext` too.
3. **Forgotten wakeup** (`pglock_wake`). `ProcSleep` overwrites the status a grant
   before the sleep has set, and sleeps for good.
4. **Use of a deleted entry** (`pglock_free`). `CleanUpLock` reads the pins before the
   word; a releaser that goes from hold to pin in between is seen in neither.
5. **Unsorted results** (`metis_sorted`). `sublists` gives the search two elements
   too few. Compiled and run alone, the functions give the same order as the model.
6. **One object id for two processes** (`mparts_oid`). The id is the size of the
   object table, read in one statement and used in the next without a lock, while
   the benchmarks start their clients by parallel calls: a client's proxy may name
   the other client's process, which is then addressed twice, while its own runs on.

Seen on the way, without a run of its own: **an interrupted reset is not completed**. The
docstring of `__reset` says that tasks "are always put in the STOPPED state" and that
exceptions "will be printed and ignored" (`mparts/manager.py:135-138`), but only the call of the
hook (145) is inside its `try`: an interrupt in the loop or its messages (140-143), in `sys.excepthook` (147)
or before the state is set (148) leaves `__reset` and `run()`, the remaining tasks RUNNING and
the host connected. `AllStopped` makes the exception explicit (`failed = "escaped"`); without it,
TLC shows a server that crashes, a hook that raises, and an interrupt before the first reset hook.
Further: map-only jobs lose their results (`rbkts_set_elems`
has no caller); `has_backup` is not reset between jobs, so that an unsampled job
after a sampled one fails the rehash's assert (with `MixedKinds = TRUE`, TLC shows
it); `mthread_init` ignores a larger CPU count in a later job; with the
MAP_MERGE_REDUCE configurations the sort's `total_len` is recomputed by one
thread while others may still read it; `gslCancel` resets neither `awaitedLock` nor
the wait bit of the last waiter when it takes a request off the queue;
`btree_delete_level` frees all but the last child of each internal node; `close()`
hangs when the send loop died with a full queue, and two processes forked in
overlapping calls may keep each other alive (the exceptions that `RunReturns` and
`OrphansDie` name); `Process.wait` with `poll=True` blocks behind another wait;
`ConfigSpace.merge` removes duplicates per left term only.

## Not modelled

Map-only jobs and the compile-time alternatives of Metis, its array collections;
`LockWaitCancel` around `gslCancel` and more than one tag in Postgres; two-phase
commit and lock listing (they raise an error in this build); parex's own
path replay; in mparts a second `run()` on a connected host, the sudo connection,
captured output, system monitors, and the pure functions over configurations and
results; load generators, micro benchmarks and vendored code, which is nearly all
of the tree. `PROJECT.json` lists each part and the reason.

## Plan

Done: the lock with its abstraction, the packed word, the test, the table entry,
Metis from pool to sort on its B+ trees, mparts with the abstraction of its calls;
the theorems listed above for each of them. Next, in this order:

1. Abstract: a barrier that `psrs`'s status word implements; a pinned-object table
   that `PgLock` implements.
2. Extend: `LockWaitCancel` in `PgLock`, beside a corrected cancel that shows what
   a fix has to keep; map-only jobs; a second `run()` on a connected host.
