# ezthread in TLA+

ezthread is a C++ threading library for Windows: kernel synchronization objects,
condition variables, a thread pool, futures, barriers and latches, lock-free
containers, timers and work items, parallel algorithms, and some debugging aids
(`src/src/ezthread`). This directory holds a model of its logic: TLA+ modules
translated from the source, TLC configurations that check them on small instances,
and theorems that TLAPS proves for every value of the constants.

Paths below are relative to `src/src/ezthread`; the test is
`src/src/test/test_ezthread.cpp`. The repository's `readme.md` is empty, so comments,
assertions and the test are what the code is compared with.

* [1. The system](#1-the-system)
* [2. The modules](#2-the-modules)
* [3. The runs](#3-the-runs)
* [4. Fairness](#4-fairness)
* [5. What is proved](#5-what-is-proved)
* [6. Where the code and its intentions differ](#6-where-the-code-and-its-intentions-differ)
* [7. What is not modelled](#7-what-is-not-modelled)
* [8. Plan](#8-plan)

Run everything inside this directory: `tlc -workers 2 -config MCSync.cfg MCSync`,
`tlapm SyncProofs.tla`.

## 1. The system

| Component (source) | State | Operations | Interacts with | What is hard | What makes it correct |
|---|---|---|---|---|---|
| Thread pool (`pool.cpp`, `pool.hpp`) | task queue, pending count, stop and pause flags, list of threads | constructor, `Submit`, `SubmitDetached`, `ParallelFor`, `Pause`, `Resume`, `Stop`, destructor; `WorkerLoop` | futures (a task sets a promise), condition variable, threads | flags tested outside the lock, notification after unlock, shutdown against submission, failure to start a thread | each accepted task runs once, in order; the count means something; no wake-up is lost; `Stop` leaves nothing running |
| Futures and promises (`future.cpp`, `future.hpp`) | a shared cell: ready flag, value or exception | `SetValue`, `SetException`, `Get`, `TryGet`, `Wait`, `WaitFor`, `Then` | a detached thread per `Then`; the pool | racing setters, spurious wake-ups, timeouts racing the outcome, exceptions along a chain | one outcome, seen by all, handed down the chain; no sleeper is forgotten |
| Barrier, latch, once flag (`sync.cpp`, `sync.hpp`) | counters, a generation, a flag | `Wait`, `WaitFor`, `CountDown`, `CallOnce` | condition variable, critical section | reuse of the barrier, late timeouts, over-counting, a function that throws | a generation opens for its count only; the latch stays open; the function runs to its end once |
| Parallel algorithms (`sync.hpp`, `pool.cpp:48`) | per call: chunks, futures, partial results on the caller's stack | `ForEach`, `Reduce`, `Sort`, `ParallelFor` | pool and futures | rounding, tasks that refer to the caller's stack, throwing functions, a pool paused or stopped meanwhile | the result is the sequential one; no task outlives the call; the call ends |
| Lock-free containers (`atomic.hpp`) | rings of cells with sequence numbers, a linked list | `Push`, `Pop` of `SPSCQueue`, `MPMCQueue`, `LockFreeStack`; `Size` | - | every interleaving of single accesses, reuse of cells, refusals, two loads for one answer | an item comes out once, in order, from a cell nobody else is at; answers are true |
| Timers (`async.cpp`) | pool timer, context, running flag | `Start`, `SetOneShot`, `Stop`, moves, destructor; the callback | thread pool of Windows | callbacks that overlap, a context freed under them, flags of moved objects | the context outlives the callbacks; `IsRunning` false means quiet; `Stop` ends |
| Work items (`async.cpp`) | pool work, context, completion flag | `Submit`, `Cancel`, `Wait`, moves, destructor; the callback | thread pool of Windows | resubmission, cancellation racing the callback, a context that keeps the address of a moved object | complete means finished; no waiter is forgotten; `Cancel` waits before it frees |
| Async helpers (`async.hpp`) | per call: position, start time, flags | `Run`, `RunDetached`, `WaitAll`, `WaitAny` | futures, thread pool of Windows | futures get ready behind the loop's back, many waits with one timeout, clocks that wrap | an answer is true of the futures and of the clock |
| Critical section, mutex, RW lock, spin lock (`mutex.cpp`, `atomic.hpp:55`) | an owner and a depth, readers, a handle | `Lock`, `TryLock`, `Unlock`, shared forms, `OpenExisting`, moves | everything above | abandoned mutexes, timeouts, recursion | who was told it has the lock has it; a writer is alone; a handle has one owner |
| Condition variable (`condition.cpp`) | a wait set | `Wait`, `WaitFor`, `NotifyOne`, `NotifyAll` | critical section, RW lock | spurious wake-ups, a timeout that is ignored over a RW lock, the mode a lock comes back in | atomic release and sleep; the lock is back as it was |
| Event, semaphore (`event.cpp`, `semaphore.cpp`) | signalled state, count, a handle | `Set`, `Reset`, `Wait`, `IsSignaled`, `Acquire`, `TryAcquire`, `Release`, `OpenExisting`, moves | - | a query that consumes, a count at its limit | a signal goes to one caller; none is lost on a semaphore |
| Threads (`core.cpp`, `core.hpp`) | handle, the function on the heap | constructor, `Join`, `TryJoin`, `Detach`, moves, destructor | pool | start that fails, a move over a running thread, a `TryJoin` that fails | a running thread has one owner or was detached; the function lives as long as its thread |
| Thread-local storage (`tls.cpp`) | an index, a slot per thread, values on the heap | `Get`, stores through it, `HasValue`, destructor | - | indexes used again, threads that end, a slot that cannot be set | a thread finds what it put there itself, and nobody else gets at it |
| Debugging aids (`debug.cpp`) | owner of each lock, list per thread; start and end times | `OnLockAcquired`, `OnLockReleased`, `Enable`; `Start`, `Stop`, `Reset` | - | records made before they are searched, a switch between two reports, recursive locks | records agree with the locks held, up to the next release; times are not negative |

How they are layered: condition variables and critical sections carry futures, pool,
barrier, latch and work items; the pool and the futures together carry the parallel
algorithms; timers and work items stand on the thread pool of Windows, not on this one.

The behaviours that are hard to test are listed, line by line, under `hazards` in
`PROJECT.json`, with the property that watches each, or the reason there is none.

## 2. The modules

Conventions. A step of a model is what a thread does between two points at which
another thread can see or change shared state: an access to an atomic, a whole critical
section, a call of the operating system, a wake-up. Program counters (`wpc`, `cpc`, ...)
say where a thread is in a function. A sleep on a condition variable releases its lock
atomically; the thread is `asleep` until it is notified, wakes unprompted or times out,
and `woken` until it has the lock again. Values, exceptions, tasks and items are model
values. Definitions called "Faulty variant" are defective forms of the action that
follows each of them; no specification uses them, they are there to see that a property
notices the defect. Names in a model are the code's where that is possible.

### Thread pool

* **TaskExecutor** - what a pool promises: tasks start in the order of acceptance, once,
  one per slot; tasks are discarded only after the executor has closed, which happens
  when nothing runs.
* **ThreadPool** - the pool in detail. `taskQueue`, `pendingTasks`, `stopping`, `paused`,
  `workers`, `workerActive` are the members of the class; `queueOwner` is `m_queueMutex`
  where a critical section reads an atomic that others change (`WorkerInspect`,
  `WorkerClaim`, `WorkerSleep`); `ctor` follows the constructor and, when `CreateThread`
  fails, the unwinding that joins the threads already started. `WorkerLoop` is cut at
  `m_stopping` (145), `m_paused` (147), the lock (155), the wait (160), the claim (163),
  the activity list (171), the task, and the list again (181). `Submit` and
  `SubmitDetached` are one action (push and count under the lock) and a second step, the
  notification. `Stop` goes through `StopStage` line by line; a second `Stop` returns at
  once. The logs (`submitLog`, `claimLog`, `dropLog`, `finished`, `acceptedAtStop`,
  `overshoot`) are history; no action reads them.
* `ImplementsExecutor` maps the queue to `waiting`, the tasks held to `running`, the
  stages after the join to `closed`.

### Futures

* **OneShotChain** - cells filled once; a derived cell is filled after its parent, with
  the parent's exception if there is one.
* **Future** - shared states, setters, waiters, and the thread each `Then` starts.
  `Set` is the critical section of `SetValue` and `SetException`, with the exception for
  a cell already set; `SetNotifyAll` comes after the unlock. `Begin` and `Resume` are
  `Get`/`Wait` (a loop) and `TryGet`/`WaitFor` (one wait, no loop), `Timeout` and
  `SpuriousWake` what the condition variable may do. `Then`, `AwaitParent`, `Continue`,
  `ContinueNotifyAll` are the continuation. The `void` specialization has the same code.

### Barrier, latch, once flag

* **Callers** - the calling threads, and `NotifyAll` on a set of program counters.
* **Barrier** - `m_waiting`, `m_generation`; `Arrive` (the last one opens), `Recheck`,
  `Expire`, `GiveUp`. `m_waiting` has the width of `size_t`: it wraps modulo `Modulus`.
* **Latch** - `Lowered` is the decrement clipped at 0, `CountDown`, `Wait`, `Retest`.
* **OnceFlag** - the double-checked lock, access by access, with a function that may throw.
* **Sync** - these three and the eight classes below side by side. They share nothing, so a
  behaviour picks one at the start (`inUse`) and the run checks all at the cost of their
  sum.

### The classes that wrap an object of Windows

* **Lockable** - `CriticalSection`, `Mutex` and `SpinLock`, the locks with one owner.
  `AskForLock` and `GetLock` are a `Lock` that waits, `LockTimesOut` and `TryLock` its
  other forms; `EndThread` is a thread that ends, which leaves a `Mutex` abandoned. The
  next `Lock` owns it and throws (`inherited`). `guards` is history: what each thread was
  told.
* **SharedLock** - `RWLock`, and `ConditionVariable` over it: a thread gives the lock up in
  the mode it has (`SleepOnLock`) and gets it back in the mode of its flag (`GetBack`).
  `TimedSleepOnLock` is the same action: the timeout is not handed on.
* **Signal** - `Event` with automatic and manual reset, and `Semaphore`, made with any state
  the constructors take. `UseUp` is what a successful `WaitForSingleObject` does;
  `IsSignaled` contains it.
* **Handle** - how `Mutex`, `Event` and `Semaphore` own their handle. The code is the same in
  three files (`MutexLife`, `EventLife`, `SemaphoreLife`) but for `OpenExisting`, which
  leaves a handle behind in two of them (`leaked`), and in all three if the constructor
  inside it throws.
* **Joinable** - `Thread`: `StartThread`, `StartFails`, and the calls of one owner, which
  wait (`Join`, `TryJoin`, the destructor, a move over a thread) until `WaitEnds`.
* **ThreadLocal** - both classes: an index from `TlsAlloc`, a slot per thread, cells on the
  heap. A freed index is used again; `Replace` is a thread that ends, and a new one in its
  place. A `TlsSetValue` that fails deletes the cell and throws in the general class
  (`SetFails`); in the class for pointers it goes unnoticed (`SetUnchecked`), and
  `operator*` returns a reference to a cell in no slot (`orphans`). A store goes through
  any reference the thread has got (`StoreValue`, `Reachable`), those included.
* **DeadlockDetector** - `m_locks` and `m_threadLocks`, and what threads really hold. The
  test of `m_enabled` comes before `m_mutex` is taken and is a step of its own. `entered`
  counts how often a thread has a lock; the first release of a recursive lock erases its
  record (`RecordReleased`), and `forgotten` is the history of such locks.
* **Stopwatch** - `PerformanceCounter`, in ticks; a `ScopedProfiler` is one that is started
  and stopped once.

### Parallel algorithms

* **Chunks** - the arithmetic the three algorithms share, modulo 2^w.
* **Results** - how the results of chunks become one: `InOrder` joins them (`Reduce`),
  `Merged` is the merge of `Sort`, one turn of the loop of `sync.hpp:218` at a time
  (`Best`, `Pushed`); `Sorted` is what `std::sort` does. No state, no RECURSIVE operator.
* **ForkJoin** - `ParallelFor`, `Reduce`, `Sort` composed with a pool, of which it uses
  what `TaskExecutor` promises (`Pool == INSTANCE TaskExecutor`), so it holds of
  `ThreadPool` through `PoolImplementsExecutor`. A call is `Call`, then either `Inline`
  (at most one thread) or `SubmitChunk`..., `EndSubmit`, `AwaitChunk`..., `Return`. A
  chunk leaves its piece in `partial` and satisfies its promise (`ready`) in one step
  (`FinishChunk`, `FailChunk`): between the two nobody can look, since the caller reads
  `partial` only after the promise. `Reduce` is over the free monoid, so its result tells
  which elements went in, and in which order. `ForEach` is `ParallelFor` over positions.
  A call may throw in `Inline` and, in `Reduce` and `Sort`, while it combines (`Return`).
  Other threads pause, resume and stop the pool (`PausePool`, `ResumePool`, `BeginStop`;
  `mode` tells which flag is up). `EndStop` is what follows the join: the executor closes
  when nothing runs, and discards its queue. Between `BeginStop` and it the pool is neither
  open nor closed, and a waited `Stop` may leave it so for ever. A worker that has tested
  the flags before they went up may still start a task, so `StartChunk` does not look at
  them. `MaxThreads` stands for `m_config.maxThreads` in `ParallelFor` and for
  `hardware_concurrency()` in `Reduce` and `Sort`: an algorithm looks at one of them only.

### Lock-free containers

* **TakeOnceBuffer** - a bounded or unbounded queue or stack whose items leave once, to
  the consumer that took them.
* **Parties** - producers, consumers, items.
* **MPMCQueue** - the ring with sequence numbers: load of the position, load of the
  sequence, the compare-exchange (which may fail), access to the data, release store; and
  the two loads of `Size` (`SizeHead`, `SizeTail`). The two loads of `Empty` come in an
  order C++ leaves open, and `Empty` is not modelled.
* **SPSCQueue** - the ring with one cell kept empty, each side with its own index.
* **LockFreeStack** - the list; a weak compare-exchange that fails reloads the head; nodes
  popped are never freed, as in the code, and so never reused.
* **LockFree** - the three side by side, as in `Sync`.

The abstract operation takes effect at the compare-exchange (for the SPSC ring, at the
store of the index). Accesses are sequentially consistent; the orders the code asks for
are not weakened.

### Timers and work items

* **Timer** - one thread owns `Timer` objects and calls them, the callbacks run on threads
  of the Windows pool. Each `Start` makes one context and one pool timer, named by its
  number. `Stop` disarms (`BeginStop`), waits for the callbacks (`CloseTimer`), frees the
  context under `m_mutex` (`ResetContext`); `Start` and the move assignment begin with it.
  `Fire` is the external pool: an armed timer fires, a periodic one again before its
  callback has returned.
* **Work** - two `Work` objects and one owner: `Submit` and its failure, `Cancel` (which waits
  in `CloseWork`), moves and destruction, the callback in three steps, and threads in
  `Wait`. A context keeps the object that made it in `self`. A destructor and a move close
  without waiting; the contexts whose callback was still to come are in `dropped`, and what
  such a callback does is undefined and not followed.
* **WaitGroup** - `WaitAll` and `WaitAny` over a group of futures, with a clock. `WaitAll`
  is a `WaitFor` per future (`TestFuture`, then asleep until `WakeInGroup` or
  `ExpireInGroup`), each with the whole timeout; `WaitAny` is a pass of `IsReady`
  (`LookAtFuture`), a look at the clock (`EndPass`, where the difference is cut to the
  width of a `DWORD`) and a nap. `completed`, `answer` are what the call gives back;
  `fooled` and `readyBefore` are history.
* **Async** - the three side by side.

### Checking and proof modules

`MCThreadPool`, `MCFuture`, `MCSync`, `MCForkJoin`, `MCLockFree`, `MCAsync` extend the
module they check and define symmetry sets and small data. `ThreadPoolProofs`,
`FutureProofs`, `WrapperProofs` (lemmas on the classes that wrap an object), `SyncProofs`,
`AsyncProofs`, `LockFreeProofs`, `ResultsProofs` (on the operators of `Results`) and
`ForkJoinProofs` hold the theorems.

## 3. The runs

Deadlock checking is off where a system may really stop: each thread makes a bounded
number of calls, a latch may never be counted down, a pool may be destroyed.

| Run (configuration) | Instance | States | Properties |
|---|---|---|---|
| `pool_safety` (`MCThreadPool_safety.cfg`) | 2 workers, 2 clients, 3 tasks, symmetry | 36,326 | `TypeOK`, `TaskAccounting`, `PendingMatchesQueue`, `WaitedStopRunsAccepted`, `PauseOvershoot`, `ThrowsOnlyBeforeFirstWorker`, `NoWakeupLost`, `ImplementsExecutor` |
| `pool_liveness` (`MCThreadPool_liveness.cfg`) | 2 workers, 2 clients, 2 tasks, fair | 110,915 | `QueuedTaskServed`, `UnwaitedStopReturns` |
| `future` (`MCFuture.cfg`) | 1 promise, 2 setters, 1 waiter, 2 continuations, spurious wake-ups, fair | 27,671 | `TypeOK`, `OutcomesAreHonest`, `NoSleeperForgotten`, `ImplementsChain`, `SatisfiedReachesAll` |
| `sync` (`MCSync.cfg`) | 4 threads; barrier for 3, twice, with timeouts; latch of 3; function that throws up to twice; locks twice deep; semaphore up to 2; 3 wrappers of 4 handles; 3 `Thread` objects and threads; 2 thread-local objects; 2 locks watched, entered up to twice; symmetry | 290,602 | `TypeOK`, `NobodyLeftAsleep`, `NobodyPassesEarly`, `OpensOnlyForCount`, `LocksExclude`, `SignalsConserved`, `HandlesOwned`, `NoThreadLost`, `OwnValueOnly`, `DebugRecordsTrue` |
| `parallel` (`MCForkJoin.cfg`) | 2 callers, 2 workers, up to 3 chunks, 3 ranges, a pool paused and stopped, fair | 392,564 | `TypeOK`, `ResultIsSequential`, `NoChunkOutlivesCall`, `CallReturns` |
| `lockfree` (`MCLockFree.cfg`) | 2 producers, 2 consumers, 4 items, rings of 2, symmetry | 412,765 | `TypeOK`, `DataOwnedAlone`, `ImplementsBuffer`, `AnswersAreHonest` |
| `async` (`MCAsync.cfg`) | 2 timers, 3 starts, 2 overlapping callbacks; 2 work items, 2 submissions, 2 observers; groups of up to 3 futures, a clock to 6 with a `DWORD` of 4; fair | 426,717 | `TypeOK`, `ContextsOutliveCallbacks`, `NotRunningMeansQuiet`, `CompleteMeansFinished`, `NoObserverForgotten`, `VerdictsAreHonest`, `StopTerminates` |
| `pool_waited_stop` (`MCThreadPool_waitedstop.cfg`) | 1 worker, 1 client, 2 tasks, fair | violation | `WaitedStopReturns` |
| `future_spurious` (`MCFuture_spurious.cfg`) | as `future` | violation | `TimedTrueMeansReady` |
| `sync_timeout` (`MCSync_timeout.cfg`) | 3 threads, barrier for 2 | violation | `NeverHoldsCount` |
| `lockfree_capacity1` (`MCLockFree_capacity1.cfg`) | capacity 1 | violation | `MPMCImplementsQueue` |
| `async_oneshot` (`MCAsync_oneshot.cfg`) | 1 timer | violation | `DoneOneShotNotRunning` |

What the passing runs show, and why the bounds let the interesting cases happen:

* **pool_safety.** Two workers are what it takes to race for one task, and to have one in
  the queue's lock while the other tests a flag; three tasks keep two claimed and one
  queued when `Stop` comes; two clients let a submission, a pause or a second `Stop` fall
  into a `Stop` in progress. The constructor may fail before the first or the second
  thread. `TaskAccounting`: what was submitted is what was claimed, then dropped, then
  queued, and what was claimed is held or done. `NoWakeupLost`: while a worker sleeps,
  each queued task has a worker on its way or a notification to come, so the 100 ms
  timeout is never what saves a task.
* **pool_liveness.** `UnwaitedStopReturns` is the opposite case: `Stop`'s `NotifyAll` can
  fall between a worker's test and its sleep, and only the timeout ends the join.
* **future.** Two setters race; two continuations make a chain and a fork; a waiter with
  and without timeout. Wake-ups may be spurious throughout.
* **sync.** The fourth thread arrives for the next generation before the three of the
  first have left, with timeouts that elapse at any moment. `OpensOnlyForCount`: late
  timeouts delay the barrier, they never open it early. For the locks, two levels of
  recursion and owners that end at each make abandonment and inheritance meet
  (`LocksExclude`); over the RW lock, readers and a writer sleep and are woken together.
  Four signals against a semaphore of two run into its limit. Three wrappers are a move,
  its source and a bystander; four handles allow `OpenExisting` twice. Two thread-local
  objects share two indexes, so each is used again; three cells let one thread get a cell
  in no slot, then one in the slot, and store in both. The detector sees two threads at one
  lock only where locks are shared (`sharing`), and is switched on or off once at any
  moment. Locks are entered up to twice, so that one is released while its thread keeps it.
  `DebugRecordsTrue` says when a record is right, and contains that the detector never
  reports: see section 6.
* **parallel.** Ranges of four elements on three threads leave the last chunk empty for
  `ParallelFor` and `Reduce` (2+2+0); `<<1, 3>>` begins past 0; `<<3, 2>>` is empty;
  `Sort`, with a grain of two, splits four elements in two sorted pieces with an equal
  element in both. Calls race for two workers, and the pool may be paused, resumed and stopped under them;
  `CallReturns` is claimed of a pool that is neither stopped nor paused for good.
  `ResultIsSequential` asks for a function that has not thrown. `Reduce` is given an
  initial value that can be told from the elements: without it the result is the
  sequential one, and it is folded in once for each thread and once more.
* **lockfree.** Four items through rings of two use each cell twice, so the sequence
  numbers of a later round are exercised. `DataOwnedAlone` is what keeps plain data from
  being raced for; `AnswersAreHonest` says when `false` may be answered, and that `Size`
  counts every item inside and does not wrap.
* **async.** Three starts on two objects contain: a restart over a live timer, a move over
  a live timer, callbacks that overlap each other and a `Stop`. Two submissions on two
  works contain a resubmission, a move over a pending work and a `Cancel` after it.
  Three futures are enough
  for one that gets ready before, at and after the place of the loop; the clock passes
  the width of a `DWORD`, so that the difference `WaitAny` looks at wraps.
  `VerdictsAreHonest` says what an answer tells of the futures and of the clock: the
  timeouts of `WaitAll` add up, and a failing `WaitAny` saw none ready in a whole pass.
  (`WaitAny` has no infinite wait: `INFINITE` is its longest timeout, 2^32 - 1 ms.)

The implied claim that `completed` of `WaitAll` is true only for ready futures fails for
the same reason as run `future_spurious`: an unprompted wake-up (`fooled`).

Each property has a faulty variant under which TLC finds it violated (`mutants` in
`PROJECT.json`).

Named bounds: `MaxStarts`, `MaxOverlap`, `MaxSubmits`, `MaxFutures`, `MaxTime`, `MaxThrows`, `MaxStep`, `Rounds`,
`MaxThreads`, `MaxDepth`, `MaxRelease`, `MaxGiven`, `MaxHandles`, `MaxCells`, `MaxSharers`,
`MaxEntries`, `MaxToggles`, `MaxTicks`; everything else is bounded by each thread making finitely many calls.
`Modulus` is 2^w for the width w of `size_t`, 16 in the runs, which no count but the one
that wraps below 0 comes near; `TickModulus` is the same for the `DWORD` of a clock, and is
passed.

## 4. Fairness

Threads that can run do run: the operating system schedules preemptively. So weak
fairness is assumed of the rest of a call that has begun, of workers, of callbacks, and
of the timeout of a timed sleep; a mutex held is released, since every critical section
is finite. It is not assumed of beginning a call, of a spurious wake-up, of an exception,
nor of a timer that fires. In `ForkJoin` the fairness of the pool is that tasks end, and
that some worker starts the next as long as the pool is neither stopping nor paused
(`mode = "open"`), which is `QueuedTaskServed` of the pool in detail. Nothing is assumed of
a pool that is paused or whose `m_stopping` is up, nor that anybody resumes a pool or that
a `Stop` ends; and the function need not return normally. `CallReturns` therefore has
`<>[](mode = "open")` as its premise. No strong fairness is assumed anywhere.

## 5. What is proved

For any sets of threads, tasks, cells and values, by TLAPS:

* **ThreadPoolProofs.** `ControlInv` is the inductive core: the types, the owner of the
  lock is the worker at `claim` or `sleep` and the queue is not empty at `claim`
  (`LockInv`), a worker holds a task from claim to end (`HoldInv`), `m_stopping` goes
  with the stage of `Stop` and past the join all workers have left (`StopInv`), the count
  is the length of the queue before the reset (`CountInv`). `TypeOK` alone is not
  inductive: nothing in it says that the queue is not empty when a worker takes its head.
  On it rest `TypeCorrect`; `PauseIsBounded` (`PauseInv`: a worker that has overshot is
  back before the test of `m_paused`); `TasksAccounted` (`OrderInv`, `FreshInv`, `RunInv`:
  the head of the queue was never claimed before, as each task is submitted once);
  `PendingIsQueueLength`; `WaitedStopIsComplete` (`WaitInv`: past the poll all that was
  accepted was claimed); `WakeupsSuffice` (a counting argument over the finite sets of
  notifiers, claimants and sleepers); `ThrowIsSwallowed`; and the refinement
  `PoolImplementsExecutor`, step by step. `StrandedForEver` says why `pool_waited_stop`
  is violated: a waited `Stop` with a task queued that no worker was about to claim
  (`Stranded`) never leaves its poll, under any schedule. The state is the one in which
  the counterexample of that run ends.
* **FutureProofs.** `FutureTypeCorrect`, `OutcomesStayHonest` (from `PromiseSatisfiedOnce`
  and `GetIsExact`), `NotificationReachesSleepers`, `FutureImplementsChain`. And
  `TimedWaitNeedsNoSpuriousWakeups`: under `SpuriousWakeups = FALSE` the property that
  `future_spurious` violates holds, so that spurious wake-ups are its only cause.
* **SyncProofs**, on **WrapperProofs.** Each part has an inductive invariant of its own
  (`BarrierInv`, `LatchInv`, `OnceInv`, `LockableInv`, `SharedInv`, `SignalInv`,
  `HandleInv`, `JoinableInv`, `ThreadLocalInv`, `DetectorInv`, `StopwatchInv`), and
  `SyncInv` is their conjunction: a step of one part leaves the others alone. From it
  follow `SyncTypeCorrect`, `OpeningWakesAll`, `PassingTakesOpening`, `LocksAreExclusive`,
  `SignalsAreCounted`, `HandlesHaveOneOwner`, `ThreadsStayOwned`, `LocalsAreOwn` and
  `DebuggingIsExact`. What each adds to its property: that only a free mutex is abandoned;
  that a sleeper's flag is the mode it had; that an object that does not exist has no
  handle;
  that the object of a waiting call has a thread; that no two slots share a cell, nor a
  slot and a reference to a cell in none; that a report under way is about a lock its
  thread has, and how many of its acquisitions the detector has been told of; that a stopped watch ends after it
  began. `UntimedBarrierLetsGo`: with `Wait` alone a barrier never holds as many threads as
  it is for (the number of threads inside is `m_waiting`), so the late timeout is the only
  cause of what `sync_timeout` shows. With timeouts, `GenerationsAreFull` states
  `OpensOnlyForCount`: `TallyInv` counts the threads inside, those of earlier generations
  that have left since, and `m_waiting`, which is their difference, wrapped once at most.
  It assumes that threads and `Count` together are at most 2^w: with 3 threads, a barrier
  for 2 and a counter of three values, one that wraps does open early.
* **AsyncProofs.** `AsyncInv` is `TimerInv` (what the owner knows at each point of its call,
  that a pool timer and its context go together, that a one-shot timer fires once, and that
  the flag is up while a timer is not quiet), `WorkInv` (each pool work is held by one
  object; something will complete a `Work` that is not complete) and `GroupInv` (`WaitAll`
  has spent its timeout on each future it missed; none that `WaitAny` has passed was ready
  when the pass began). From it: `AsyncTypeCorrect`, `ContextsAreKept`,
  `StoppedTimersAreQuiet`, `CompletionIsTrue`, `ObserversAreRemembered`,
  `GroupVerdictsAreHonest`. `OnlyLateFlagsStay`: if the owner never raises `m_running` of a
  one-shot timer that is done already (`RaisedInTime`), `DoneOneShotNotRunning` holds, so
  that this is the only cause of what `async_oneshot` shows. `NoCallbackBeginsInStop` is the
  safety half of `StopTerminates`: what `Stop` waits for only gets less.
* **LockFreeProofs.** For the queue, `MPMCInv` ties the sequence number of every cell to
  the round of its position: each position between head and tail is either written
  (sequence pos + 1) or held by the one producer that claimed it, each of the `Capacity`
  positions after the tail is free (sequence pos) or held by the consumer of the round
  before (`CellInv`, `HolderInv`); what a thread has loaded is not ahead of what is there
  (`ViewInv`); the data of a published cell is what the abstract queue has at its place
  (`DataInv`). For the stack, `StackInv`: the list is the abstract stack, and a node that
  is being pushed or was popped is not on it; for the ring, `SPSCInv`. From these follow
  `LockFreeTypeCorrect`, `DataStaysOwned`, `AnswersStayHonest` and the refinement
  `ContainersAreBuffers`. All assume `Capacity > 1`: for one cell the sequence of a full
  cell is that of the next free one, which is what `lockfree_capacity1` shows.
* **ResultsProofs.** What the operators of `Results` compute for all sequences. The
  prover has no induction over data, so it is done by hand: a set of numbers that
  contains 0 and the successor of each of its members contains all (`UpTo`), since a
  non-empty set of naturals has a least element (`LeastElement`, from the library's
  `NatLessThanWellFounded`); that the recursive functions exist is `Iterated`.
  `SortedIsSorting`: `Sorted(s)` is the one sequence in order that has as many elements at
  most v as s, for each v. `PiecesMerged`: however a sequence is cut, its pieces, each
  sorted and then merged, are the sequence sorted. The loop keeps the result in order, no
  element of it greater than one still to come, and accounts for all elements at most v
  (`PushedIsMerge`). `PrefixedInOrder` is the same for `Reduce`: without the initial value
  the pieces joined are the sequence, and the initial value is there n + 1 times.
* **ForkJoinProofs.** `EveryIndexInOneChunk` is about `Chunks` alone: as long as no sum
  reaches 2^w, the chunks of a range are disjoint and cover it, and the loop that submits
  them meets no empty one before the last that holds an index. The invariant `IInv` says
  that a task is at one place of the pool and no longer there once its future is ready
  (`OncePerTask`), that there are tasks only of chunks that were submitted (`Numbered`),
  and that a caller in its second loop has passed ready futures only, all of them when the
  call is over (`Awaited`). From it: `NoChunkIsLeft`, also for a pool that is stopped
  during the call. `RInv` adds what chunks have computed: a chunk whose future is ready has
  left what a sequential loop over its data computes, and any other nothing (`Pieces`);
  the first chunk that was not submitted is empty (`SentAll`), so all after it are. It is
  inductive for any numbers, those that wrap around included, and gives
  `ForkJoinTypeCorrect`; `ResultsAreSequential` puts it together with `ResultsProofs`, for
  ranges that end at least the number of threads below 2^w (`NoWrap`) and an initial value
  of `Reduce` that can be told from the elements (`InitialApart`). `NoWrap` is needed: a
  range of 7 in 2 chunks modulo 8 rounds up to a chunk size of 0, and nothing is done.
  `AwaitedChunkIsServed` is the safety half of `CallReturns`: the chunk a call waits for is
  ready, waits or runs, unless `Stop` has come past its join (`NoChunkLost`).

Assumptions used: the named `ASSUME`s of the modules (the null values are not members of
the sets they stand outside of, workers, clients and threads are finitely many, bounds are
naturals, `Sort` is called on as many keys as there are). TLC evaluates them in every run.
What else a theorem assumes is in its statement: `SpuriousWakeups = FALSE`,
`Capacity > 1`, `Cardinality(Threads) + Count <= Modulus`, `NoWrap`, `InitialApart`,
`[]RaisedInTime`.

Every invariant and every action property the passing runs check is stated by a theorem,
and so is each refinement. Only model-checked: liveness under fairness
(`QueuedTaskServed`, `UnwaitedStopReturns`, `SatisfiedReachesAll`, `StopTerminates`,
`CallReturns`), which the prover does not treat.

## 6. Where the code and its intentions differ

1. **`Stop(true)` hangs** (`pool.cpp:106`; run `pool_waited_stop`). It raises
   `m_stopping`, then polls until the queue is empty; but workers stop claiming when they
   see the flag. With a task queued, neither `Stop()` nor the destructor returns.
2. **A pending count of 0 does not mean executed** (`pool.cpp:167`). It is lowered when a
   task is claimed; the test at 291-294 takes it for done. `PendingMatchesQueue` is what
   it does mean.
3. **A timed wait at a barrier counts off the wrong generation** (`sync.cpp:54`; run
   `sync_timeout`). A thread whose timeout expires just as its generation ends lowers
   `m_waiting` of the next one, or wraps it.
4. **A spurious wake-up makes a timed wait on a future answer true** (`future.cpp:89`; run
   `future_spurious`): `WaitFor` and `TryGet` wait once, without a loop.
5. **A queue of capacity 1 loses items** (`atomic.hpp:315`; run `lockfree_capacity1`).
   The `static_assert` admits it, but full and free then have the same sequence number.
6. **A one-shot timer can stay running** (`async.cpp:69`; run `async_oneshot`):
   `m_running` is raised after the timer was set and may have fired.
7. **A timeout over a RW lock is ignored** (`condition.cpp:47`): `WaitFor` passes
   `INFINITE`, so its `return false` is never reached.
8. **The deadlock detector never reports** (`debug.cpp:48-51`, 80): it makes the caller the
   owner of the lock and then looks for an owner other than the caller. That it never
   reports is part of `DebugRecordsTrue`, and proved.
9. **Thread-local values are not freed** (`tls.cpp:72`): nothing registers
   `DestructorCallback`.
10. **`OpenExisting` leaves a handle open** (`mutex.cpp:127`, `event.cpp:101`);
    `semaphore.cpp:88` closes it.
11. **An abandoned mutex is owned though `Lock` threw** (`mutex.cpp:86`), and a guard over
    it will not unlock.
12. **`~Work` and its move assignment free a context the callback may still use**
    (`async.cpp:122`, 133), unlike `Cancel`.
13. **A value stored in a thread-local pointer can be lost** (`tls.cpp:151`): `operator*`
    does not look whether `TlsSetValue` failed, and returns a reference to a cell that no
    later `Get` finds. `OwnValueOnly` excepts a thread this has happened to; what it says
    even then is that no other thread or object gets at the cell.
14. **The detector forgets a recursive lock at its first release** (`debug.cpp:63-74`): the
    record and every entry of the list go, though the thread still has the lock.
    `DebugRecordsTrue` states the record as it is: from a report that a lock was acquired
    to the next release.
15. **A `Work` that was moved is not completed** (`async.cpp:128`, 153): the context keeps
    the address of the old object.

Those without a run are exceptions the models make explicit (`leaked`, `inherited`,
`dropped`, `shifted`, `orphans`, `forgotten`), or parts of a property that holds.

## 7. What is not modelled

* Calls of the pool from its own tasks: `ParallelFor` inside a task, `Stop` on a worker's
  thread. `Stop` from a timer's own callback. `CallOnce` entered recursively.
* A `Submit` that throws after some chunks were handed in (no memory): the others then
  refer to a caller that is gone.
* Promises destroyed unsatisfied, moved-from futures, a `std::thread` that cannot be
  started. A waiter on such a promise sleeps for ever; there is no step to model.
* What a callback does with a context that `~Work` or a move has freed; a moved-from
  `Timer` destroyed while its context still points to it.
* Memory orders weaker than sequential consistency; memory itself (the stack leaks nodes).
* `Empty`, and `Size` of the SPSC ring, which read and change nothing.
* Parallel `Sort` with a comparator that is not a strict weak order; what is left when a
  function throws, of which no document says anything.
* The work items of `Run` and `RunDetached`, of which only the promise they satisfy matters
  here. A `Thread` that joins itself.
* `Atomic`, `MemoryBarrier`, `DebugPrint`, thread names, priorities and affinity: forwarded
  to the standard library or the operating system, with no state of their own.
* `CleanupIdleWorkers` is never called; `minThreads` is 0 by default, and such a pool runs
  nothing.

## 8. Plan

Done, in this order: the pool and its abstract executor; futures; barrier, latch, once
flag; lock-free containers; timers, work items and groups of futures; the fork-join
algorithms over the executor; the classes that wrap an object of Windows, the deadlock
detector and the stopwatch; moves and destruction of `Work`; proofs for all of these.

Left, in order of what they would add:

1. Theorems: what is below the other liveness properties, as `AwaitedChunkIsServed` is
   below `CallReturns` and `NoCallbackBeginsInStop` below `StopTerminates`; the direct
   statement that a waited `Stop` on a queue that stays empty is not kept in its poll.
2. Nested `ParallelFor` in `ForkJoin`, and `Stop` from a worker in `ThreadPool`.
3. Acquire and release orders in the lock-free containers.
