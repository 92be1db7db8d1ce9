------------------------------ MODULE ThreadPool ------------------------------
(***************************************************************************)
(* ezthread::ThreadPool (pool.hpp, pool.cpp): worker threads, the threads  *)
(* that call the pool, and the flags, lock and condition variable they     *)
(* share.  A step is what a thread does between two points where another   *)
(* thread can observe or change the shared state: an access to an atomic,  *)
(* a critical section of m_queueMutex, a wake-up, the end of a task.       *)
(* Critical sections that read m_stopping take several steps and keep the  *)
(* lock (queueOwner) in between; the others are one step.                  *)
(*                                                                         *)
(* A task is a model value.  Whether its function returns or throws is not *)
(* told apart: Submit's wrapper completes the promise in both cases and    *)
(* SubmitDetached's swallows the exception, so Execute always returns.     *)
(***************************************************************************)
EXTENDS Integers, Sequences, FiniteSets

CONSTANTS
    Workers,     \* the m_config.minThreads threads the constructor starts
    Clients,     \* the threads that call the pool
    Tasks,       \* the tasks they may submit, each at most once
    NoTask,      \* wtask[w] when worker w holds no task
    NoThread     \* queueOwner when m_queueMutex is free between steps

ASSUME TasksAssumption   == NoTask \notin Tasks
ASSUME ThreadsAssumption == NoThread \notin Workers
ASSUME FiniteAssumption  == IsFiniteSet(Workers) /\ IsFiniteSet(Clients)

VARIABLES
    taskQueue,      \* m_taskQueue
    pendingTasks,   \* m_pendingTasks
    stopping,       \* m_stopping
    paused,         \* m_paused
    queueOwner,     \* the worker inside m_queueMutex between two of its steps
    workers,        \* m_workers: the threads the pool still lists
    workerActive,   \* the listed workers whose m_workerActive entry is true
    ctor,           \* progress of the constructor
    wpc,            \* where each worker is in WorkerLoop
    wtask,          \* the local variable `task' of each worker
    cpc,            \* what each client is in the middle of
    stopStage,      \* progress of the one call of Stop that does the work
    waitForTasks    \* the argument of that call

\* What happened so far; no action reads these.
VARIABLES
    submitLog,      \* the tasks pushed on the queue, in order
    claimLog,       \* the tasks workers popped, in order
    dropLog,        \* the tasks Stop removed from the queue, in order
    finished,       \* the tasks that have been executed
    acceptedAtStop, \* Len(submitLog) when Stop raised m_stopping
    overshoot       \* tasks each worker claimed since m_paused was raised

queueVars  == <<taskQueue, pendingTasks, queueOwner>>
flagVars   == <<stopping, paused>>
listVars   == <<workers, workerActive, ctor>>
stopVars   == <<stopStage, waitForTasks, acceptedAtStop>>
logVars    == <<submitLog, claimLog, dropLog, finished, overshoot>>
workerVars == <<wpc, wtask>>
vars == <<queueVars, flagVars, listVars, stopVars, logVars, workerVars, cpc>>

WorkerPC  == {"unborn", "testStop", "testPause", "enter", "claim", "sleep",
              "asleep", "activate", "execute", "deactivate", "exited"}
ClientPC  == {"idle", "notifyOne", "notifyAll", "stop"}
StopStage == {"none", "notify", "drain", "take", "join", "clear", "reset", "done"}
CtorState == {"creating", "built", "unwinding", "destroyed"}

Elems(s) == {s[i] : i \in DOMAIN s}

TypeOK ==
    /\ taskQueue \in Seq(Tasks)
    /\ pendingTasks \in Nat
    /\ stopping \in BOOLEAN
    /\ paused \in BOOLEAN
    /\ queueOwner \in Workers \cup {NoThread}
    /\ workers \subseteq Workers
    /\ workerActive \subseteq workers
    /\ ctor \in CtorState
    /\ wpc \in [Workers -> WorkerPC]
    /\ wtask \in [Workers -> Tasks \cup {NoTask}]
    /\ cpc \in [Clients -> ClientPC]
    /\ stopStage \in StopStage
    /\ waitForTasks \in BOOLEAN
    /\ submitLog \in Seq(Tasks)
    /\ claimLog \in Seq(Tasks)
    /\ dropLog \in Seq(Tasks)
    /\ finished \subseteq Tasks
    /\ acceptedAtStop \in Nat
    /\ overshoot \in [Workers -> Nat]

Init ==
    /\ taskQueue = <<>> /\ pendingTasks = 0 /\ queueOwner = NoThread
    /\ stopping = FALSE /\ paused = FALSE
    /\ workers = {} /\ workerActive = {}
    /\ ctor = IF Workers = {} THEN "built" ELSE "creating"
    /\ wpc = [w \in Workers |-> "unborn"]
    /\ wtask = [w \in Workers |-> NoTask]
    /\ cpc = [c \in Clients |-> "idle"]
    /\ stopStage = "none" /\ waitForTasks = FALSE /\ acceptedAtStop = 0
    /\ submitLog = <<>> /\ claimLog = <<>> /\ dropLog = <<>>
    /\ finished = {}
    /\ overshoot = [w \in Workers |-> 0]

-----------------------------------------------------------------------------
(* The constructor.                                                          *)

\* One turn of the constructor's loop: the new thread runs at once.
CreateWorker(w) ==
    /\ ctor = "creating"
    /\ wpc[w] = "unborn"
    /\ wpc' = [wpc EXCEPT ![w] = "testStop"]
    /\ workers' = workers \cup {w}
    /\ ctor' = IF workers' = Workers THEN "built" ELSE "creating"
    /\ UNCHANGED <<queueVars, flagVars, workerActive, stopVars, logVars, wtask, cpc>>

\* CreateThread fails: the exception leaves the constructor, and the members
\* are destroyed, m_workers first.  ~ThreadPool, and so Stop, does not run.
CreateWorkerThrows ==
    /\ ctor = "creating"
    /\ ctor' = "unwinding"
    /\ UNCHANGED <<queueVars, flagVars, workers, workerActive, stopVars, logVars,
                   workerVars, cpc>>

\* Faulty variant: the threads are let go of, not joined.
UnwindDetach ==
    /\ ctor = "unwinding"
    /\ ctor' = "destroyed"
    /\ workers' = {} /\ workerActive' = {}
    /\ UNCHANGED <<queueVars, flagVars, stopVars, logVars, workerVars, cpc>>

\* ~Thread joins each thread that was started.
UnwindJoin ==
    /\ ctor = "unwinding"
    /\ \A w \in workers : wpc[w] = "exited"
    /\ ctor' = "destroyed"
    /\ workers' = {} /\ workerActive' = {}
    /\ UNCHANGED <<queueVars, flagVars, stopVars, logVars, workerVars, cpc>>

-----------------------------------------------------------------------------
(* WorkerLoop.                                                               *)

WorkerMoves(w, from, to) ==
    /\ wpc[w] = from
    /\ wpc' = [wpc EXCEPT ![w] = to]

WorkerTestStop(w) ==
    /\ WorkerMoves(w, "testStop", IF stopping THEN "exited" ELSE "testPause")
    /\ UNCHANGED <<queueVars, flagVars, listVars, stopVars, logVars, wtask, cpc>>

\* Faulty variant: break instead of continue.
WorkerTestPauseLeaves(w) ==
    /\ WorkerMoves(w, "testPause", IF paused THEN "exited" ELSE "enter")
    /\ UNCHANGED <<queueVars, flagVars, listVars, stopVars, logVars, wtask, cpc>>

\* A paused pool sends the worker back, after Sleep(1), to test m_stopping.
WorkerTestPause(w) ==
    /\ WorkerMoves(w, "testPause", IF paused THEN "testStop" ELSE "enter")
    /\ UNCHANGED <<queueVars, flagVars, listVars, stopVars, logVars, wtask, cpc>>

\* With m_queueMutex, just taken or given back by WaitFor, the worker tests
\* the queue and m_stopping.  It keeps the mutex when it goes on to claim a
\* task or to sleep; m_stopping can be raised before it does.
WorkerInspect(w) ==
    /\ queueOwner = NoThread
    /\ LET next == IF stopping THEN "testStop"
                   ELSE IF taskQueue = <<>> THEN "sleep" ELSE "claim"
       IN  /\ WorkerMoves(w, "enter", next)
           /\ queueOwner' = IF stopping THEN NoThread ELSE w
    /\ UNCHANGED <<taskQueue, pendingTasks, flagVars, listVars, stopVars, logVars,
                   wtask, cpc>>

\* Faulty variants: front() without pop(), and no fetch_sub.
WorkerClaimNoPop(w) ==
    /\ WorkerMoves(w, "claim", "activate")
    /\ wtask' = [wtask EXCEPT ![w] = Head(taskQueue)]
    /\ queueOwner' = NoThread
    /\ claimLog' = Append(claimLog, Head(taskQueue))
    /\ UNCHANGED <<taskQueue, pendingTasks, flagVars, listVars, stopVars, submitLog,
                   dropLog, finished, overshoot, cpc>>

WorkerClaimNoCount(w) ==
    /\ WorkerMoves(w, "claim", "activate")
    /\ wtask' = [wtask EXCEPT ![w] = Head(taskQueue)]
    /\ taskQueue' = Tail(taskQueue)
    /\ queueOwner' = NoThread
    /\ claimLog' = Append(claimLog, Head(taskQueue))
    /\ UNCHANGED <<pendingTasks, flagVars, listVars, stopVars, submitLog, dropLog,
                   finished, overshoot, cpc>>

\* The task leaves the queue and the pending counter together, and the mutex
\* is released; the task has not begun.
WorkerClaim(w) ==
    /\ WorkerMoves(w, "claim", "activate")
    /\ wtask' = [wtask EXCEPT ![w] = Head(taskQueue)]
    /\ taskQueue' = Tail(taskQueue)
    /\ pendingTasks' = pendingTasks - 1
    /\ queueOwner' = NoThread
    /\ claimLog' = Append(claimLog, Head(taskQueue))
    /\ overshoot' = [overshoot EXCEPT ![w] = IF paused THEN @ + 1 ELSE @]
    /\ UNCHANGED <<flagVars, listVars, stopVars, submitLog, dropLog, finished, cpc>>

\* SleepConditionVariableCS: release the mutex and join the wait set at once.
WorkerSleep(w) ==
    /\ WorkerMoves(w, "sleep", "asleep")
    /\ queueOwner' = NoThread
    /\ UNCHANGED <<taskQueue, pendingTasks, flagVars, listVars, stopVars, logVars,
                   wtask, cpc>>

\* Faulty variant: an unbounded Wait.
WorkerNeverTimesOut(w) == FALSE /\ UNCHANGED vars

\* The 100 ms of WaitFor elapse, or the condition variable wakes unprompted.
WorkerTimeout(w) ==
    /\ WorkerMoves(w, "asleep", "enter")
    /\ UNCHANGED <<queueVars, flagVars, listVars, stopVars, logVars, wtask, cpc>>

\* m_workerActive has no entry for a worker that Stop took off the list.
WorkerActivate(w) ==
    /\ WorkerMoves(w, "activate", "execute")
    /\ workerActive' = workerActive \cup ({w} \cap workers)
    /\ UNCHANGED <<queueVars, flagVars, workers, ctor, stopVars, logVars, wtask, cpc>>

WorkerExecute(w) ==
    /\ WorkerMoves(w, "execute", "deactivate")
    /\ finished' = finished \cup {wtask[w]}
    /\ wtask' = [wtask EXCEPT ![w] = NoTask]
    /\ UNCHANGED <<queueVars, flagVars, listVars, stopVars, submitLog, claimLog,
                   dropLog, overshoot, cpc>>

\* Faulty variant: back to the queue, past the tests of both flags.
WorkerDeactivateStays(w) ==
    /\ WorkerMoves(w, "deactivate", "enter")
    /\ workerActive' = workerActive \ {w}
    /\ UNCHANGED <<queueVars, flagVars, workers, ctor, stopVars, logVars, wtask, cpc>>

WorkerDeactivate(w) ==
    /\ WorkerMoves(w, "deactivate", "testStop")
    /\ workerActive' = workerActive \ {w}
    /\ UNCHANGED <<queueVars, flagVars, workers, ctor, stopVars, logVars, wtask, cpc>>

WorkerStep(w) ==
    \/ WorkerTestStop(w) \/ WorkerTestPause(w)
    \/ WorkerInspect(w) \/ WorkerClaim(w)
    \/ WorkerSleep(w) \/ WorkerTimeout(w)
    \/ WorkerActivate(w) \/ WorkerExecute(w) \/ WorkerDeactivate(w)

-----------------------------------------------------------------------------
(* The operations clients call.  A client that calls a pool has a pool: the  *)
(* constructor has returned.                                                 *)

Calls(c, to) ==
    /\ ctor = "built"
    /\ cpc[c] = "idle"
    /\ cpc' = [cpc EXCEPT ![c] = to]

\* Faulty variant: no fetch_add.
SubmitNoCount(c, t) ==
    /\ Calls(c, "notifyOne")
    /\ t \notin Elems(submitLog)
    /\ queueOwner = NoThread
    /\ taskQueue' = Append(taskQueue, t)
    /\ submitLog' = Append(submitLog, t)
    /\ UNCHANGED <<pendingTasks, queueOwner, flagVars, listVars, stopVars, claimLog,
                   dropLog, finished, overshoot, workerVars>>

\* Submit and SubmitDetached.  Neither looks at m_stopping.
Submit(c, t) ==
    /\ Calls(c, "notifyOne")
    /\ t \notin Elems(submitLog)
    /\ queueOwner = NoThread
    /\ taskQueue' = Append(taskQueue, t)
    /\ pendingTasks' = pendingTasks + 1
    /\ submitLog' = Append(submitLog, t)
    /\ UNCHANGED <<queueOwner, flagVars, listVars, stopVars, claimLog, dropLog,
                   finished, overshoot, workerVars>>

Sleepers == {w \in Workers : wpc[w] = "asleep"}

\* Faulty variant: a client that leaves out the wake-up.
SubmitNotifyNone(c) ==
    /\ cpc[c] = "notifyOne"
    /\ cpc' = [cpc EXCEPT ![c] = "idle"]
    /\ UNCHANGED <<queueVars, flagVars, listVars, stopVars, logVars, workerVars>>

\* WakeConditionVariable wakes one sleeper, if there is one.
SubmitNotifyOne(c) ==
    /\ cpc[c] = "notifyOne"
    /\ cpc' = [cpc EXCEPT ![c] = "idle"]
    /\ IF Sleepers = {}
       THEN UNCHANGED wpc
       ELSE \E w \in Sleepers : wpc' = [wpc EXCEPT ![w] = "enter"]
    /\ UNCHANGED <<queueVars, flagVars, listVars, stopVars, logVars, wtask>>

WakeAll == wpc' = [w \in Workers |-> IF w \in Sleepers THEN "enter" ELSE wpc[w]]

Pause(c) ==
    /\ Calls(c, "idle")
    /\ paused' = TRUE
    /\ overshoot' = IF paused THEN overshoot ELSE [w \in Workers |-> 0]
    /\ UNCHANGED <<queueVars, stopping, listVars, stopVars, submitLog, claimLog,
                   dropLog, finished, workerVars>>

Resume(c) ==
    /\ Calls(c, "notifyAll")
    /\ paused' = FALSE
    /\ overshoot' = [w \in Workers |-> 0]
    /\ UNCHANGED <<queueVars, stopping, listVars, stopVars, submitLog, claimLog,
                   dropLog, finished, workerVars>>

ResumeNotifyAll(c) ==
    /\ cpc[c] = "notifyAll"
    /\ cpc' = [cpc EXCEPT ![c] = "idle"]
    /\ WakeAll
    /\ UNCHANGED <<queueVars, flagVars, listVars, stopVars, logVars, wtask>>

-----------------------------------------------------------------------------
(* Stop.  The exchange on m_stopping lets one call through; any other, and   *)
(* the destructor's, returns at once, finished or not.                       *)

StopMoves(from, to) ==
    /\ stopStage = from
    /\ stopStage' = to

StopBegin(c, wait) ==
    /\ ~stopping
    /\ Calls(c, "stop")
    /\ stopping' = TRUE
    /\ waitForTasks' = wait
    /\ StopMoves("none", "notify")
    /\ acceptedAtStop' = Len(submitLog)
    /\ UNCHANGED <<queueVars, paused, listVars, logVars, workerVars>>

\* m_queueMutex is not held: a worker that has tested m_stopping but does not
\* sleep yet misses this wake-up.
StopNotifyAll ==
    /\ StopMoves("notify", "drain")
    /\ WakeAll
    /\ UNCHANGED <<queueVars, flagVars, listVars, waitForTasks, acceptedAtStop,
                   logVars, wtask, cpc>>

\* Faulty variant: no polling.
StopDrainSkipped ==
    /\ StopMoves("drain", "take")
    /\ UNCHANGED <<queueVars, flagVars, listVars, waitForTasks, acceptedAtStop,
                   logVars, workerVars, cpc>>

\* The loop that polls m_pendingTasks, when the caller wants the tasks done.
StopDrain ==
    /\ waitForTasks => pendingTasks = 0
    /\ StopMoves("drain", "take")
    /\ UNCHANGED <<queueVars, flagVars, listVars, waitForTasks, acceptedAtStop,
                   logVars, workerVars, cpc>>

StopTakeWorkers ==
    /\ StopMoves("take", "join")
    /\ workers' = {} /\ workerActive' = {}
    /\ UNCHANGED <<queueVars, flagVars, ctor, waitForTasks, acceptedAtStop,
                   logVars, workerVars, cpc>>

\* Faulty variant: the threads are let go of, not joined.
StopDetach ==
    /\ StopMoves("join", "clear")
    /\ UNCHANGED <<queueVars, flagVars, listVars, waitForTasks, acceptedAtStop,
                   logVars, workerVars, cpc>>

\* The workers just taken are all there ever were.
StopJoin ==
    /\ \A w \in Workers : wpc[w] = "exited"
    /\ StopMoves("join", "clear")
    /\ UNCHANGED <<queueVars, flagVars, listVars, waitForTasks, acceptedAtStop,
                   logVars, workerVars, cpc>>

StopClearQueue ==
    /\ queueOwner = NoThread
    /\ StopMoves("clear", "reset")
    /\ dropLog' = dropLog \o taskQueue
    /\ taskQueue' = <<>>
    /\ UNCHANGED <<pendingTasks, queueOwner, flagVars, listVars, waitForTasks,
                   acceptedAtStop, submitLog, claimLog, finished, overshoot,
                   workerVars, cpc>>

\* m_pendingTasks is reset without m_queueMutex, and Stop returns.
StopReset ==
    /\ StopMoves("reset", "done")
    /\ pendingTasks' = 0
    /\ stopping' = TRUE
    /\ \E c \in Clients : /\ cpc[c] = "stop"
                          /\ cpc' = [cpc EXCEPT ![c] = "idle"]
    /\ UNCHANGED <<taskQueue, queueOwner, paused, listVars, waitForTasks,
                   acceptedAtStop, logVars, workerVars>>

StopStep == StopNotifyAll \/ StopDrain \/ StopTakeWorkers \/ StopJoin
            \/ StopClearQueue \/ StopReset

-----------------------------------------------------------------------------
\* A client's step inside a call it has begun, and the steps that begin one.
ClientStep(c) == SubmitNotifyOne(c) \/ ResumeNotifyAll(c)

ClientCall(c) ==
    \/ \E t \in Tasks : Submit(c, t)
    \/ Pause(c) \/ Resume(c)
    \/ \E wait \in BOOLEAN : StopBegin(c, wait)

CtorStep == (\E w \in Workers : CreateWorker(w)) \/ CreateWorkerThrows \/ UnwindJoin

Next ==
    \/ CtorStep
    \/ \E w \in Workers : WorkerStep(w)
    \/ \E c \in Clients : ClientStep(c) \/ ClientCall(c)
    \/ StopStep

Spec == Init /\ [][Next]_vars

\* The operating system runs every thread that can run: workers, the rest of
\* a call that has begun, the constructor.  No client has to make a call.
FairSpec ==
    /\ Spec
    /\ WF_vars(CtorStep)
    /\ \A w \in Workers : WF_vars(WorkerStep(w))
    /\ \A c \in Clients : WF_vars(ClientStep(c))
    /\ WF_vars(StopStep)
-----------------------------------------------------------------------------
(* Properties.                                                               *)

Held == {wtask[w] : w \in Workers} \ {NoTask}
Claimed == Elems(claimLog)

\* Submission order is claim order, and no task is lost, duplicated or run by
\* two workers: what was pushed is what was popped by workers, then what Stop
\* dropped, then what is queued; what was popped is being held or has run.
TaskAccounting ==
    /\ submitLog = claimLog \o dropLog \o taskQueue
    /\ Claimed = Held \cup finished
    /\ Held \cap finished = {}
    /\ \A v, w \in Workers : v # w /\ wtask[v] # NoTask => wtask[v] # wtask[w]

\* GetPendingTaskCount is the length of the queue, seen between critical
\* sections, until the reset at the end of Stop; after it the counter can
\* only be too small, by the tasks submitted between the two.
PendingMatchesQueue ==
    CASE stopStage = "done"  -> pendingTasks <= Len(taskQueue)
      [] stopStage = "reset" -> pendingTasks = Len(dropLog) + Len(taskQueue)
      [] OTHER               -> pendingTasks = Len(taskQueue)

\* Once a Stop that waits has joined the workers, every task submitted before
\* it raised m_stopping has been executed, although workers stop claiming
\* tasks as soon as they see the flag.
WaitedStopRunsAccepted ==
    stopStage \in {"clear", "reset", "done"} /\ waitForTasks =>
        \A i \in 1..acceptedAtStop : submitLog[i] \in finished

\* Pause is not immediate: a worker past its test of m_paused, asleep on the
\* condition variable for instance, still claims a task, but only one.
PauseOvershoot == \A w \in Workers : overshoot[w] <= 1

\* When the constructor throws, ~ThreadPool does not run, so m_stopping stays
\* down and ~Thread waits for a worker that loops: the exception reaches the
\* caller only if the very first thread could not be created.
ThrowsOnlyBeforeFirstWorker ==
    ctor = "destroyed" => \A w \in Workers : wpc[w] = "unborn"

\* The clients between a push and its notification, and the workers that test
\* the queue again before they sleep.
Notifiers == {c \in Clients : cpc[c] = "notifyOne"}
Claimants == {w \in Workers : wpc[w] \in {"enter", "claim"}}

\* Submit notifies after it released the mutex, and one sleeper at a time.
\* While a worker sleeps, every queued task has its own worker on the way to
\* it or a notification still to come: no wake-up is lost or wasted, and none
\* of them needs the 100 ms timeout.
NoWakeupLost ==
    ~stopping /\ Sleepers # {} =>
        Len(taskQueue) <= Cardinality(Notifiers) + Cardinality(Claimants)

\* The pool is a TaskExecutor that closes when Stop has joined its workers.
Executor == INSTANCE TaskExecutor WITH
    Slots <- Workers, waiting <- taskQueue, running <- wtask, completed <- finished,
    closed <- stopStage \in {"clear", "reset", "done"}

ImplementsExecutor == Executor!Spec

\* A pool that is neither stopped nor paused for ever runs what it accepts.
QueuedTaskServed ==
    <>[](~stopping /\ ~paused) =>
        \A t \in Tasks : (t \in Elems(submitLog)) ~> (t \in finished)

\* A Stop that does not wait for the tasks returns.  Its NotifyAll can come
\* between a worker's test of m_stopping and its sleep; the timeout of that
\* sleep is what ends it.
UnwaitedStopReturns ==
    (stopStage = "notify" /\ ~waitForTasks) ~> (stopStage = "done")

\* pool.hpp:82 and the destructor offer a Stop that waits for the tasks.
WaitedStopReturns ==
    (stopStage = "notify" /\ waitForTasks) ~> (stopStage = "done")
=============================================================================
