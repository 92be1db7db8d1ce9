--------------------------- MODULE ThreadPoolProofs ---------------------------
(***************************************************************************)
(* What ThreadPool guarantees for any number of workers, clients and       *)
(* tasks.  ControlInv is the inductive invariant about locks, program      *)
(* counters and the counter; LogInv adds what happened so far to it.       *)
(***************************************************************************)
EXTENDS ThreadPool, SequenceTheorems, FiniteSetTheorems, TLAPS

\* m_queueMutex is held by the worker that is about to claim or to sleep, and
\* there is a task to claim until it has done so.
LockInv ==
    \A w \in Workers :
        /\ queueOwner = w <=> wpc[w] \in {"claim", "sleep"}
        /\ wpc[w] = "claim" => taskQueue # <<>>

\* A worker holds a task from its claim to the end of the task.
HoldInv == \A w \in Workers : wtask[w] # NoTask <=> wpc[w] \in {"activate", "execute"}

\* m_stopping is raised by the first step of Stop, and past the join every
\* worker has left WorkerLoop.
StopInv ==
    /\ stopping <=> stopStage # "none"
    /\ stopStage \in {"clear", "reset", "done"} => \A w \in Workers : wpc[w] = "exited"

CountInv == stopStage \notin {"reset", "done"} => pendingTasks = Len(taskQueue)

ControlInv == TypeOK /\ LockInv /\ HoldInv /\ StopInv /\ CountInv

-----------------------------------------------------------------------------
LEMMA ControlInit == Init => ControlInv
  <1> SUFFICES ASSUME Init PROVE ControlInv
    OBVIOUS
  <1> USE TasksAssumption, ThreadsAssumption DEF Init
  <1>1. TypeOK
    <2>1. /\ ctor \in CtorState /\ stopStage \in StopStage
          /\ queueOwner \in Workers \cup {NoThread}
          /\ workers \subseteq Workers /\ workerActive \subseteq workers
      BY DEF CtorState, StopStage
    <2>2. /\ stopping \in BOOLEAN /\ paused \in BOOLEAN /\ waitForTasks \in BOOLEAN
          /\ pendingTasks \in Nat /\ acceptedAtStop \in Nat /\ finished \subseteq Tasks
      OBVIOUS
    <2>3. /\ wpc \in [Workers -> WorkerPC] /\ wtask \in [Workers -> Tasks \cup {NoTask}]
          /\ cpc \in [Clients -> ClientPC] /\ overshoot \in [Workers -> Nat]
      BY DEF WorkerPC, ClientPC
    <2>4. /\ taskQueue \in Seq(Tasks) /\ submitLog \in Seq(Tasks)
          /\ claimLog \in Seq(Tasks) /\ dropLog \in Seq(Tasks)
      BY EmptySeq
    <2>5. QED
      BY <2>1, <2>2, <2>3, <2>4 DEF TypeOK
  <1>2. LockInv /\ HoldInv
    BY DEF LockInv, HoldInv
  <1>3. StopInv /\ CountInv
    BY DEF StopInv, CountInv
  <1>4. QED
    BY <1>1, <1>2, <1>3 DEF ControlInv

LEMMA WorkerKeepsControl ==
  ASSUME ControlInv, NEW w \in Workers, WorkerStep(w)
  PROVE  ControlInv'
  <1> USE TasksAssumption, ThreadsAssumption
      DEF ControlInv, TypeOK, LockInv, HoldInv, StopInv, CountInv, WorkerPC,
          WorkerMoves, queueVars, flagVars, listVars, stopVars, logVars
  <1>1. CASE WorkerTestStop(w)
    BY <1>1 DEF WorkerTestStop
  <1>2. CASE WorkerTestPause(w)
    BY <1>2 DEF WorkerTestPause
  <1>3. CASE WorkerInspect(w)
    BY <1>3 DEF WorkerInspect
  <1>4. CASE WorkerClaim(w)
    BY <1>4 DEF WorkerClaim
  <1>5. CASE WorkerSleep(w)
    BY <1>5 DEF WorkerSleep
  <1>6. CASE WorkerTimeout(w)
    BY <1>6 DEF WorkerTimeout
  <1>7. CASE WorkerActivate(w)
    BY <1>7 DEF WorkerActivate
  <1>8. CASE WorkerExecute(w)
    BY <1>8 DEF WorkerExecute
  <1>9. CASE WorkerDeactivate(w)
    BY <1>9 DEF WorkerDeactivate
  <1>10. QED
    BY <1>1, <1>2, <1>3, <1>4, <1>5, <1>6, <1>7, <1>8, <1>9 DEF WorkerStep

LEMMA CtorKeepsControl ==
  ASSUME ControlInv, CtorStep
  PROVE  ControlInv'
  <1> USE DEF ControlInv, TypeOK, LockInv, HoldInv, StopInv, CountInv, WorkerPC, CtorState,
              queueVars, flagVars, stopVars, logVars, workerVars
  <1>1. ASSUME NEW w \in Workers, CreateWorker(w)
        PROVE  ControlInv'
    BY <1>1 DEF CreateWorker
  <1>2. CASE CreateWorkerThrows
    BY <1>2 DEF CreateWorkerThrows
  <1>3. CASE UnwindJoin
    BY <1>3 DEF UnwindJoin
  <1>4. QED
    BY <1>1, <1>2, <1>3 DEF CtorStep

LEMMA ClientKeepsControl ==
  ASSUME ControlInv, NEW c \in Clients, ClientStep(c) \/ ClientCall(c)
  PROVE  ControlInv'
  <1> USE ThreadsAssumption
      DEF ControlInv, TypeOK, LockInv, HoldInv, StopInv, CountInv, WorkerPC, ClientPC,
          StopStage, Calls, StopMoves, queueVars, flagVars, listVars, stopVars, logVars,
          workerVars
  <1>1. CASE SubmitNotifyOne(c)
    BY <1>1 DEF SubmitNotifyOne, Sleepers
  <1>2. CASE ResumeNotifyAll(c)
    BY <1>2 DEF ResumeNotifyAll, WakeAll, Sleepers
  <1>3. ASSUME NEW t \in Tasks, Submit(c, t)
        PROVE  ControlInv'
    BY <1>3 DEF Submit
  <1>4. CASE Pause(c)
    BY <1>4 DEF Pause
  <1>5. CASE Resume(c)
    BY <1>5 DEF Resume
  <1>6. ASSUME NEW wait \in BOOLEAN, StopBegin(c, wait)
        PROVE  ControlInv'
    BY <1>6 DEF StopBegin
  <1>7. QED
    BY <1>1, <1>2, <1>3, <1>4, <1>5, <1>6 DEF ClientStep, ClientCall

LEMMA StopKeepsControl ==
  ASSUME ControlInv, StopStep
  PROVE  ControlInv'
  <1> USE DEF ControlInv, TypeOK, LockInv, HoldInv, StopInv, CountInv, WorkerPC, ClientPC,
              StopStage, StopMoves, queueVars, flagVars, listVars, logVars, workerVars
  <1>1. CASE StopNotifyAll
    BY <1>1 DEF StopNotifyAll, WakeAll, Sleepers
  <1>2. CASE StopDrain
    BY <1>2 DEF StopDrain
  <1>3. CASE StopTakeWorkers
    BY <1>3 DEF StopTakeWorkers
  <1>4. CASE StopJoin
    BY <1>4 DEF StopJoin
  <1>5. CASE StopClearQueue
    BY <1>5 DEF StopClearQueue
  <1>6. CASE StopReset
    BY <1>6 DEF StopReset
  <1>7. QED
    BY <1>1, <1>2, <1>3, <1>4, <1>5, <1>6 DEF StopStep

LEMMA ControlStep == ControlInv /\ [Next]_vars => ControlInv'
  <1>1. ASSUME ControlInv, UNCHANGED vars
        PROVE  ControlInv'
    BY <1>1 DEF ControlInv, TypeOK, LockInv, HoldInv, StopInv, CountInv, vars, queueVars,
                flagVars, listVars, stopVars, logVars, workerVars
  <1>2. QED
    BY <1>1, WorkerKeepsControl, CtorKeepsControl, ClientKeepsControl, StopKeepsControl
       DEF Next

LEMMA Control == Spec => []ControlInv
  BY ControlInit, ControlStep, PTL DEF Spec

\* Every variable stays in its type: the counter never drops below zero and no
\* worker pops an empty queue.
THEOREM TypeCorrect == Spec => []TypeOK
  BY Control, PTL DEF ControlInv

-----------------------------------------------------------------------------
(* Pause.                                                                    *)

\* A worker that has claimed a task since m_paused was raised has come back to,
\* or is on its way to, the test of m_paused.
PauseInv ==
    \A w \in Workers :
        /\ overshoot[w] <= 1
        /\ overshoot[w] # 0 => paused /\ wpc[w] \notin {"enter", "claim", "sleep", "asleep"}

LEMMA PauseStep == ControlInv /\ PauseInv /\ [Next]_vars => PauseInv'
  <1> SUFFICES ASSUME ControlInv, PauseInv, [Next]_vars
               PROVE  PauseInv'
    OBVIOUS
  <1> USE DEF ControlInv, TypeOK, PauseInv, WorkerPC, queueVars, flagVars, listVars,
              stopVars, logVars, workerVars, WorkerMoves, StopMoves, Calls
  <1>1. CASE UNCHANGED vars
    BY <1>1 DEF vars
  <1>2. CASE CtorStep
    BY <1>2 DEF CtorStep, CreateWorker, CreateWorkerThrows, UnwindJoin
  <1>3. ASSUME NEW w \in Workers, WorkerStep(w)
        PROVE  PauseInv'
    <2>1. CASE WorkerTestStop(w) \/ WorkerTestPause(w) \/ WorkerInspect(w)
      BY <2>1 DEF WorkerTestStop, WorkerTestPause, WorkerInspect
    <2>2. CASE WorkerClaim(w)
      BY <2>2 DEF WorkerClaim
    <2>3. CASE WorkerSleep(w) \/ WorkerTimeout(w)
      BY <2>3 DEF WorkerSleep, WorkerTimeout
    <2>4. CASE WorkerActivate(w) \/ WorkerExecute(w) \/ WorkerDeactivate(w)
      BY <2>4 DEF WorkerActivate, WorkerExecute, WorkerDeactivate
    <2>5. QED
      BY <1>3, <2>1, <2>2, <2>3, <2>4 DEF WorkerStep
  <1>4. ASSUME NEW c \in Clients, ClientStep(c)
        PROVE  PauseInv'
    BY <1>4 DEF ClientStep, SubmitNotifyOne, ResumeNotifyAll, WakeAll, Sleepers
  <1>5. ASSUME NEW c \in Clients, ClientCall(c)
        PROVE  PauseInv'
    BY <1>5 DEF ClientCall, Submit, Pause, Resume, StopBegin
  <1>6. CASE StopStep
    BY <1>6 DEF StopStep, StopNotifyAll, StopDrain, StopTakeWorkers, StopJoin,
                StopClearQueue, StopReset, WakeAll, Sleepers
  <1>7. QED
    BY <1>1, <1>2, <1>3, <1>4, <1>5, <1>6 DEF Next

\* However often the pool is paused and resumed, each worker claims at most one
\* task in the time from a Pause to the next Resume.
THEOREM PauseIsBounded == Spec => []PauseOvershoot
  <1>1. Init => PauseInv
    BY DEF Init, PauseInv
  <1>2. PauseInv => PauseOvershoot
    BY DEF PauseInv, PauseOvershoot
  <1>3. QED
    BY <1>1, <1>2, Control, PauseStep, PTL DEF Spec

-----------------------------------------------------------------------------
(* The order of the tasks.                                                   *)

\* Only Stop, after the join, drops tasks: while a worker can claim one,
\* nothing lies between what was claimed and what is queued.
OrderInv ==
    /\ submitLog = claimLog \o dropLog \o taskQueue
    /\ dropLog # <<>> => stopStage \in {"reset", "done"}

\* A task is submitted once.
FreshInv == \A i, j \in DOMAIN submitLog : submitLog[i] = submitLog[j] => i = j

logCore == <<taskQueue, submitLog, claimLog, dropLog>>

LEMMA LogFrame ==
  ASSUME [Next]_vars
  PROVE  \/ UNCHANGED logCore /\ (stopStage \in {"reset", "done"} => stopStage' \in {"reset", "done"})
         \/ \E w \in Workers : WorkerClaim(w)
         \/ \E c \in Clients, t \in Tasks : Submit(c, t)
         \/ StopClearQueue
  <1> USE DEF logCore, queueVars, flagVars, listVars, stopVars, logVars, workerVars,
              WorkerMoves, StopMoves, Calls
  <1>1. CASE UNCHANGED vars
    BY <1>1 DEF vars
  <1>2. CASE CtorStep
    BY <1>2 DEF CtorStep, CreateWorker, CreateWorkerThrows, UnwindJoin
  <1>3. ASSUME NEW w \in Workers, WorkerStep(w), ~WorkerClaim(w)
        PROVE  UNCHANGED <<logCore, stopStage>>
    BY <1>3 DEF WorkerStep, WorkerTestStop, WorkerTestPause, WorkerInspect, WorkerSleep,
                WorkerTimeout, WorkerActivate, WorkerExecute, WorkerDeactivate
  <1>4. ASSUME NEW c \in Clients, ClientStep(c)
        PROVE  UNCHANGED <<logCore, stopStage>>
    BY <1>4 DEF ClientStep, SubmitNotifyOne, ResumeNotifyAll
  <1>5. ASSUME NEW c \in Clients, Pause(c) \/ Resume(c)
        PROVE  UNCHANGED <<logCore, stopStage>>
    BY <1>5 DEF Pause, Resume
  <1>6. ASSUME NEW c \in Clients, NEW wait \in BOOLEAN, StopBegin(c, wait)
        PROVE  UNCHANGED logCore /\ stopStage = "none"
    BY <1>6 DEF StopBegin
  <1>7. ASSUME StopStep, ~StopClearQueue
        PROVE  /\ UNCHANGED logCore
               /\ stopStage \in {"reset", "done"} => stopStage' \in {"reset", "done"}
    BY <1>7 DEF StopStep, StopNotifyAll, StopDrain, StopTakeWorkers, StopJoin, StopReset
  <1>8. QED
    BY <1>1, <1>2, <1>3, <1>4, <1>5, <1>6, <1>7 DEF Next, ClientCall

LEMMA MoveHead ==
  ASSUME NEW S, NEW p \in Seq(S), NEW q \in Seq(S), q # <<>>
  PROVE  Append(p, Head(q)) \o <<>> \o Tail(q) = p \o <<>> \o q
  <1>1. /\ Head(q) \in S
        /\ Tail(q) \in Seq(S)
        /\ Append(p, Head(q)) \in Seq(S)
        /\ <<Head(q)>> \in Seq(S)
    BY HeadTailProperties, AppendProperties
  <1>2. Append(p, Head(q)) = p \o <<Head(q)>>
    BY <1>1, AppendIsConcat
  <1>3. q = <<Head(q)>> \o Tail(q)
    <2>1. <<Head(q)>> \o Tail(q) \in Seq(S)
      BY <1>1, ConcatProperties
    <2>2. /\ Len(<<Head(q)>> \o Tail(q)) = Len(q)
          /\ \A i \in 1..Len(q) : (<<Head(q)>> \o Tail(q))[i] = q[i]
      BY <1>1
    <2>3. QED
      BY <2>1, <2>2, SeqEqual
  <1>4. (p \o <<Head(q)>>) \o Tail(q) = p \o (<<Head(q)>> \o Tail(q))
    BY <1>1, ConcatAssociative
  <1>5. /\ Append(p, Head(q)) \o <<>> = Append(p, Head(q))
        /\ p \o <<>> = p
    BY <1>1, ConcatEmptySeq
  <1>6. QED
    BY <1>2, <1>3, <1>4, <1>5

LEMMA OrderStep == ControlInv /\ OrderInv /\ [Next]_vars => OrderInv'
  <1> SUFFICES ASSUME ControlInv, OrderInv, [Next]_vars
               PROVE  OrderInv'
    OBVIOUS
  <1> USE DEF ControlInv, TypeOK, OrderInv
  <1>1. ASSUME NEW w \in Workers, WorkerClaim(w)
        PROVE  OrderInv'
    <2>1. /\ taskQueue # <<>>
          /\ dropLog = <<>>
      BY <1>1 DEF LockInv, StopInv, WorkerClaim, WorkerMoves
    <2>2. /\ claimLog' = Append(claimLog, Head(taskQueue))
          /\ taskQueue' = Tail(taskQueue)
          /\ UNCHANGED <<submitLog, dropLog, stopStage>>
      BY <1>1 DEF WorkerClaim, logVars, stopVars
    <2>3. QED
      BY <2>1, <2>2, MoveHead
  <1>2. ASSUME NEW c \in Clients, NEW t \in Tasks, Submit(c, t)
        PROVE  OrderInv'
    <2>1. /\ taskQueue' = Append(taskQueue, t)
          /\ submitLog' = Append(submitLog, t)
          /\ UNCHANGED <<claimLog, dropLog, stopStage>>
      BY <1>2 DEF Submit, stopVars
    <2>2. claimLog \o dropLog \in Seq(Tasks) /\ <<t>> \in Seq(Tasks)
      BY ConcatProperties
    <2>3. /\ Append(submitLog, t) = submitLog \o <<t>>
          /\ Append(taskQueue, t) = taskQueue \o <<t>>
      BY AppendIsConcat
    <2>4. ((claimLog \o dropLog) \o taskQueue) \o <<t>> = (claimLog \o dropLog) \o (taskQueue \o <<t>>)
      <3>1. taskQueue \in Seq(Tasks)
        OBVIOUS
      <3> HIDE DEF ControlInv, TypeOK, OrderInv
      <3>2. QED
        BY <2>2, <3>1, ConcatAssociative
    <2>5. QED
      BY <2>1, <2>3, <2>4
  <1>3. CASE StopClearQueue
    <2>1. /\ taskQueue' = <<>>
          /\ dropLog' = dropLog \o taskQueue
          /\ stopStage' = "reset"
          /\ UNCHANGED <<submitLog, claimLog>>
      BY <1>3 DEF StopClearQueue, StopMoves
    <2>2. (claimLog \o dropLog) \o taskQueue = claimLog \o (dropLog \o taskQueue)
      <3>1. claimLog \in Seq(Tasks) /\ dropLog \in Seq(Tasks) /\ taskQueue \in Seq(Tasks)
        OBVIOUS
      <3> HIDE DEF ControlInv, TypeOK, OrderInv
      <3>2. QED
        BY <3>1, ConcatAssociative
    <2>3. submitLog \o <<>> = submitLog
      BY ConcatEmptySeq
    <2>4. QED
      BY <2>1, <2>2, <2>3
  <1>4. QED
    BY <1>1, <1>2, <1>3, LogFrame DEF logCore

LEMMA FreshStep == ControlInv /\ FreshInv /\ [Next]_vars => FreshInv'
  <1> SUFFICES ASSUME ControlInv, FreshInv, [Next]_vars
               PROVE  FreshInv'
    OBVIOUS
  <1> USE DEF ControlInv, TypeOK, FreshInv
  <1>1. ASSUME NEW c \in Clients, NEW t \in Tasks, Submit(c, t)
        PROVE  FreshInv'
    <2>1. submitLog' = Append(submitLog, t) /\ t \notin Elems(submitLog)
      BY <1>1 DEF Submit
    <2>2. QED
      BY <2>1, AppendProperties DEF Elems
  <1>2. ASSUME UNCHANGED submitLog
        PROVE  FreshInv'
    BY <1>2
  <1>3. QED
    BY <1>1, <1>2, LogFrame DEF logCore, WorkerClaim, StopClearQueue, logVars

\* What was claimed is being held, by one worker, or has run.
RunInv ==
    /\ Claimed = Held \cup finished
    /\ Held \cap finished = {}
    /\ \A v, w \in Workers : v # w /\ wtask[v] # NoTask => wtask[v] # wtask[w]

LEMMA RunFrame ==
  ASSUME [Next]_vars
  PROVE  \/ UNCHANGED <<claimLog, wtask, finished>>
         \/ \E w \in Workers : WorkerClaim(w) \/ WorkerExecute(w)
  <1> USE DEF queueVars, flagVars, listVars, stopVars, logVars, workerVars
  <1>1. CASE UNCHANGED vars
    BY <1>1 DEF vars
  <1>2. CASE CtorStep
    BY <1>2 DEF CtorStep, CreateWorker, CreateWorkerThrows, UnwindJoin
  <1>3. ASSUME NEW w \in Workers, WorkerStep(w), ~WorkerClaim(w), ~WorkerExecute(w)
        PROVE  UNCHANGED <<claimLog, wtask, finished>>
    BY <1>3 DEF WorkerStep, WorkerTestStop, WorkerTestPause, WorkerInspect, WorkerSleep,
                WorkerTimeout, WorkerActivate, WorkerDeactivate
  <1>4. ASSUME NEW c \in Clients, ClientStep(c) \/ ClientCall(c)
        PROVE  UNCHANGED <<claimLog, wtask, finished>>
    BY <1>4 DEF ClientStep, ClientCall, SubmitNotifyOne, ResumeNotifyAll, Submit, Pause,
                Resume, StopBegin
  <1>5. CASE StopStep
    BY <1>5 DEF StopStep, StopNotifyAll, StopDrain, StopTakeWorkers, StopJoin,
                StopClearQueue, StopReset
  <1>6. QED
    BY <1>1, <1>2, <1>3, <1>4, <1>5 DEF Next

\* The head of the queue has never been claimed: the submission order repeats
\* no task.
LEMMA HeadIsNew ==
  ASSUME ControlInv, OrderInv, FreshInv, dropLog = <<>>, taskQueue # <<>>
  PROVE  Head(taskQueue) \notin Elems(claimLog)
  <1> USE DEF ControlInv, TypeOK
  <1>1. submitLog = claimLog \o taskQueue
    BY ConcatEmptySeq DEF OrderInv
  <1>2. ASSUME NEW i \in DOMAIN claimLog, claimLog[i] = Head(taskQueue)
        PROVE  FALSE
    <2>1. i \in 1..Len(claimLog) /\ Len(claimLog) \in Nat
      OBVIOUS
    <2>2. Len(taskQueue) >= 1 /\ Head(taskQueue) = taskQueue[1]
      BY EmptySeq
    <2>3. Len(submitLog) = Len(claimLog) + Len(taskQueue)
      BY <1>1, ConcatProperties
    <2>4. submitLog[i] = claimLog[i]
      BY <1>1, <2>1, <2>2, ConcatProperties
    <2>5. submitLog[Len(claimLog) + 1] = taskQueue[1]
      BY <1>1, <2>1, <2>2, ConcatProperties
    <2>6. i \in DOMAIN submitLog /\ Len(claimLog) + 1 \in DOMAIN submitLog
      BY <2>1, <2>2, <2>3
    <2>7. i # Len(claimLog) + 1
      BY <2>1
    <2>8. QED
      BY <1>2, <2>2, <2>4, <2>5, <2>6, <2>7 DEF FreshInv
  <1>3. QED
    BY <1>2 DEF Elems

LEMMA ElemsAppend ==
  ASSUME NEW S, NEW s \in Seq(S), NEW e \in S
  PROVE  Elems(Append(s, e)) = Elems(s) \cup {e}
  BY AppendProperties DEF Elems

LEMMA RunStep ==
  ControlInv /\ OrderInv /\ FreshInv /\ RunInv /\ [Next]_vars => RunInv'
  <1> SUFFICES ASSUME ControlInv, OrderInv, FreshInv, RunInv, [Next]_vars
               PROVE  RunInv'
    OBVIOUS
  <1> USE DEF ControlInv, TypeOK, RunInv
  <1>1. ASSUME NEW w \in Workers, WorkerClaim(w)
        PROVE  RunInv'
    <2> DEFINE t == Head(taskQueue)
    <2>1. /\ taskQueue # <<>> /\ dropLog = <<>>
          /\ wtask[w] = NoTask
      BY <1>1 DEF LockInv, StopInv, HoldInv, OrderInv, WorkerClaim, WorkerMoves
    <2>2. t \in Tasks /\ t \notin Elems(claimLog)
      BY <2>1, HeadIsNew, HeadTailProperties
    <2>3. /\ claimLog' = Append(claimLog, t)
          /\ wtask' = [wtask EXCEPT ![w] = t]
          /\ finished' = finished
      BY <1>1 DEF WorkerClaim
    <2> HIDE DEF t
    <2>4. Claimed' = Claimed \cup {t} /\ t \notin Claimed
      BY <2>2, <2>3, ElemsAppend DEF Claimed
    <2>5. Held' = Held \cup {t}
      BY <2>1, <2>2, <2>3, TasksAssumption DEF Held
    <2>6. \A v \in Workers : wtask[v] # NoTask => wtask[v] \in Held
      BY DEF Held
    <2>7. \A v \in Workers : wtask[v] # t
      BY <2>2, <2>4, <2>6, TasksAssumption
    <2>8. Claimed' = Held' \cup finished' /\ Held' \cap finished' = {}
      BY <2>3, <2>4, <2>5
    <2>9. \A u, v \in Workers : u # v /\ wtask'[u] # NoTask => wtask'[u] # wtask'[v]
      BY <2>3, <2>7
    <2>10. QED
      BY <2>8, <2>9
  <1>2. ASSUME NEW w \in Workers, WorkerExecute(w)
        PROVE  RunInv'
    <2>1. /\ Claimed' = Claimed
          /\ finished' = finished \cup {wtask[w]}
          /\ wtask' = [wtask EXCEPT ![w] = NoTask]
      BY <1>2 DEF WorkerExecute, Claimed, Elems
    <2>2. wtask[w] \in Held
      BY <1>2 DEF HoldInv, WorkerExecute, WorkerMoves, Held
    <2>3. \A v \in Workers \ {w} : wtask[v] # wtask[w]
      BY <2>2 DEF Held
    <2>4. Held' = Held \ {wtask[w]}
      BY <2>1, <2>3 DEF Held
    <2>5. Claimed' = Held' \cup finished' /\ Held' \cap finished' = {}
      BY <2>1, <2>2, <2>4
    <2>6. \A u, v \in Workers : u # v /\ wtask'[u] # NoTask => wtask'[u] # wtask'[v]
      BY <2>1
    <2>7. QED
      BY <2>5, <2>6
  <1>3. CASE UNCHANGED <<claimLog, wtask, finished>>
    <2>1. Claimed' = Claimed /\ Held' = Held
      BY <1>3 DEF Claimed, Held, Elems
    <2>2. QED
      BY <1>3, <2>1
  <1>4. QED
    BY <1>1, <1>2, <1>3, RunFrame

LogInv == ControlInv /\ OrderInv /\ FreshInv /\ RunInv

LEMMA Logs == Spec => []LogInv
  <1>1. Init => OrderInv /\ FreshInv /\ RunInv
    BY TasksAssumption, ConcatEmptySeq
       DEF Init, OrderInv, FreshInv, RunInv, Held, Claimed, Elems
  <1>2. LogInv /\ [Next]_vars => LogInv'
    BY ControlStep, OrderStep, FreshStep, RunStep DEF LogInv
  <1>3. QED
    BY <1>1, <1>2, ControlInit, PTL DEF Spec, LogInv

\* No task is lost, run twice or run out of the order of submission.
THEOREM TasksAccounted == Spec => []TaskAccounting
  <1>1. LogInv => TaskAccounting
    BY DEF LogInv, OrderInv, RunInv, TaskAccounting
  <1>2. QED
    BY <1>1, Logs, PTL

-----------------------------------------------------------------------------
(* The counter.                                                              *)

LEMMA PendingStep ==
  LogInv /\ PendingMatchesQueue /\ [Next]_vars => PendingMatchesQueue'
  <1> SUFFICES ASSUME LogInv, PendingMatchesQueue, [Next]_vars
               PROVE  PendingMatchesQueue'
    OBVIOUS
  <1> USE DEF LogInv, ControlInv, TypeOK, PendingMatchesQueue, queueVars, flagVars,
              listVars, stopVars, logVars, workerVars, WorkerMoves, StopMoves, Calls
  <1>1. CASE UNCHANGED vars
    BY <1>1 DEF vars
  <1>2. CASE CtorStep
    BY <1>2 DEF CtorStep, CreateWorker, CreateWorkerThrows, UnwindJoin
  <1>3. ASSUME NEW w \in Workers, WorkerStep(w)
        PROVE  PendingMatchesQueue'
    <2>1. CASE WorkerClaim(w)
      <3>1. taskQueue # <<>> /\ stopStage \notin {"reset", "done"}
        BY <2>1 DEF WorkerClaim, LockInv, StopInv
      <3>2. Len(taskQueue') = Len(taskQueue) - 1
        BY <2>1, <3>1, HeadTailProperties DEF WorkerClaim
      <3>3. QED
        BY <2>1, <3>1, <3>2 DEF WorkerClaim
    <2>2. CASE ~WorkerClaim(w)
      BY <1>3, <2>2 DEF WorkerStep, WorkerTestStop, WorkerTestPause, WorkerInspect,
                        WorkerSleep, WorkerTimeout, WorkerActivate, WorkerExecute,
                        WorkerDeactivate
    <2>3. QED
      BY <2>1, <2>2
  <1>4. ASSUME NEW c \in Clients, NEW t \in Tasks, Submit(c, t)
        PROVE  PendingMatchesQueue'
    BY <1>4, AppendProperties DEF Submit
  <1>5. ASSUME NEW c \in Clients, NEW wait \in BOOLEAN, StopBegin(c, wait)
        PROVE  PendingMatchesQueue'
    BY <1>5 DEF StopBegin
  <1>6. ASSUME NEW c \in Clients, ClientStep(c) \/ Pause(c) \/ Resume(c)
        PROVE  PendingMatchesQueue'
    BY <1>6 DEF ClientStep, SubmitNotifyOne, ResumeNotifyAll, Pause, Resume
  <1>7. CASE StopClearQueue
    <2>1. dropLog = <<>>
      BY <1>7 DEF StopClearQueue, OrderInv
    <2>2. dropLog' = taskQueue /\ Len(taskQueue') = 0
      BY <1>7, <2>1, ConcatEmptySeq DEF StopClearQueue
    <2>3. QED
      BY <1>7, <2>2 DEF StopClearQueue
  <1>8. ASSUME StopStep, ~StopClearQueue
        PROVE  PendingMatchesQueue'
    BY <1>8 DEF StopStep, StopNotifyAll, StopDrain, StopTakeWorkers, StopJoin, StopReset
  <1>9. QED
    BY <1>1, <1>2, <1>3, <1>4, <1>5, <1>6, <1>7, <1>8 DEF Next, ClientCall

\* GetPendingTaskCount never promises fewer tasks than are queued, until Stop
\* has reset it.
THEOREM PendingIsQueueLength == Spec => []PendingMatchesQueue
  <1>1. Init => PendingMatchesQueue
    BY DEF Init, PendingMatchesQueue
  <1>2. QED
    BY <1>1, Logs, PendingStep, PTL DEF Spec

-----------------------------------------------------------------------------
(* A Stop that waits.                                                        *)

\* Past the polling loop all that was submitted before the flag was raised has
\* been claimed: the counter was zero, so the queue was empty.
WaitInv ==
    /\ stopStage # "none" => acceptedAtStop <= Len(submitLog)
    /\ stopStage \in {"take", "join", "clear", "reset", "done"} /\ waitForTasks =>
          acceptedAtStop <= Len(claimLog)

LEMMA WaitStep == LogInv /\ WaitInv /\ [Next]_vars => WaitInv'
  <1> SUFFICES ASSUME LogInv, WaitInv, [Next]_vars
               PROVE  WaitInv'
    OBVIOUS
  <1> USE DEF LogInv, ControlInv, TypeOK, WaitInv, queueVars, flagVars, listVars,
              stopVars, logVars, workerVars, StopMoves
  <1>1. CASE UNCHANGED vars
    BY <1>1 DEF vars
  <1>2. CASE CtorStep
    BY <1>2 DEF CtorStep, CreateWorker, CreateWorkerThrows, UnwindJoin
  <1>3. ASSUME NEW w \in Workers, WorkerStep(w)
        PROVE  WaitInv'
    <2>1. CASE WorkerClaim(w)
      <3>1. taskQueue # <<>>
        BY <2>1 DEF WorkerClaim, WorkerMoves, LockInv
      <3>2. Len(claimLog') = Len(claimLog) + 1
        BY <2>1, <3>1, HeadTailProperties, AppendProperties DEF WorkerClaim
      <3>3. QED
        BY <2>1, <3>2 DEF WorkerClaim
    <2>2. CASE ~WorkerClaim(w)
      BY <1>3, <2>2 DEF WorkerStep, WorkerTestStop, WorkerTestPause, WorkerInspect,
                        WorkerSleep, WorkerTimeout, WorkerActivate, WorkerExecute,
                        WorkerDeactivate
    <2>3. QED
      BY <2>1, <2>2
  <1>4. ASSUME NEW c \in Clients, NEW t \in Tasks, Submit(c, t)
        PROVE  WaitInv'
    BY <1>4, AppendProperties DEF Submit
  <1>5. ASSUME NEW c \in Clients, NEW wait \in BOOLEAN, StopBegin(c, wait)
        PROVE  WaitInv'
    BY <1>5 DEF StopBegin
  <1>6. ASSUME NEW c \in Clients, ClientStep(c) \/ Pause(c) \/ Resume(c)
        PROVE  WaitInv'
    BY <1>6 DEF ClientStep, SubmitNotifyOne, ResumeNotifyAll, Pause, Resume
  <1>7. CASE StopDrain
    <2>1. waitForTasks => taskQueue = <<>>
      BY <1>7, EmptySeq DEF StopDrain, CountInv
    <2>2. dropLog = <<>>
      BY <1>7 DEF StopDrain, OrderInv
    <2>3. waitForTasks => submitLog = claimLog
      BY <2>1, <2>2, ConcatEmptySeq DEF OrderInv
    <2>4. QED
      BY <1>7, <2>3 DEF StopDrain
  <1>8. ASSUME StopStep, ~StopDrain
        PROVE  WaitInv'
    BY <1>8 DEF StopStep, StopNotifyAll, StopTakeWorkers, StopJoin, StopClearQueue, StopReset
  <1>9. QED
    BY <1>1, <1>2, <1>3, <1>4, <1>5, <1>6, <1>7, <1>8 DEF Next, ClientCall

\* Stop(true), when it gets past the join, has seen to the execution of every
\* task submitted before it.
THEOREM WaitedStopIsComplete == Spec => []WaitedStopRunsAccepted
  <1>1. Init => WaitInv
    BY DEF Init, WaitInv
  <1>2. ASSUME LogInv, WaitInv
        PROVE  WaitedStopRunsAccepted
    <2> SUFFICES ASSUME stopStage \in {"clear", "reset", "done"}, waitForTasks,
                        NEW i \in 1..acceptedAtStop
                 PROVE  submitLog[i] \in finished
      BY DEF WaitedStopRunsAccepted
    <2> USE <1>2 DEF LogInv, ControlInv, TypeOK
    <2>1. Held = {}
      BY DEF StopInv, HoldInv, Held
    <2>2. i \in 1..Len(claimLog)
      BY DEF WaitInv
    <2>3. submitLog[i] = claimLog[i]
      <3>1. dropLog \o taskQueue \in Seq(Tasks)
        BY ConcatProperties
      <3>2. submitLog = claimLog \o (dropLog \o taskQueue)
        BY ConcatAssociative DEF OrderInv
      <3>3. Len(claimLog) \in Nat /\ Len(dropLog \o taskQueue) \in Nat
        BY <3>1
      <3>4. QED
        BY <2>2, <3>1, <3>2, <3>3, ConcatProperties
    <2>4. claimLog[i] \in Claimed
      BY <2>2 DEF Claimed, Elems
    <2>5. QED
      BY <2>1, <2>3, <2>4 DEF RunInv
  <1>3. QED
    BY <1>1, <1>2, Logs, WaitStep, PTL DEF Spec

-----------------------------------------------------------------------------
(* The pool is a TaskExecutor.                                               *)

execVars == <<taskQueue, wtask, finished, stopStage \in {"clear", "reset", "done"}>>

LEMMA WorkerImplements ==
  ASSUME ControlInv, NEW w \in Workers, WorkerStep(w)
  PROVE  Executor!Next \/ UNCHANGED execVars
  <1> USE DEF ControlInv, TypeOK, execVars, WorkerMoves, queueVars, flagVars, listVars,
              stopVars, logVars
  <1>1. CASE WorkerClaim(w)
    <2>1. /\ stopStage \notin {"clear", "reset", "done"}
          /\ taskQueue # <<>> /\ wtask[w] = NoTask
      BY <1>1 DEF WorkerClaim, LockInv, HoldInv, StopInv
    <2>2. Executor!Start(w)
      BY <1>1, <2>1 DEF WorkerClaim, Executor!Start
    <2>3. QED
      BY <2>2 DEF Executor!Next
  <1>2. CASE WorkerExecute(w)
    <2>1. wtask[w] # NoTask
      BY <1>2 DEF WorkerExecute, HoldInv
    <2>2. Executor!Finish(w)
      BY <1>2, <2>1 DEF WorkerExecute, Executor!Finish
    <2>3. QED
      BY <2>2 DEF Executor!Next
  <1>3. ASSUME ~WorkerClaim(w), ~WorkerExecute(w)
        PROVE  UNCHANGED execVars
    BY <1>3 DEF WorkerStep, WorkerTestStop, WorkerTestPause, WorkerInspect, WorkerSleep,
                WorkerTimeout, WorkerActivate, WorkerDeactivate
  <1>4. QED
    BY <1>1, <1>2, <1>3

LEMMA StopImplements ==
  ASSUME ControlInv, StopStep
  PROVE  Executor!Next \/ UNCHANGED execVars
  <1> USE DEF ControlInv, TypeOK, execVars, StopMoves, queueVars, flagVars, listVars,
              logVars, workerVars
  <1>1. CASE StopJoin
    <2>1. Executor!AllIdle
      BY <1>1 DEF StopJoin, HoldInv, Executor!AllIdle
    <2>2. Executor!Close
      BY <1>1, <2>1 DEF StopJoin, Executor!Close
    <2>3. QED
      BY <2>2 DEF Executor!Next
  <1>2. CASE StopClearQueue
    BY <1>2 DEF StopClearQueue, Executor!Discard, Executor!Next
  <1>3. ASSUME ~StopJoin, ~StopClearQueue
        PROVE  UNCHANGED execVars
    BY <1>3 DEF StopStep, StopNotifyAll, StopDrain, StopTakeWorkers, StopReset
  <1>4. QED
    BY <1>1, <1>2, <1>3

LEMMA ClientImplements ==
  ASSUME NEW c \in Clients, ClientStep(c) \/ ClientCall(c)
  PROVE  Executor!Next \/ UNCHANGED execVars
  <1> USE DEF execVars, queueVars, flagVars, listVars, stopVars, logVars, workerVars
  <1>1. ASSUME NEW t \in Tasks, Submit(c, t)
        PROVE  Executor!Next
    BY <1>1 DEF Submit, Executor!Accept, Executor!Next
  <1>2. ASSUME NEW wait \in BOOLEAN, StopBegin(c, wait)
        PROVE  UNCHANGED execVars
    BY <1>2 DEF StopBegin, StopMoves
  <1>3. ASSUME ClientStep(c) \/ Pause(c) \/ Resume(c)
        PROVE  UNCHANGED execVars
    BY <1>3 DEF ClientStep, SubmitNotifyOne, ResumeNotifyAll, Pause, Resume
  <1>4. QED
    BY <1>1, <1>2, <1>3 DEF ClientCall

\* Whatever its threads interleave, the pool starts tasks in order, each once,
\* one at a time per worker, and discards them only when no worker is left.
THEOREM PoolImplementsExecutor == Spec => ImplementsExecutor
  <1>1. Init => Executor!Init
    BY DEF Init, Executor!Init
  <1>2. ControlInv /\ [Next]_vars => [Executor!Next]_(Executor!vars)
    <2> SUFFICES ASSUME ControlInv, [Next]_vars
                 PROVE  Executor!Next \/ UNCHANGED execVars
      BY DEF execVars, Executor!vars
    <2>1. CASE UNCHANGED vars
      BY <2>1 DEF vars, execVars, queueVars, stopVars, logVars, workerVars
    <2>2. CASE CtorStep
      BY <2>2 DEF CtorStep, CreateWorker, CreateWorkerThrows, UnwindJoin, execVars,
                  queueVars, stopVars, logVars, workerVars
    <2>3. QED
      BY <2>1, <2>2, WorkerImplements, StopImplements, ClientImplements DEF Next
  <1>3. QED
    BY <1>1, <1>2, Control, PTL DEF Spec, ImplementsExecutor, Executor!Spec

-----------------------------------------------------------------------------
(* Wake-ups.                                                                 *)

\* A worker that holds the mutex in order to sleep has seen the queue empty.
SleepInv == \A w \in Workers : wpc[w] = "sleep" => taskQueue = <<>>

LEMMA SleepStep == ControlInv /\ SleepInv /\ [Next]_vars => SleepInv'
  <1> SUFFICES ASSUME ControlInv, SleepInv, [Next]_vars
               PROVE  SleepInv'
    OBVIOUS
  <1> USE ThreadsAssumption
      DEF ControlInv, TypeOK, SleepInv, LockInv, WorkerPC, queueVars, flagVars, listVars,
          stopVars, logVars, workerVars, WorkerMoves, StopMoves
  <1>1. CASE UNCHANGED vars
    BY <1>1 DEF vars
  <1>2. CASE CtorStep
    BY <1>2 DEF CtorStep, CreateWorker, CreateWorkerThrows, UnwindJoin
  <1>3. ASSUME NEW w \in Workers, WorkerStep(w)
        PROVE  SleepInv'
    <2>1. CASE WorkerTestStop(w) \/ WorkerTestPause(w) \/ WorkerTimeout(w)
      BY <2>1 DEF WorkerTestStop, WorkerTestPause, WorkerTimeout
    <2>2. CASE WorkerInspect(w)
      BY <2>2 DEF WorkerInspect
    <2>3. CASE WorkerClaim(w)
      BY <2>3 DEF WorkerClaim
    <2>4. CASE WorkerSleep(w)
      BY <2>4 DEF WorkerSleep
    <2>5. CASE WorkerActivate(w) \/ WorkerExecute(w) \/ WorkerDeactivate(w)
      BY <2>5 DEF WorkerActivate, WorkerExecute, WorkerDeactivate
    <2>6. QED
      BY <1>3, <2>1, <2>2, <2>3, <2>4, <2>5 DEF WorkerStep
  <1>4. ASSUME NEW c \in Clients, NEW t \in Tasks, Submit(c, t)
        PROVE  SleepInv'
    BY <1>4 DEF Submit
  <1>5. ASSUME NEW c \in Clients, ClientStep(c)
        PROVE  SleepInv'
    BY <1>5 DEF ClientStep, SubmitNotifyOne, ResumeNotifyAll, WakeAll, Sleepers
  <1>6. ASSUME NEW c \in Clients, Pause(c) \/ Resume(c) \/ \E wait \in BOOLEAN : StopBegin(c, wait)
        PROVE  SleepInv'
    BY <1>6 DEF Pause, Resume, StopBegin
  <1>7. CASE StopStep
    BY <1>7 DEF StopStep, StopNotifyAll, StopDrain, StopTakeWorkers, StopJoin,
                StopClearQueue, StopReset, WakeAll, Sleepers
  <1>8. QED
    BY <1>1, <1>2, <1>3, <1>4, <1>5, <1>6, <1>7 DEF Next, ClientCall

LEMMA CrowdsAreFinite ==
  /\ IsFiniteSet(Notifiers) /\ IsFiniteSet(Notifiers')
  /\ IsFiniteSet(Claimants) /\ IsFiniteSet(Claimants')
  /\ Cardinality(Notifiers) \in Nat /\ Cardinality(Notifiers') \in Nat
  /\ Cardinality(Claimants) \in Nat /\ Cardinality(Claimants') \in Nat
  <1>1. /\ Notifiers \subseteq Clients /\ Notifiers' \subseteq Clients
        /\ Claimants \subseteq Workers /\ Claimants' \subseteq Workers
    BY DEF Notifiers, Claimants
  <1>2. QED
    BY <1>1, FiniteAssumption, FS_Subset, FS_CardinalityType

LEMMA WorkerKeepsWakeups ==
  ASSUME ControlInv, SleepInv, NoWakeupLost, NEW w \in Workers, WorkerStep(w)
  PROVE  NoWakeupLost'
  <1> USE DEF ControlInv, TypeOK, WorkerPC, queueVars, flagVars, listVars, stopVars,
              logVars, WorkerMoves
  <1>1. CASE WorkerClaim(w)
    <2>1. taskQueue # <<>> /\ Len(taskQueue') = Len(taskQueue) - 1
      BY <1>1, HeadTailProperties DEF WorkerClaim, LockInv
    <2>2. /\ Claimants' = Claimants \ {w} /\ w \in Claimants
          /\ Notifiers' = Notifiers /\ Sleepers' = Sleepers /\ stopping' = stopping
      BY <1>1 DEF WorkerClaim, Claimants, Notifiers, Sleepers
    <2>3. Cardinality(Claimants') = Cardinality(Claimants) - 1
      BY <2>2, CrowdsAreFinite, FS_RemoveElement
    <2>4. QED
      BY <2>1, <2>2, <2>3, CrowdsAreFinite DEF NoWakeupLost
  <1>2. CASE WorkerInspect(w)
    <2>1. CASE stopping
      BY <1>2, <2>1 DEF WorkerInspect, NoWakeupLost
    <2>2. CASE ~stopping /\ taskQueue = <<>>
      <3>1. taskQueue' = <<>>
        BY <1>2, <2>2 DEF WorkerInspect
      <3>2. QED
        BY <3>1, CrowdsAreFinite DEF NoWakeupLost
    <2>3. CASE ~stopping /\ taskQueue # <<>>
      <3>1. /\ Claimants' = Claimants /\ Notifiers' = Notifiers
            /\ Sleepers' = Sleepers /\ UNCHANGED <<taskQueue, stopping>>
        BY <1>2, <2>3 DEF WorkerInspect, Claimants, Notifiers, Sleepers
      <3>2. QED
        BY <3>1 DEF NoWakeupLost
    <2>4. QED
      BY <2>1, <2>2, <2>3
  <1>3. CASE WorkerSleep(w)
    <2>1. taskQueue' = <<>>
      BY <1>3 DEF WorkerSleep, SleepInv
    <2>2. QED
      BY <2>1, CrowdsAreFinite DEF NoWakeupLost
  <1>4. CASE WorkerTimeout(w) \/ WorkerTestPause(w)
    <2>1. /\ Claimants \subseteq Claimants' /\ Notifiers' = Notifiers
          /\ Sleepers' \subseteq Sleepers /\ UNCHANGED <<taskQueue, stopping>>
      BY <1>4 DEF WorkerTimeout, WorkerTestPause, Claimants, Notifiers, Sleepers
    <2>2. Cardinality(Claimants) <= Cardinality(Claimants')
      BY <2>1, CrowdsAreFinite, FS_Subset
    <2>3. QED
      BY <2>1, <2>2, CrowdsAreFinite DEF NoWakeupLost
  <1>5. CASE \/ WorkerTestStop(w) \/ WorkerActivate(w)
             \/ WorkerExecute(w) \/ WorkerDeactivate(w)
    <2>1. /\ Claimants' = Claimants /\ Notifiers' = Notifiers
          /\ Sleepers' = Sleepers /\ UNCHANGED <<taskQueue, stopping>>
      BY <1>5 DEF WorkerTestStop, WorkerActivate, WorkerExecute, WorkerDeactivate,
                  Claimants, Notifiers, Sleepers
    <2>2. QED
      BY <2>1 DEF NoWakeupLost
  <1>6. QED
    BY <1>1, <1>2, <1>3, <1>4, <1>5 DEF WorkerStep

LEMMA ClientKeepsWakeups ==
  ASSUME ControlInv, NoWakeupLost, NEW c \in Clients, ClientStep(c) \/ ClientCall(c)
  PROVE  NoWakeupLost'
  <1> USE DEF ControlInv, TypeOK, ClientPC, WorkerPC, queueVars, flagVars, listVars,
              stopVars, logVars, workerVars, Calls
  <1>1. CASE SubmitNotifyOne(c)
    <2>1. /\ Notifiers' = Notifiers \ {c} /\ c \in Notifiers
          /\ UNCHANGED <<taskQueue, stopping>>
      BY <1>1 DEF SubmitNotifyOne, Notifiers
    <2>2. CASE Sleepers = {}
      <3>1. Sleepers' = {}
        BY <1>1, <2>2 DEF SubmitNotifyOne, Sleepers
      <3>2. QED
        BY <3>1 DEF NoWakeupLost
    <2>3. ASSUME NEW w \in Sleepers, wpc' = [wpc EXCEPT ![w] = "enter"]
          PROVE  NoWakeupLost'
      <3>1. Claimants' = Claimants \cup {w} /\ w \notin Claimants
        BY <2>3 DEF Sleepers, Claimants
      <3>2. /\ Cardinality(Claimants') = Cardinality(Claimants) + 1
            /\ Cardinality(Notifiers') = Cardinality(Notifiers) - 1
        BY <2>1, <3>1, CrowdsAreFinite, FS_AddElement, FS_RemoveElement
      <3>3. QED
        BY <2>1, <2>3, <3>2, CrowdsAreFinite DEF NoWakeupLost
    <2>4. QED
      BY <1>1, <2>2, <2>3 DEF SubmitNotifyOne
  <1>2. CASE ResumeNotifyAll(c)
    <2>1. Sleepers' = {}
      BY <1>2 DEF ResumeNotifyAll, WakeAll, Sleepers
    <2>2. QED
      BY <2>1 DEF NoWakeupLost
  <1>3. ASSUME NEW t \in Tasks, Submit(c, t)
        PROVE  NoWakeupLost'
    <2>1. /\ Notifiers' = Notifiers \cup {c} /\ c \notin Notifiers
          /\ Claimants' = Claimants /\ Sleepers' = Sleepers /\ stopping' = stopping
      BY <1>3 DEF Submit, Notifiers, Claimants, Sleepers
    <2>2. Len(taskQueue') = Len(taskQueue) + 1
      BY <1>3, AppendProperties DEF Submit
    <2>3. Cardinality(Notifiers') = Cardinality(Notifiers) + 1
      BY <2>1, CrowdsAreFinite, FS_AddElement
    <2>4. QED
      BY <2>1, <2>2, <2>3, CrowdsAreFinite DEF NoWakeupLost
  <1>4. CASE Pause(c) \/ Resume(c)
    <2>1. /\ Notifiers' = Notifiers /\ Claimants' = Claimants
          /\ Sleepers' = Sleepers /\ UNCHANGED <<taskQueue, stopping>>
      BY <1>4 DEF Pause, Resume, Notifiers, Claimants, Sleepers
    <2>2. QED
      BY <2>1 DEF NoWakeupLost
  <1>5. ASSUME NEW wait \in BOOLEAN, StopBegin(c, wait)
        PROVE  NoWakeupLost'
    BY <1>5 DEF StopBegin, NoWakeupLost
  <1>6. QED
    BY <1>1, <1>2, <1>3, <1>4, <1>5 DEF ClientStep, ClientCall

\* No submission's notification is lost on, or wasted by, the sleeping workers:
\* while one of them sleeps, the queue is no longer than the workers on their
\* way to it and the notifications to come.
THEOREM WakeupsSuffice == Spec => []NoWakeupLost
  <1>1. Init => SleepInv /\ NoWakeupLost
    BY DEF Init, SleepInv, NoWakeupLost, Sleepers
  <1>2. ControlInv /\ SleepInv /\ NoWakeupLost /\ [Next]_vars => NoWakeupLost'
    <2> SUFFICES ASSUME ControlInv, SleepInv, NoWakeupLost, [Next]_vars
                 PROVE  NoWakeupLost'
      OBVIOUS
    <2>1. CASE UNCHANGED vars
      BY <2>1 DEF vars, queueVars, flagVars, workerVars, NoWakeupLost, Notifiers,
                  Claimants, Sleepers
    <2>2. CASE CtorStep
      <3>1. /\ Notifiers' = Notifiers /\ Claimants' = Claimants
            /\ Sleepers' = Sleepers /\ UNCHANGED <<taskQueue, stopping>>
        BY <2>2 DEF CtorStep, CreateWorker, CreateWorkerThrows, UnwindJoin, queueVars,
                    flagVars, workerVars, Notifiers, Claimants, Sleepers, ControlInv,
                    TypeOK, WorkerPC
      <3>2. QED
        BY <3>1 DEF NoWakeupLost
    <2>3. CASE StopStep
      <3>1. stopping'
        BY <2>3 DEF StopStep, StopNotifyAll, StopDrain, StopTakeWorkers, StopJoin,
                    StopClearQueue, StopReset, StopMoves, flagVars, ControlInv, StopInv
      <3>2. QED
        BY <3>1 DEF NoWakeupLost
    <2>4. QED
      BY <2>1, <2>2, <2>3, WorkerKeepsWakeups, ClientKeepsWakeups DEF Next
  <1>3. QED
    BY <1>1, <1>2, Control, SleepStep, PTL DEF Spec

-----------------------------------------------------------------------------
(* A constructor that throws.                                                *)

\* Until the constructor is done nobody can call Stop, and no worker ends.
CtorInv ==
    ctor # "built" =>
        /\ stopStage = "none"
        /\ \A w \in Workers : wpc[w] # "exited"
        /\ ctor # "destroyed" => \A w \in Workers : w \in workers <=> wpc[w] # "unborn"
        /\ ctor = "destroyed" => \A w \in Workers : wpc[w] = "unborn"

LEMMA CtorInvStep == ControlInv /\ CtorInv /\ [Next]_vars => CtorInv'
  <1> SUFFICES ASSUME ControlInv, CtorInv, [Next]_vars
               PROVE  CtorInv'
    OBVIOUS
  <1> USE DEF ControlInv, TypeOK, CtorInv, StopInv, WorkerPC, CtorState, queueVars,
              flagVars, listVars, stopVars, logVars, workerVars, WorkerMoves, StopMoves, Calls
  <1>1. CASE UNCHANGED vars
    BY <1>1 DEF vars
  <1>2. ASSUME NEW w \in Workers, CreateWorker(w)
        PROVE  CtorInv'
    BY <1>2 DEF CreateWorker
  <1>3. CASE CreateWorkerThrows
    BY <1>3 DEF CreateWorkerThrows
  <1>4. CASE UnwindJoin
    BY <1>4 DEF UnwindJoin
  <1>5. ASSUME NEW w \in Workers, WorkerStep(w)
        PROVE  CtorInv'
    <2>1. CASE WorkerTestStop(w)
      BY <2>1 DEF WorkerTestStop
    <2>2. CASE WorkerTestPause(w)
      BY <2>2 DEF WorkerTestPause
    <2>3. CASE WorkerInspect(w)
      BY <2>3 DEF WorkerInspect
    <2>4. CASE WorkerClaim(w)
      BY <2>4 DEF WorkerClaim
    <2>5. CASE WorkerSleep(w) \/ WorkerTimeout(w)
      BY <2>5 DEF WorkerSleep, WorkerTimeout
    <2>6. CASE WorkerActivate(w) \/ WorkerExecute(w) \/ WorkerDeactivate(w)
      BY <2>6 DEF WorkerActivate, WorkerExecute, WorkerDeactivate
    <2>7. QED
      BY <1>5, <2>1, <2>2, <2>3, <2>4, <2>5, <2>6 DEF WorkerStep
  <1>6. ASSUME NEW c \in Clients, ClientStep(c)
        PROVE  CtorInv'
    BY <1>6 DEF ClientStep, SubmitNotifyOne, ResumeNotifyAll, WakeAll, Sleepers
  <1>7. ASSUME NEW c \in Clients, ClientCall(c)
        PROVE  CtorInv'
    BY <1>7 DEF ClientCall, Submit, Pause, Resume, StopBegin
  <1>8. CASE StopStep
    BY <1>8 DEF StopStep, StopNotifyAll, StopDrain, StopTakeWorkers, StopJoin,
                StopClearQueue, StopReset
  <1>9. QED
    BY <1>1, <1>2, <1>3, <1>4, <1>5, <1>6, <1>7, <1>8 DEF Next, CtorStep

\* The exception of a constructor that had started a thread never gets out.
THEOREM ThrowIsSwallowed == Spec => []ThrowsOnlyBeforeFirstWorker
  <1>1. Init => CtorInv
    BY DEF Init, CtorInv
  <1>2. CtorInv => ThrowsOnlyBeforeFirstWorker
    BY DEF CtorInv, ThrowsOnlyBeforeFirstWorker
  <1>3. QED
    BY <1>1, <1>2, Control, CtorInvStep, PTL DEF Spec

-----------------------------------------------------------------------------
(* A Stop that waits for ever.                                               *)

Claiming == \E w \in Workers : wpc[w] = "claim"

\* Stop(true) has raised m_stopping and is not past its poll, with more tasks queued than
\* a worker that was past its own test of the flag is about to claim.
Stranded ==
    /\ stopStage \in {"notify", "drain"} /\ waitForTasks
    /\ taskQueue # <<>>
    /\ Claiming => Len(taskQueue) > 1

LEMMA StrandedStep == ControlInv /\ Stranded /\ [Next]_vars => Stranded'
  <1> SUFFICES ASSUME ControlInv, Stranded, [Next]_vars PROVE Stranded'
    OBVIOUS
  <1> USE DEF ControlInv, TypeOK, queueVars, flagVars, listVars, stopVars, logVars,
              workerVars, WorkerMoves, StopMoves, Calls
  <1>1. stopping /\ pendingTasks = Len(taskQueue) /\ Len(taskQueue) \in Nat \ {0}
    BY EmptySeq DEF Stranded, StopInv, CountInv
  <1>2. ASSUME UNCHANGED <<taskQueue, waitForTasks>>, stopStage' \in {"notify", "drain"},
               \A v \in Workers : wpc'[v] = "claim" => wpc[v] = "claim"
        PROVE  Stranded'
    BY <1>2 DEF Stranded, Claiming
  <1>3. CASE UNCHANGED vars
    BY <1>2, <1>3 DEF vars, Stranded
  <1>4. CASE CtorStep
    BY <1>2, <1>4 DEF CtorStep, CreateWorker, CreateWorkerThrows, UnwindJoin, Stranded
  <1>5. ASSUME NEW w \in Workers, WorkerStep(w)
        PROVE  Stranded'
    <2>1. CASE WorkerClaim(w)
      <3>1. wpc[w] = "claim" /\ wpc' = [wpc EXCEPT ![w] = "activate"]
            /\ taskQueue' = Tail(taskQueue) /\ UNCHANGED <<stopStage, waitForTasks>>
        BY <2>1 DEF WorkerClaim
      <3>2. Len(taskQueue) > 1
        BY <3>1 DEF Stranded, Claiming
      <3>3. Len(taskQueue') = Len(taskQueue) - 1
        BY <1>1, <3>1, HeadTailProperties
      <3>4. taskQueue' # <<>>
        BY <1>1, <3>2, <3>3
      <3>5. \A v \in Workers : wpc[v] = "claim" => v = w
        BY <3>1, ThreadsAssumption DEF LockInv
      <3>6. ~Claiming'
        BY <3>1, <3>5 DEF Claiming
      <3>7. QED
        BY <3>1, <3>4, <3>6 DEF Stranded
    <2>2. CASE ~WorkerClaim(w)
      <3>1. /\ UNCHANGED <<taskQueue, waitForTasks, stopStage>>
            /\ \E to \in WorkerPC \ {"claim"} : wpc' = [wpc EXCEPT ![w] = to]
        BY <1>1, <1>5, <2>2
           DEF WorkerStep, WorkerTestStop, WorkerTestPause, WorkerInspect, WorkerSleep,
               WorkerTimeout, WorkerActivate, WorkerExecute, WorkerDeactivate, WorkerPC
      <3>2. \A v \in Workers : wpc'[v] = "claim" => wpc[v] = "claim"
        BY <3>1
      <3>3. QED
        BY <1>2, <3>1, <3>2 DEF Stranded
    <2>3. QED
      BY <2>1, <2>2
  <1>6. ASSUME NEW c \in Clients, NEW t \in Tasks, Submit(c, t)
        PROVE  Stranded'
    <2>1. /\ taskQueue' = Append(taskQueue, t)
          /\ UNCHANGED <<stopStage, waitForTasks, wpc>>
      BY <1>6 DEF Submit
    <2>2. Len(taskQueue') = Len(taskQueue) + 1
      BY <2>1, AppendProperties
    <2>3. taskQueue' # <<>>
      BY <1>1, <2>2, EmptySeq
    <2>4. QED
      BY <1>1, <2>1, <2>2, <2>3 DEF Stranded, Claiming
  <1>7. ASSUME NEW c \in Clients, ClientStep(c) \/ Pause(c) \/ Resume(c)
        PROVE  Stranded'
    BY <1>2, <1>7 DEF ClientStep, SubmitNotifyOne, ResumeNotifyAll, WakeAll, Sleepers,
                      Pause, Resume, Stranded
  <1>8. ASSUME NEW c \in Clients, NEW wait \in BOOLEAN, StopBegin(c, wait)
        PROVE  Stranded'
    BY <1>1, <1>8 DEF StopBegin
  <1>9. CASE StopStep
    <2>1. StopNotifyAll
      BY <1>1, <1>9 DEF StopStep, StopDrain, StopTakeWorkers, StopJoin, StopClearQueue,
                        StopReset, Stranded
    <2>2. QED
      BY <1>2, <2>1 DEF StopNotifyAll, WakeAll, Sleepers, Stranded
  <1>10. QED
    BY <1>3, <1>4, <1>5, <1>6, <1>7, <1>8, <1>9 DEF Next, ClientCall

\* Why Stop(true) may hang (pool.cpp:106, 145): with a task queued that no worker was
\* about to claim when m_stopping was raised, it stays in its poll for ever, whatever
\* workers and clients do and however they are scheduled.
THEOREM StrandedForEver == Spec => [](Stranded => []Stranded)
  <1>1. Spec => [][Next]_vars /\ []ControlInv
    BY Control DEF Spec
  <1>2. QED
    BY <1>1, StrandedStep, PTL
=============================================================================
