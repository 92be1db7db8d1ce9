----------------------------- MODULE TaskExecutor -----------------------------
(***************************************************************************)
(* What a task executor promises, whatever its threads, locks and flags:   *)
(* accepted tasks start in the order of their acceptance, each is started  *)
(* once, a slot runs one task at a time, and a task that is never started  *)
(* is discarded only after the executor has closed, which it does when no  *)
(* task is running.                                                        *)
(***************************************************************************)
EXTENDS Sequences

CONSTANTS Slots, Tasks, NoTask

VARIABLES
    waiting,    \* accepted, not started
    running,    \* the task in each slot
    completed,  \* the tasks that have been executed
    closed      \* nothing starts any more

vars == <<waiting, running, completed, closed>>

AllIdle == \A s \in Slots : running[s] = NoTask

Init ==
    /\ waiting = <<>>
    /\ running = [s \in Slots |-> NoTask]
    /\ completed = {}
    /\ closed = FALSE

\* Closing does not stop callers from handing in tasks.
Accept(t) ==
    /\ waiting' = Append(waiting, t)
    /\ UNCHANGED <<running, completed, closed>>

Start(s) ==
    /\ ~closed
    /\ running[s] = NoTask
    /\ waiting # <<>>
    /\ running' = [running EXCEPT ![s] = Head(waiting)]
    /\ waiting' = Tail(waiting)
    /\ UNCHANGED <<completed, closed>>

Finish(s) ==
    /\ running[s] # NoTask
    /\ completed' = completed \cup {running[s]}
    /\ running' = [running EXCEPT ![s] = NoTask]
    /\ UNCHANGED <<waiting, closed>>

Close ==
    /\ AllIdle
    /\ closed' = TRUE
    /\ UNCHANGED <<waiting, running, completed>>

Discard ==
    /\ closed
    /\ waiting' = <<>>
    /\ UNCHANGED <<running, completed, closed>>

Next ==
    \/ \E t \in Tasks : Accept(t)
    \/ \E s \in Slots : Start(s) \/ Finish(s)
    \/ Close
    \/ Discard

Spec == Init /\ [][Next]_vars
=============================================================================
