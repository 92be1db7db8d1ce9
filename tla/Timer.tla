--------------------------------- MODULE Timer ---------------------------------
(***************************************************************************)
(* ezthread::async::Timer (async.hpp, async.cpp) over the timers of the    *)
(* Windows thread pool.  One thread owns the Timer objects and calls them; *)
(* the pool's threads run the callbacks.  A step is a call to the pool, a  *)
(* critical section of m_mutex, or an access to an object outside it.      *)
(*                                                                         *)
(* Every Start makes one context and one pool timer: both are named by the *)
(* number of the Start, and 0 is the null pointer.  The user's function    *)
(* does not call the Timer it is called by.                                *)
(***************************************************************************)
EXTENDS Naturals

CONSTANTS
    Timers,      \* the Timer objects
    NoTimer,     \* not one of them
    MaxStarts,   \* bound: calls of Start
    MaxOverlap   \* bound: callbacks of one pool timer at the same time

ASSUME TimerAssumption ==
    /\ NoTimer \notin Timers
    /\ MaxStarts \in Nat /\ MaxOverlap \in Nat \ {0}

VARIABLES
    handle,      \* m_timer
    context,     \* m_context
    running,     \* m_running
    starts,      \* how many contexts there have been
    ctxTimer,    \* timer, by context
    ctxOneShot,  \* isOneShot, by context
    ctxAlive,    \* the contexts that are not freed
    armed,       \* the pool timers that will fire
    inCallback,  \* how many callbacks of each pool timer run the user's function
    clearing,    \* the one-shot timers whose callback has still to clear m_running
    opc,         \* where the owner is in its call
    object,      \* the object it called
    source,      \* what it moves from; in Stop the object itself, in Start none
    oneShot,     \* whether periodMs is 0 in its call of Start
    moved        \* whether a Timer was ever moved

objectVars   == <<handle, context, running, moved>>
contextVars  == <<starts, ctxTimer, ctxOneShot, ctxAlive>>
callbackVars == <<inCallback, clearing>>
ownerVars    == <<opc, object, source, oneShot>>
timerVars == <<objectVars, contextVars, armed, callbackVars, ownerVars>>

Contexts == 1..MaxStarts

TimerTypeOK ==
    /\ handle \in [Timers -> 0..MaxStarts] /\ context \in [Timers -> 0..MaxStarts]
    /\ running \in [Timers -> BOOLEAN] /\ moved \in BOOLEAN
    /\ starts \in 0..MaxStarts
    /\ ctxTimer \in [Contexts -> Timers \cup {NoTimer}]
    /\ ctxOneShot \in [Contexts -> BOOLEAN]
    /\ ctxAlive \subseteq 1..starts /\ armed \subseteq 1..starts
    /\ inCallback \in [Contexts -> 0..MaxOverlap] /\ clearing \subseteq 1..starts
    /\ opc \in {"idle", "wait", "reset", "create", "arm", "flag", "take"}
    /\ object \in Timers \cup {NoTimer} /\ source \in Timers \cup {NoTimer}
    /\ oneShot \in BOOLEAN

TimerInit ==
    /\ handle = [x \in Timers |-> 0] /\ context = [x \in Timers |-> 0]
    /\ running = [x \in Timers |-> FALSE] /\ moved = FALSE
    /\ starts = 0
    /\ ctxTimer = [k \in Contexts |-> NoTimer]
    /\ ctxOneShot = [k \in Contexts |-> FALSE]
    /\ ctxAlive = {} /\ armed = {}
    /\ inCallback = [k \in Contexts |-> 0] /\ clearing = {}
    /\ opc = "idle" /\ object = NoTimer /\ source = NoTimer /\ oneShot = FALSE

-----------------------------------------------------------------------------
(* Stop, which Start and the move assignment begin with, and ~Timer is.      *)

\* Faulty variant: the pool timer is not disarmed before the wait.
DisarmNothing(x) == UNCHANGED armed

Disarm(x) == armed' = armed \ {handle[x]}

BeginStop(x) ==
    /\ opc = "idle"
    /\ object' = x
    /\ Disarm(x)
    /\ opc' = IF handle[x] # 0 THEN "wait" ELSE "reset"
    /\ UNCHANGED <<objectVars, contextVars, callbackVars>>

Stop(x) ==
    /\ BeginStop(x)
    /\ oneShot' = FALSE /\ source' = x

Start(x, once) ==
    /\ starts < MaxStarts
    /\ BeginStop(x)
    /\ oneShot' = once /\ source' = NoTimer

MoveAssign(x, y) ==
    /\ x # y
    /\ BeginStop(x)
    /\ oneShot' = FALSE /\ source' = y

\* Faulty variant: CloseThreadpoolTimer without the wait.
CloseUnwaited ==
    /\ opc = "wait"
    /\ handle' = [handle EXCEPT ![object] = 0]
    /\ opc' = "reset"
    /\ UNCHANGED <<context, running, moved, contextVars, armed, callbackVars,
                   object, source, oneShot>>

\* WaitForThreadpoolTimerCallbacks and CloseThreadpoolTimer.
CloseTimer ==
    /\ opc = "wait"
    /\ inCallback[handle[object]] = 0 /\ handle[object] \notin clearing
    /\ handle' = [handle EXCEPT ![object] = 0]
    /\ opc' = "reset"
    /\ UNCHANGED <<context, running, moved, contextVars, armed, callbackVars,
                   object, source, oneShot>>

\* The end of Stop, and what the caller of Stop goes on with.
ResetContext ==
    /\ opc = "reset"
    /\ running' = [running EXCEPT ![object] = FALSE]
    /\ ctxAlive' = ctxAlive \ {context[object]}
    /\ context' = [context EXCEPT ![object] = 0]
    /\ opc' = IF source = NoTimer THEN "create"
              ELSE IF source = object THEN "idle" ELSE "take"
    /\ UNCHANGED <<handle, moved, starts, ctxTimer, ctxOneShot, armed, callbackVars,
                   object, source, oneShot>>

-----------------------------------------------------------------------------
(* The rest of Start and of the moves.                                       *)

CreateTimer ==
    /\ opc = "create"
    /\ LET k == starts + 1
       IN  /\ starts' = k
           /\ context' = [context EXCEPT ![object] = k]
           /\ handle' = [handle EXCEPT ![object] = k]
           /\ ctxTimer' = [ctxTimer EXCEPT ![k] = object]
           /\ ctxOneShot' = [ctxOneShot EXCEPT ![k] = oneShot]
           /\ ctxAlive' = ctxAlive \cup {k}
    /\ opc' = "arm"
    /\ UNCHANGED <<running, moved, armed, callbackVars, object, source, oneShot>>

\* Faulty variant: the null handle goes unnoticed.
CreateThrowsUnnoticed ==
    /\ opc = "create"
    /\ opc' = "arm"
    /\ UNCHANGED <<objectVars, contextVars, armed, callbackVars, object, source, oneShot>>

\* CreateThreadpoolTimer fails: the context is freed again and Start throws.
CreateThrows ==
    /\ opc = "create"
    /\ opc' = "idle"
    /\ UNCHANGED <<objectVars, contextVars, armed, callbackVars, object, source, oneShot>>

Arm ==
    /\ opc = "arm"
    /\ armed' = armed \cup {handle[object]}
    /\ opc' = "flag"
    /\ UNCHANGED <<objectVars, contextVars, callbackVars, object, source, oneShot>>

\* By now the timer may have fired, and the callback may be over.
FlagRunning ==
    /\ opc = "flag"
    /\ running' = [running EXCEPT ![object] = TRUE]
    /\ opc' = "idle"
    /\ UNCHANGED <<handle, context, moved, contextVars, armed, callbackVars,
                   object, source, oneShot>>

\* The move constructor does the same to a new object.  The context keeps the
\* address of the object that made it.
TakeOver ==
    /\ opc = "take"
    /\ handle' = [handle EXCEPT ![object] = handle[source], ![source] = 0]
    /\ context' = [context EXCEPT ![object] = context[source], ![source] = 0]
    /\ running' = [running EXCEPT ![object] = running[source], ![source] = FALSE]
    /\ moved' = TRUE
    /\ opc' = "idle"
    /\ UNCHANGED <<contextVars, armed, callbackVars, object, source, oneShot>>

-----------------------------------------------------------------------------
(* The thread pool, and TimerCallback.                                       *)

\* An armed timer fires; a periodic one stays armed, whether or not its last
\* callback is over.
Fire(k) ==
    /\ k \in armed /\ inCallback[k] < MaxOverlap
    /\ inCallback' = [inCallback EXCEPT ![k] = @ + 1]
    /\ armed' = IF ctxOneShot[k] THEN armed \ {k} ELSE armed
    /\ UNCHANGED <<objectVars, contextVars, clearing, ownerVars>>

\* Faulty variant: a periodic timer's callback clears m_running, too.
UserReturnsAlwaysClears(k) ==
    /\ inCallback[k] > 0
    /\ inCallback' = [inCallback EXCEPT ![k] = @ - 1]
    /\ clearing' = clearing \cup {k}
    /\ UNCHANGED <<objectVars, contextVars, armed, ownerVars>>

\* The user's function returns or throws.
UserReturns(k) ==
    /\ inCallback[k] > 0
    /\ inCallback' = [inCallback EXCEPT ![k] = @ - 1]
    /\ clearing' = IF ctxOneShot[k] THEN clearing \cup {k} ELSE clearing
    /\ UNCHANGED <<objectVars, contextVars, armed, ownerVars>>

ClearRunning(k) ==
    /\ k \in clearing
    /\ clearing' = clearing \ {k}
    /\ running' = [running EXCEPT ![ctxTimer[k]] = FALSE]
    /\ UNCHANGED <<handle, context, moved, contextVars, armed, inCallback, ownerVars>>

-----------------------------------------------------------------------------
TimerCall ==
    \E x \in Timers :
        \/ Stop(x)
        \/ \E once \in BOOLEAN : Start(x, once)
        \/ \E y \in Timers : MoveAssign(x, y)

TimerOwner ==
    CloseTimer \/ ResetContext \/ CreateTimer \/ CreateThrows \/ Arm \/ FlagRunning \/ TakeOver

TimerCallback(k) == UserReturns(k) \/ ClearRunning(k)

TimerNext ==
    \/ TimerCall
    \/ TimerOwner
    \/ \E k \in Contexts : Fire(k) \/ TimerCallback(k)

TimerSpec == TimerInit /\ [][TimerNext]_timerVars

-----------------------------------------------------------------------------
(* Properties.                                                               *)

\* A callback, running or to come, finds its context: Stop frees it when no
\* callback is left, whatever else the object went through.
ContextOutlivesCallbacks ==
    \A k \in Contexts :
        k \in armed \/ inCallback[k] > 0 \/ k \in clearing => k \in ctxAlive

\* IsRunning is false only for a timer that neither runs nor will run the user's
\* function, as long as no Timer was moved: a moved timer's context clears the
\* flag of the object it was moved from.
NotRunningMeansQuiet ==
    opc = "idle" /\ ~moved =>
        \A x \in Timers :
            handle[x] # 0 /\ ~running[x] =>
                handle[x] \notin armed /\ inCallback[handle[x]] = 0

\* Stop returns, however often the timer fires.
StopTerminates == (opc = "wait") ~> (opc # "wait")

\* A one-shot timer whose callback is over is not running: the test asserts it
\* of a timer that had time to fire (test_ezthread.cpp:1168-1175).
DoneOneShotNotRunning ==
    opc = "idle" /\ ~moved =>
        \A x \in Timers :
            running[x] /\ ctxOneShot[handle[x]] =>
                \/ handle[x] \in armed \cup clearing
                \/ inCallback[handle[x]] > 0
================================================================================
