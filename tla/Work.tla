--------------------------------- MODULE Work ---------------------------------
(***************************************************************************)
(* ezthread::async::Work (async.hpp, async.cpp) over the work objects of   *)
(* the Windows thread pool.  One thread owns the objects: it submits,      *)
(* cancels, moves and destroys; others wait.  Each Submit makes one        *)
(* context and one pool work, named by the number of the Submit; 0 is the  *)
(* null pointer.  What a callback does with a context that is freed is     *)
(* undefined, and not followed here.                                       *)
(***************************************************************************)
EXTENDS Naturals

CONSTANTS
    Works,       \* the Work objects
    NoWork,      \* not one of them
    Observers,   \* the threads that call Wait
    MaxSubmits   \* bound: calls of Submit

ASSUME WorkAssumption == NoWork \notin Works /\ MaxSubmits \in Nat

VARIABLES
    work,      \* m_work of each object, and m_context with it
    complete,  \* m_complete
    submits,   \* how many contexts there have been
    self,      \* the object each context was made by
    stage,     \* how far the pool is with each
    wopc,      \* where the owner is in Cancel
    wobj,      \* of this object
    vpc,       \* where each observer is in Wait
    vobj,      \* for this object
    dropped,   \* history: contexts freed by a destructor or a move, not by Cancel
    shifted,   \* history: the objects that were moved, from or to
    vain       \* history: the objects that have no submission, or whose last failed

workVars == <<work, complete, submits, self, stage, wopc, wobj, vpc, vobj,
              dropped, shifted, vain>>

Submissions == 1..MaxSubmits

WorkTypeOK ==
    /\ work \in [Works -> 0..submits]
    /\ complete \in [Works -> BOOLEAN]
    /\ submits \in 0..MaxSubmits
    /\ self \in [Submissions -> Works \cup {NoWork}]
    /\ stage \in [Submissions -> {"none", "queued", "running", "returned", "over"}]
    /\ wopc \in {"idle", "wait", "complete"}
    /\ wobj \in Works \cup {NoWork}
    /\ vpc \in [Observers -> {"idle", "asleep", "woken"}]
    /\ vobj \in [Observers -> Works \cup {NoWork}]
    /\ dropped \subseteq 1..submits /\ shifted \subseteq Works /\ vain \subseteq Works

WorkInit ==
    /\ work = [x \in Works |-> 0] /\ complete = [x \in Works |-> FALSE]
    /\ submits = 0
    /\ self = [k \in Submissions |-> NoWork]
    /\ stage = [k \in Submissions |-> "none"]
    /\ wopc = "idle" /\ wobj = NoWork
    /\ vpc = [v \in Observers |-> "idle"] /\ vobj = [v \in Observers |-> NoWork]
    /\ dropped = {} /\ shifted = {} /\ vain = Works

poolVars     == <<submits, self, stage>>
ownerState   == <<wopc, wobj>>
observerVars == <<vpc, vobj>>
pastVars     == <<dropped, shifted, vain>>

\* The callback of the context k is not over.
Pending(k) == stage[k] \in {"queued", "running", "returned"}

-----------------------------------------------------------------------------
(* The owner: Submit and Cancel.                                             *)

\* Faulty variant: m_complete keeps the value of the last submission.
SubmitKeepsComplete(x) ==
    /\ wopc = "idle" /\ work[x] = 0 /\ submits < MaxSubmits
    /\ submits' = submits + 1
    /\ work' = [work EXCEPT ![x] = submits']
    /\ self' = [self EXCEPT ![submits'] = x]
    /\ stage' = [stage EXCEPT ![submits'] = "queued"]
    /\ vain' = vain \ {x}
    /\ UNCHANGED <<complete, ownerState, observerVars, dropped, shifted>>

\* Submit throws while m_work is set.  m_complete is cleared without m_mutex.
SubmitWork(x) ==
    /\ wopc = "idle" /\ work[x] = 0 /\ submits < MaxSubmits
    /\ submits' = submits + 1
    /\ work' = [work EXCEPT ![x] = submits']
    /\ self' = [self EXCEPT ![submits'] = x]
    /\ complete' = [complete EXCEPT ![x] = FALSE]
    /\ stage' = [stage EXCEPT ![submits'] = "queued"]
    /\ vain' = vain \ {x}
    /\ UNCHANGED <<ownerState, observerVars, dropped, shifted>>

\* CreateThreadpoolWork fails: whoever waits, waits in vain until the next call.
SubmitThrows(x) ==
    /\ wopc = "idle" /\ work[x] = 0
    /\ complete' = [complete EXCEPT ![x] = FALSE]
    /\ vain' = vain \cup {x}
    /\ UNCHANGED <<work, poolVars, ownerState, observerVars, dropped, shifted>>

\* WaitForThreadpoolWorkCallbacks drops a callback that has not begun.
Cancel(x) ==
    /\ wopc = "idle"
    /\ wobj' = x
    /\ wopc' = IF work[x] # 0 THEN "wait" ELSE "complete"
    /\ stage' = [k \in Submissions |->
                   IF k = work[x] /\ stage[k] = "queued" THEN "over" ELSE stage[k]]
    /\ UNCHANGED <<work, complete, submits, self, observerVars, pastVars>>

\* Faulty variant: the work is closed while its callback runs.
CloseWorkUnwaited ==
    /\ wopc = "wait"
    /\ work' = [work EXCEPT ![wobj] = 0]
    /\ wopc' = "complete"
    /\ UNCHANGED <<complete, poolVars, wobj, observerVars, pastVars>>

CloseWork ==
    /\ wopc = "wait" /\ ~Pending(work[wobj])
    /\ work' = [work EXCEPT ![wobj] = 0]
    /\ wopc' = "complete"
    /\ UNCHANGED <<complete, poolVars, wobj, observerVars, pastVars>>

\* Those who sleep in Wait for x.
WakeObservers(x) ==
    vpc' = [v \in Observers |->
              IF vpc[v] = "asleep" /\ vobj[v] = x THEN "woken" ELSE vpc[v]]

CancelComplete ==
    /\ wopc = "complete"
    /\ complete' = [complete EXCEPT ![wobj] = TRUE]
    /\ WakeObservers(wobj)
    /\ wopc' = "idle" /\ wobj' = NoWork
    /\ UNCHANGED <<work, poolVars, vobj, pastVars>>

-----------------------------------------------------------------------------
(* The owner: moves and destruction, of an object nobody waits for.  They    *)
(* close the work without waiting, and free the context.                     *)

Unwatched(x) == \A v \in Observers : vobj[v] # x

DropContext(x) == dropped' = dropped \cup {k \in {work[x]} \ {0} : Pending(k)}

\* The context keeps the address of the object that submitted it.  The move
\* constructor does the same to a new object.
MoveWork(x, y) ==
    /\ wopc = "idle" /\ x # y /\ Unwatched(x)
    /\ DropContext(x)
    /\ work' = [work EXCEPT ![x] = work[y], ![y] = 0]
    /\ complete' = [complete EXCEPT ![x] = complete[y]]
    /\ shifted' = shifted \cup {x, y}
    /\ UNCHANGED <<poolVars, ownerState, observerVars, vain>>

\* ~Work, and then a new object in the same place.
RenewWork(x) ==
    /\ wopc = "idle" /\ Unwatched(x)
    /\ DropContext(x)
    /\ work' = [work EXCEPT ![x] = 0]
    /\ complete' = [complete EXCEPT ![x] = FALSE]
    /\ vain' = vain \cup {x}
    /\ UNCHANGED <<poolVars, ownerState, observerVars, shifted>>

-----------------------------------------------------------------------------
(* The thread pool, and WorkCallback.                                        *)

Proceed(k, from, to) ==
    /\ stage[k] = from /\ k \notin dropped
    /\ stage' = [stage EXCEPT ![k] = to]
    /\ UNCHANGED <<work, submits, self, ownerState, vobj, pastVars>>

RunWork(k) == Proceed(k, "queued", "running") /\ UNCHANGED <<complete, vpc>>

\* The user's function returns or throws.
WorkReturns(k) == Proceed(k, "running", "returned") /\ UNCHANGED <<complete, vpc>>

\* Faulty variant: the observers are not notified.
WorkCompletesSilently(k) ==
    /\ Proceed(k, "returned", "over")
    /\ complete' = [complete EXCEPT ![self[k]] = TRUE]
    /\ UNCHANGED vpc

WorkCompletes(k) ==
    /\ Proceed(k, "returned", "over")
    /\ complete' = [complete EXCEPT ![self[k]] = TRUE]
    /\ WakeObservers(self[k])

-----------------------------------------------------------------------------
(* The observers.                                                            *)

\* v is where pc says in Wait for x.
InWait(v, pc, x) ==
    /\ vpc' = [vpc EXCEPT ![v] = pc]
    /\ vobj' = [vobj EXCEPT ![v] = IF pc = "idle" THEN NoWork ELSE x]
    /\ UNCHANGED <<work, complete, poolVars, ownerState, pastVars>>

\* The test of m_complete, on entry and after each wake-up.
WaitTest(x) == IF complete[x] THEN "idle" ELSE "asleep"

WaitForWork(v, x) == vpc[v] = "idle" /\ InWait(v, WaitTest(x), x)

WaitAgain(v) == vpc[v] = "woken" /\ InWait(v, WaitTest(vobj[v]), vobj[v])

ObserverWakes(v) == vpc[v] = "asleep" /\ InWait(v, "woken", vobj[v])

\* The timeout, which may be INFINITE, ends a sleep, and Wait throws.
WaitThrows(v) == vpc[v] = "asleep" /\ InWait(v, "idle", NoWork)

WorkOwner ==
    \/ \E x \in Works :
          \/ SubmitWork(x) \/ SubmitThrows(x) \/ Cancel(x) \/ RenewWork(x)
          \/ \E y \in Works : MoveWork(x, y)
    \/ CloseWork \/ CancelComplete

WorkPool(k) == RunWork(k) \/ WorkReturns(k) \/ WorkCompletes(k)

WorkNext ==
    \/ WorkOwner
    \/ \E k \in Submissions : WorkPool(k)
    \/ \E v \in Observers :
          \/ \E x \in Works : WaitForWork(v, x)
          \/ WaitAgain(v) \/ ObserverWakes(v) \/ WaitThrows(v)

WorkSpec == WorkInit /\ [][WorkNext]_workVars

-----------------------------------------------------------------------------
(* Properties.                                                               *)

\* A complete Work has nothing left to run: what it submitted last has returned,
\* or was cancelled before it began.  A Work that was moved may be complete by
\* the callback of another (async.cpp:128-144).
CompleteMeansFinished ==
    \A k \in Submissions :
        Pending(k) /\ k \notin dropped /\ self[k] \notin shifted => ~complete[self[k]]

\* No observer sleeps on a complete Work, through any resubmission; nor on one
\* that nothing will complete, but for one without a submission, one whose Submit
\* failed (async.cpp:165) and one that was moved.
NoObserverForgotten ==
    \A v \in Observers : vpc[v] = "asleep" =>
        /\ ~complete[vobj[v]]
        /\ vobj[v] \notin vain \cup shifted =>
              \/ work[vobj[v]] # 0 /\ Pending(work[vobj[v]])
              \/ wopc # "idle" /\ wobj = vobj[v]

\* A callback, running or to come, finds its context, unless a destructor or a
\* move freed it: Cancel does not (async.cpp:122, 172).
WorkContextOutlivesCallback ==
    \A k \in Submissions : Pending(k) /\ k \notin dropped => \E x \in Works : work[x] = k
================================================================================
