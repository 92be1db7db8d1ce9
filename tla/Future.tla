-------------------------------- MODULE Future --------------------------------
(***************************************************************************)
(* ezthread::Future and Promise (future.hpp, future.cpp), for T and void.  *)
(* A cell is a SharedState.  A root cell belongs to a Promise that some    *)
(* threads may try to satisfy; a derived cell is the one Then creates,     *)
(* satisfied by the detached thread that Then starts.                      *)
(*                                                                         *)
(* Every access to a cell is under its mutex, and a wait releases it       *)
(* atomically, so each critical section is one step.  NotifyAll is called  *)
(* after the mutex is released and is a step of its own.                   *)
(*                                                                         *)
(* Wait and WaitFor are Get and TryGet less the reading of the outcome.    *)
(***************************************************************************)
EXTENDS Naturals

CONSTANTS
    Roots,       \* shared states made by Promise()
    Derived,     \* shared states made by Then, each with its thread
    Setters,     \* threads that call SetValue or SetException once
    Waiters,     \* threads that call Get or TryGet once
    Values,      \* what SetValue or a continuation can store
    Exceptions,  \* what SetException or a continuation can store
    Empty,       \* the content of a cell that is not ready
    NoCell,      \* the cell of a thread that has none yet
    SpuriousWakeups  \* whether a condition variable may wake unprompted

Cells    == Roots \cup Derived
Outcomes == Values \cup Exceptions

ASSUME CellsAssumption    == Roots \cap Derived = {} /\ NoCell \notin Cells
ASSUME OutcomesAssumption == Values \cap Exceptions = {} /\ Empty \notin Outcomes
ASSUME SpuriousAssumption == SpuriousWakeups \in BOOLEAN

VARIABLES
    ready,    \* ready, by cell
    content,  \* value or exception (hasException says which), by cell
    parent,   \* the state whose outcome a derived cell's thread awaits
    dpc,      \* where the thread of each derived cell is
    dvalue,   \* its local variable `value', or the exception it caught
    spc,      \* where each setter is
    scell,    \* the cell it sets
    wpc,      \* where each waiter is
    wcell,    \* the cell it waits for
    timed,    \* whether it called TryGet or WaitFor
    got       \* the outcome it returned

cellVars   == <<ready, content>>
thenVars   == <<parent, dpc, dvalue>>
setterVars == <<spc, scell>>
waiterVars == <<wpc, wcell, timed, got>>
vars == <<cellVars, thenVars, setterVars, waiterVars>>

TypeOK ==
    /\ ready \in [Cells -> BOOLEAN]
    /\ content \in [Cells -> Outcomes \cup {Empty}]
    /\ \A c \in Cells : ready[c] <=> content[c] # Empty
    /\ parent \in [Derived -> Cells \cup {NoCell}]
    /\ dpc \in [Derived -> {"unborn", "check", "asleep", "run", "notify", "done"}]
    /\ dvalue \in [Derived -> Outcomes \cup {Empty}]
    /\ spc \in [Setters -> {"start", "notify", "done", "threw"}]
    /\ scell \in [Setters -> Roots \cup {NoCell}]
    /\ wpc \in [Waiters -> {"start", "asleep", "woken", "returned", "timedOut"}]
    /\ wcell \in [Waiters -> Cells \cup {NoCell}]
    /\ timed \in [Waiters -> BOOLEAN]
    /\ got \in [Waiters -> Outcomes \cup {Empty}]

Init ==
    /\ ready = [c \in Cells |-> FALSE]
    /\ content = [c \in Cells |-> Empty]
    /\ parent = [d \in Derived |-> NoCell]
    /\ dpc = [d \in Derived |-> "unborn"]
    /\ dvalue = [d \in Derived |-> Empty]
    /\ spc = [s \in Setters |-> "start"]
    /\ scell = [s \in Setters |-> NoCell]
    /\ wpc = [w \in Waiters |-> "start"]
    /\ wcell = [w \in Waiters |-> NoCell]
    /\ timed = [w \in Waiters |-> FALSE]
    /\ got = [w \in Waiters |-> Empty]

\* A future exists for a cell once its promise, or Then, has made it.
Exists(c) == c \in Derived => dpc[c] # "unborn"

-----------------------------------------------------------------------------
(* Promise.                                                                  *)

\* Faulty variant: the flag without the outcome.
SatisfyFlagOnly(c, o) ==
    /\ ready' = [ready EXCEPT ![c] = TRUE]
    /\ UNCHANGED content

\* The assignments of SetValue and SetException under the mutex.
Satisfy(c, o) ==
    /\ content' = [content EXCEPT ![c] = o]
    /\ ready' = [ready EXCEPT ![c] = TRUE]

\* Faulty variant: no test of ready.
SetUnchecked(s, c, o) ==
    /\ spc[s] = "start"
    /\ scell' = [scell EXCEPT ![s] = c]
    /\ spc' = [spc EXCEPT ![s] = "notify"]
    /\ Satisfy(c, o)
    /\ UNCHANGED <<thenVars, waiterVars>>

\* SetValue(o) or SetException(o); it throws if the cell is ready already.
Set(s, c, o) ==
    /\ spc[s] = "start"
    /\ scell' = [scell EXCEPT ![s] = c]
    /\ IF ready[c]
       THEN spc' = [spc EXCEPT ![s] = "threw"] /\ UNCHANGED cellVars
       ELSE spc' = [spc EXCEPT ![s] = "notify"] /\ Satisfy(c, o)
    /\ UNCHANGED <<thenVars, waiterVars>>

\* Faulty variant: NotifyOne, which may pick a waiter and leave a continuation.
WakeOne(c) ==
    \/ \E w \in Waiters : /\ wpc[w] = "asleep" /\ wcell[w] = c
                          /\ wpc' = [wpc EXCEPT ![w] = "woken"]
                          /\ dpc' = [d \in Derived |-> IF d = c THEN "done" ELSE dpc[d]]
    \/ /\ \A w \in Waiters : ~(wpc[w] = "asleep" /\ wcell[w] = c)
       /\ UNCHANGED wpc
       /\ dpc' = [d \in Derived |->
                    IF dpc[d] = "asleep" /\ parent[d] = c THEN "check"
                    ELSE IF d = c THEN "done" ELSE dpc[d]]

\* m_state->cv.NotifyAll(): the waiters and the continuations of c.
WakeAll(c) ==
    /\ wpc' = [w \in Waiters |->
                 IF wpc[w] = "asleep" /\ wcell[w] = c THEN "woken" ELSE wpc[w]]
    /\ dpc' = [d \in Derived |->
                 IF dpc[d] = "asleep" /\ parent[d] = c THEN "check"
                 ELSE IF d = c THEN "done" ELSE dpc[d]]

SetNotifyAll(s) ==
    /\ spc[s] = "notify"
    /\ spc' = [spc EXCEPT ![s] = "done"]
    /\ WakeAll(scell[s])
    /\ UNCHANGED <<cellVars, parent, dvalue, scell, wcell, timed, got>>

-----------------------------------------------------------------------------
(* Future.                                                                   *)

Return(w, c) ==
    /\ wpc' = [wpc EXCEPT ![w] = "returned"]
    /\ got' = [got EXCEPT ![w] = content[c]]

\* The test of ready: a waiter returns the outcome or sleeps.
Check(w, c) ==
    IF ready[c] THEN Return(w, c)
                ELSE wpc' = [wpc EXCEPT ![w] = "asleep"] /\ UNCHANGED got

\* Get and Wait (untimed), TryGet and WaitFor (timed), up to the first wait.
Begin(w, c, withTimeout) ==
    /\ wpc[w] = "start"
    /\ Exists(c)
    /\ wcell' = [wcell EXCEPT ![w] = c]
    /\ timed' = [timed EXCEPT ![w] = withTimeout]
    /\ Check(w, c)
    /\ UNCHANGED <<cellVars, thenVars, setterVars>>

\* Faulty variant: Get, too, takes any wake-up for the answer.
ResumeUnlooped(w) ==
    /\ wpc[w] = "woken"
    /\ Return(w, wcell[w])
    /\ UNCHANGED <<cellVars, thenVars, setterVars, wcell, timed>>

\* Get and Wait loop; TryGet and WaitFor take any wake-up for the answer.
Resume(w) ==
    /\ wpc[w] = "woken"
    /\ IF timed[w] THEN Return(w, wcell[w]) ELSE Check(w, wcell[w])
    /\ UNCHANGED <<cellVars, thenVars, setterVars, wcell, timed>>

Timeout(w) ==
    /\ wpc[w] = "asleep" /\ timed[w]
    /\ wpc' = [wpc EXCEPT ![w] = "timedOut"]
    /\ UNCHANGED <<cellVars, thenVars, setterVars, wcell, timed, got>>

SpuriousWake(w) ==
    /\ SpuriousWakeups
    /\ wpc[w] = "asleep"
    /\ wpc' = [wpc EXCEPT ![w] = "woken"]
    /\ UNCHANGED <<cellVars, thenVars, setterVars, wcell, timed, got>>

-----------------------------------------------------------------------------
(* Then, and the thread it starts.                                           *)

Then(d, c) ==
    /\ dpc[d] = "unborn"
    /\ Exists(c)
    /\ parent' = [parent EXCEPT ![d] = c]
    /\ dpc' = [dpc EXCEPT ![d] = "check"]
    /\ UNCHANGED <<cellVars, dvalue, setterVars, waiterVars>>

\* The loop on the parent's ready; what is stored there is copied or thrown.
AwaitParent(d) ==
    /\ dpc[d] = "check"
    /\ IF ready[parent[d]]
       THEN /\ dpc' = [dpc EXCEPT ![d] = "run"]
            /\ dvalue' = [dvalue EXCEPT ![d] = content[parent[d]]]
       ELSE dpc' = [dpc EXCEPT ![d] = "asleep"] /\ UNCHANGED dvalue
    /\ UNCHANGED <<cellVars, parent, setterVars, waiterVars>>

\* Faulty variant: no test of hasException before the function runs.
ContinueUnchecked(d, o) ==
    /\ dpc[d] = "run"
    /\ Satisfy(d, o)
    /\ dpc' = [dpc EXCEPT ![d] = "notify"]
    /\ UNCHANGED <<parent, dvalue, setterVars, waiterVars>>

\* The function runs on a value only; an exception goes to the derived cell as
\* it is.
Continue(d, o) ==
    /\ dpc[d] = "run"
    /\ dvalue[d] \in Exceptions => o = dvalue[d]
    /\ Satisfy(d, o)
    /\ dpc' = [dpc EXCEPT ![d] = "notify"]
    /\ UNCHANGED <<parent, dvalue, setterVars, waiterVars>>

ContinueNotifyAll(d) ==
    /\ dpc[d] = "notify"
    /\ WakeAll(d)
    /\ UNCHANGED <<cellVars, parent, dvalue, setterVars, wcell, timed, got>>

SpuriousThen(d) ==
    /\ SpuriousWakeups
    /\ dpc[d] = "asleep"
    /\ dpc' = [dpc EXCEPT ![d] = "check"]
    /\ UNCHANGED <<cellVars, parent, dvalue, setterVars, waiterVars>>

-----------------------------------------------------------------------------
ThenStep(d) ==
    \/ AwaitParent(d)
    \/ \E o \in Outcomes : Continue(d, o)
    \/ ContinueNotifyAll(d)

Next ==
    \/ \E s \in Setters :
          SetNotifyAll(s) \/ \E c \in Roots, o \in Outcomes : Set(s, c, o)
    \/ \E w \in Waiters :
          \/ \E c \in Cells, withTimeout \in BOOLEAN : Begin(w, c, withTimeout)
          \/ Resume(w) \/ Timeout(w) \/ SpuriousWake(w)
    \/ \E d \in Derived :
          ThenStep(d) \/ SpuriousThen(d) \/ \E c \in Cells : Then(d, c)

Spec == Init /\ [][Next]_vars

\* Threads that can run do run, and a timeout elapses.  Nothing makes a thread
\* begin a call, so a promise may stay unsatisfied.
FairSpec ==
    /\ Spec
    /\ \A s \in Setters : WF_vars(SetNotifyAll(s))
    /\ \A w \in Waiters : WF_vars(Resume(w)) /\ WF_vars(Timeout(w))
    /\ \A d \in Derived : WF_vars(ThenStep(d))

-----------------------------------------------------------------------------
(* Properties.                                                               *)

\* Promises, futures and continuations are one-shot cells: an outcome is never
\* replaced, and an exception travels down the chain of continuations.
Chain == INSTANCE OneShotChain
ImplementsChain == Chain!Spec

\* Of several threads that satisfy one promise, one succeeds, and the others'
\* exception is raised only after it has.
OneSetterWins ==
    \A s \in Setters :
        /\ spc[s] = "threw" =>
              \E r \in Setters : scell[r] = scell[s] /\ spc[r] \in {"notify", "done"}
        /\ spc[s] \in {"notify", "done"} =>
              \A r \in Setters \ {s} : scell[r] = scell[s] => spc[r] = "threw"

\* Whatever the wake-ups, Get returns the outcome that every other Get of the
\* same future returns.
GetReturnsOutcome ==
    \A w \in Waiters :
        wpc[w] = "returned" /\ ~timed[w] =>
            got[w] # Empty /\ got[w] = content[wcell[w]]

\* What SetValue and Get tell their callers is true: the one setter that does not
\* throw decides the outcome, and every Get returns it (future.cpp:22-37, 156-171).
OutcomesAreHonest == OneSetterWins /\ GetReturnsOutcome

\* TryGet and WaitFor return true only when the outcome is there, as the test
\* that asserts IsReady after a WaitAll supposes (test_ezthread.cpp:1091-1094).
TimedTrueMeansReady ==
    \A w \in Waiters :
        wpc[w] = "returned" /\ timed[w] => got[w] # Empty

\* No thread sleeps through the satisfaction of its cell: while one sleeps on
\* a ready cell, the thread that satisfied it has still to notify.
NoSleeperForgotten ==
    \A c \in Cells :
        ready[c] /\ ((\E w \in Waiters : wpc[w] = "asleep" /\ wcell[w] = c)
                        \/ \E d \in Derived : dpc[d] = "asleep" /\ parent[d] = c) =>
            \/ c \in Derived /\ dpc[c] = "notify"
            \/ \E s \in Setters : spc[s] = "notify" /\ scell[s] = c

\* Once a promise is satisfied, each untimed wait for it returns and each
\* continuation of it completes, down to the end of the chain.
SatisfiedReachesAll ==
    /\ \A w \in Waiters, c \in Cells :
          (wcell[w] = c /\ ready[c]) ~> (wpc[w] \in {"returned", "timedOut"})
    /\ \A d \in Derived, c \in Cells :
          (parent[d] = c /\ ready[c]) ~> (ready[d] /\ dpc[d] = "done")
=============================================================================
