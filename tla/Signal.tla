-------------------------------- MODULE Signal --------------------------------
(***************************************************************************)
(* Event, with automatic and manual reset, and Semaphore (event.cpp,       *)
(* semaphore.cpp), over the objects of Windows.  A behaviour uses one      *)
(* object, of a class chosen at the start.                                 *)
(***************************************************************************)
EXTENDS Callers

CONSTANTS
    MaxCount,   \* the semaphore's maxCount
    MaxRelease, \* bound: the largest argument of Release
    MaxGiven    \* bound: the signals given in all

ASSUME SignalAssumption ==
    MaxCount \in Nat \ {0} /\ MaxRelease \in Nat /\ MaxGiven \in Nat

VARIABLES
    signalClass,  \* "auto", "manual" or "semaphore"
    signals,      \* the count; for an Event, 1 if it is signalled
    spc,          \* where each thread is in Wait or Acquire
    stimed,       \* whether it passed a finite timeout
    given,        \* history: signals given by Set and Release
    taken,        \* history: waits and queries that used one up
    lost          \* history: signals that fell on a signalled Event, or were reset

signalVars == <<signalClass, signals, spc, stimed, given, taken, lost>>

Limit == IF signalClass = "semaphore" THEN MaxCount ELSE 1

SignalTypeOK ==
    /\ signalClass \in {"auto", "manual", "semaphore"}
    /\ signals \in 0..Limit
    /\ spc \in [Threads -> {"out", "waiting"}]
    /\ stimed \in [Threads -> BOOLEAN]
    /\ given \in 0..MaxGiven /\ taken \in Nat /\ lost \in Nat

\* initiallySignaled, or initialCount, counts as given.
SignalInit ==
    /\ signalClass \in {"auto", "manual", "semaphore"}
    /\ signals \in 0..Limit /\ signals <= MaxGiven
    /\ given = signals /\ taken = 0 /\ lost = 0
    /\ spc = [t \in Threads |-> "out"]
    /\ stimed = [t \in Threads |-> FALSE]

-----------------------------------------------------------------------------
(* Giving.                                                                   *)

SetEvent ==
    /\ signalClass # "semaphore" /\ given < MaxGiven
    /\ given' = given + 1
    /\ lost' = lost + signals
    /\ signals' = 1
    /\ UNCHANGED <<signalClass, spc, stimed, taken>>

ResetEvent ==
    /\ signalClass # "semaphore"
    /\ lost' = lost + signals
    /\ signals' = 0
    /\ UNCHANGED <<signalClass, spc, stimed, given, taken>>

\* Faulty variant: Release fills the semaphore up as far as it goes.
ReleaseClipped(n) ==
    /\ signalClass = "semaphore" /\ given + n <= MaxGiven
    /\ signals' = IF signals + n > MaxCount THEN MaxCount ELSE signals + n
    /\ given' = given + n
    /\ UNCHANGED <<signalClass, spc, stimed, taken, lost>>

\* A Release that would pass the maximum throws and gives nothing.
Release(n) ==
    /\ signalClass = "semaphore" /\ given + n <= MaxGiven
    /\ signals + n <= MaxCount
    /\ signals' = signals + n
    /\ given' = given + n
    /\ UNCHANGED <<signalClass, spc, stimed, taken, lost>>

-----------------------------------------------------------------------------
(* Taking.                                                                   *)

\* What WaitForSingleObject does to an object it finds signalled.
UseUp ==
    /\ signals > 0
    /\ IF signalClass = "manual"
       THEN UNCHANGED <<signals, taken>>
       ELSE signals' = signals - 1 /\ taken' = taken + 1

AskForSignal(t, withTimeout) ==
    /\ spc[t] = "out"
    /\ spc' = [spc EXCEPT ![t] = "waiting"]
    /\ stimed' = [stimed EXCEPT ![t] = withTimeout]
    /\ UNCHANGED <<signalClass, signals, given, taken, lost>>

GetSignal(t) ==
    /\ spc[t] = "waiting"
    /\ UseUp
    /\ spc' = [spc EXCEPT ![t] = "out"]
    /\ UNCHANGED <<signalClass, stimed, given, lost>>

\* Wait answers false, Acquire throws.
SignalTimesOut(t) ==
    /\ spc[t] = "waiting" /\ stimed[t]
    /\ spc' = [spc EXCEPT ![t] = "out"]
    /\ UNCHANGED <<signalClass, signals, stimed, given, taken, lost>>

\* TryAcquire of a free semaphore.
TryAcquire(t) ==
    /\ signalClass = "semaphore" /\ spc[t] = "out"
    /\ UseUp
    /\ UNCHANGED <<signalClass, spc, stimed, given, lost>>

\* Faulty variant: the query leaves the signal, but its caller acts on it.
IsSignaledPeeks(t) ==
    /\ signalClass # "semaphore" /\ spc[t] = "out" /\ signals > 0
    /\ taken' = IF signalClass = "auto" THEN taken + 1 ELSE taken
    /\ UNCHANGED <<signalClass, signals, spc, stimed, given, lost>>

\* IsSignaled answers true.  It is a wait with a timeout of 0: the signal of an
\* Event with automatic reset is gone afterwards.
IsSignaled(t) ==
    /\ signalClass # "semaphore" /\ spc[t] = "out"
    /\ UseUp
    /\ UNCHANGED <<signalClass, spc, stimed, given, lost>>

SignalNext ==
    \/ SetEvent \/ ResetEvent \/ \E n \in 1..MaxRelease : Release(n)
    \/ \E t \in Threads :
          \/ \E withTimeout \in BOOLEAN : AskForSignal(t, withTimeout)
          \/ GetSignal(t) \/ SignalTimesOut(t) \/ TryAcquire(t) \/ IsSignaled(t)

SignalSpec == SignalInit /\ [][SignalNext]_signalVars

-----------------------------------------------------------------------------
(* Properties.                                                               *)

\* Each signal is for one caller: what was given is still there, was taken by
\* exactly one wait or query, or was lost on an Event that had one already.  A
\* semaphore loses none, and a query that answers true takes one (event.cpp:74).
SignalsConserved ==
    signalClass # "manual" =>
        /\ given = signals + taken + lost
        /\ signalClass = "semaphore" => lost = 0
================================================================================
