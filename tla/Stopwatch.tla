------------------------------- MODULE Stopwatch -------------------------------
(***************************************************************************)
(* PerformanceCounter and ScopedProfiler (debug.cpp), used by one thread.  *)
(* The counter of Windows starts somewhere above 0 and does not run back.  *)
(***************************************************************************)
EXTENDS Integers

CONSTANT MaxTicks  \* bound: the value of the counter of Windows

ASSUME StopwatchAssumption == MaxTicks \in Nat

VARIABLES
    ticks,      \* QueryPerformanceCounter
    startTime,  \* m_startTime
    endTime,    \* m_endTime
    timing      \* m_running

stopwatchVars == <<ticks, startTime, endTime, timing>>

StopwatchTypeOK ==
    /\ ticks \in 0..MaxTicks /\ startTime \in 0..ticks /\ endTime \in 0..ticks
    /\ timing \in BOOLEAN

StopwatchInit ==
    /\ ticks = 0 /\ startTime = 0 /\ endTime = 0
    /\ timing = FALSE

Tick ==
    /\ ticks < MaxTicks
    /\ ticks' = ticks + 1
    /\ UNCHANGED <<startTime, endTime, timing>>

\* A counter that runs is started anew.
StartTiming ==
    /\ startTime' = ticks
    /\ timing' = TRUE
    /\ UNCHANGED <<ticks, endTime>>

\* A counter that does not run keeps its end.
StopTiming ==
    /\ timing
    /\ endTime' = ticks
    /\ timing' = FALSE
    /\ UNCHANGED <<ticks, startTime>>

\* Faulty variant: Reset leaves the start.
ResetTimingHalf ==
    /\ endTime' = 0 /\ timing' = FALSE
    /\ UNCHANGED <<ticks, startTime>>

ResetTiming ==
    /\ startTime' = 0 /\ endTime' = 0 /\ timing' = FALSE
    /\ UNCHANGED ticks

\* GetElapsedMilliseconds, in ticks.
Elapsed == IF timing THEN ticks - startTime ELSE endTime - startTime

StopwatchNext == Tick \/ StartTiming \/ StopTiming \/ ResetTiming

StopwatchSpec == StopwatchInit /\ [][StopwatchNext]_stopwatchVars

-----------------------------------------------------------------------------
(* Properties.                                                               *)

\* No sequence of Start, Stop and Reset makes the elapsed time negative, though
\* the end of an earlier measurement is kept through the next (debug.cpp:150-191).
NeverNegative == Elapsed >= 0
================================================================================
