-------------------------------- MODULE Latch --------------------------------
(***************************************************************************)
(* ezthread::Latch (sync.hpp, sync.cpp).  Every operation is one critical  *)
(* section of m_mutex, or is cut by a wait; NotifyAll is called inside it. *)
(* IsReady only reads m_count.                                             *)
(***************************************************************************)
EXTENDS Callers

CONSTANTS
    Initial,   \* the count the latch is made with
    MaxStep    \* bound: the largest argument of CountDown

ASSUME LatchAssumption == Initial \in 0..(Modulus - 1) /\ MaxStep \in 0..(Modulus - 1)

VARIABLES
    count,    \* m_count
    lpc,      \* where each thread is in Wait or WaitFor
    ltimed,   \* whether it called WaitFor
    passed    \* the threads whose last wait returned with the latch open

latchVars == <<count, lpc, ltimed, passed>>

LatchTypeOK ==
    /\ count \in 0..Initial
    /\ lpc \in [Threads -> {"out", "asleep", "woken"}]
    /\ ltimed \in [Threads -> BOOLEAN]
    /\ passed \subseteq Threads

LatchInit ==
    /\ count = Initial
    /\ lpc = [t \in Threads |-> "out"]
    /\ ltimed = [t \in Threads |-> FALSE]
    /\ passed = {}

\* Faulty variant: m_count -= count, without the test that it is large enough.
LoweredUnchecked(n) == (count + Modulus - n) % Modulus

Lowered(n) == IF n > count THEN 0 ELSE count - n

\* Faulty variant: only the step from one to zero notifies.
CountDownNotifiesAtOne(t, n) ==
    /\ lpc[t] = "out"
    /\ count' = Lowered(n)
    /\ lpc' = IF count = 1 /\ count' = 0
              THEN NotifyAll(lpc)
              ELSE lpc
    /\ UNCHANGED <<ltimed, passed>>

CountDown(t, n) ==
    /\ lpc[t] = "out"
    /\ count' = Lowered(n)
    /\ lpc' = IF count' = 0
              THEN NotifyAll(lpc)
              ELSE lpc
    /\ UNCHANGED <<ltimed, passed>>

\* The test of m_count: return, or sleep.
Test(t) ==
    IF count = 0
    THEN lpc' = [lpc EXCEPT ![t] = "out"] /\ passed' = passed \cup {t}
    ELSE lpc' = [lpc EXCEPT ![t] = "asleep"] /\ UNCHANGED passed

\* Wait and WaitFor.
Wait(t, withTimeout) ==
    /\ lpc[t] = "out" /\ t \notin passed
    /\ ltimed' = [ltimed EXCEPT ![t] = withTimeout]
    /\ Test(t)
    /\ UNCHANGED count

\* Faulty variant: no loop around the wait.
RetestUnlooped(t) ==
    /\ lpc[t] = "woken"
    /\ lpc' = [lpc EXCEPT ![t] = "out"]
    /\ passed' = passed \cup {t}
    /\ UNCHANGED <<count, ltimed>>

Retest(t) ==
    /\ lpc[t] = "woken"
    /\ Test(t)
    /\ UNCHANGED <<count, ltimed>>

WakeAnyway(t) ==
    /\ lpc[t] = "asleep"
    /\ lpc' = [lpc EXCEPT ![t] = "woken"]
    /\ UNCHANGED <<count, ltimed, passed>>

\* WaitFor returns false, even if the latch opened while it got the mutex back.
RunOut(t) ==
    /\ lpc[t] = "asleep" /\ ltimed[t]
    /\ lpc' = [lpc EXCEPT ![t] = "out"]
    /\ UNCHANGED <<count, ltimed, passed>>

LatchStep(t) ==
    \/ \E n \in 0..MaxStep : CountDown(t, n)
    \/ \E withTimeout \in BOOLEAN : Wait(t, withTimeout)
    \/ Retest(t) \/ WakeAnyway(t) \/ RunOut(t)

LatchNext == \E t \in Threads : LatchStep(t)

LatchSpec == LatchInit /\ [][LatchNext]_latchVars

-----------------------------------------------------------------------------
(* Properties.                                                               *)

\* Nobody gets past a closed latch, and an open one never closes, whatever
\* CountDown is called with.
PassedMeansOpen == passed # {} => count = 0

\* An open latch has no sleeper: each CountDown that leaves it open notifies.
NoSleeperAtOpenLatch == count = 0 => \A t \in Threads : lpc[t] # "asleep"
=============================================================================
