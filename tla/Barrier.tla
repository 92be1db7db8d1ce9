------------------------------- MODULE Barrier -------------------------------
(***************************************************************************)
(* ezthread::Barrier (sync.hpp, sync.cpp): Wait and WaitFor.  All of it    *)
(* runs under m_mutex, so a step is a critical section, a wake-up, or the  *)
(* expiry of a timeout; a thread whose timeout expired has still to get    *)
(* the mutex back.                                                         *)
(***************************************************************************)
EXTENDS Callers

CONSTANTS
    Count,       \* m_count
    Rounds,      \* bound: calls per thread
    TimedCalls   \* whether threads call WaitFor at all

\* The constructor throws on a count of zero.
ASSUME BarrierAssumption == Count \in Nat \ {0} /\ Rounds \in Nat
\* The counter can hold the barrier's count.
ASSUME CounterAssumption == Count < Modulus

VARIABLES
    generation,  \* m_generation
    waiting,     \* m_waiting
    bpc,         \* where each thread is in Wait or WaitFor
    bgen,        \* its currentGeneration
    btimed,      \* whether it called WaitFor
    calls        \* the calls it has made

barrierVars == <<generation, waiting, bpc, bgen, btimed, calls>>

BarrierTypeOK ==
    /\ generation \in Nat
    /\ waiting \in 0..(Modulus - 1)
    /\ bpc \in [Threads -> {"out", "asleep", "woken", "expired"}]
    /\ bgen \in [Threads -> Nat]
    /\ \A t \in Threads : bgen[t] <= generation
    /\ btimed \in [Threads -> BOOLEAN]
    /\ calls \in [Threads -> 0..Rounds]

BarrierInit ==
    /\ generation = 0
    /\ waiting = 0
    /\ bpc = [t \in Threads |-> "out"]
    /\ bgen = [t \in Threads |-> 0]
    /\ btimed = [t \in Threads |-> FALSE]
    /\ calls = [t \in Threads |-> 0]

Plus1(n)  == (n + 1) % Modulus
Minus1(n) == (n + Modulus - 1) % Modulus

\* Faulty variant: the last thread in is one too early.
TripsEarly == Plus1(waiting) >= Count - 1

\* m_waiting == m_count, once the caller is counted.
Trips == Plus1(waiting) = Count

\* Faulty variant: the last thread in wakes one of the others.
ArriveNotifyOne(t, withTimeout) ==
    /\ bpc[t] = "out" /\ calls[t] < Rounds
    /\ calls' = [calls EXCEPT ![t] = @ + 1]
    /\ bgen' = [bgen EXCEPT ![t] = generation]
    /\ btimed' = [btimed EXCEPT ![t] = withTimeout]
    /\ IF Trips
       THEN /\ waiting' = 0
            /\ generation' = generation + 1
            /\ LET asleep == {u \in Threads : bpc[u] = "asleep"}
               IN IF asleep = {} THEN UNCHANGED bpc
                  ELSE \E u \in asleep : bpc' = [bpc EXCEPT ![u] = "woken"]
       ELSE /\ waiting' = Plus1(waiting)
            /\ UNCHANGED generation
            /\ bpc' = [bpc EXCEPT ![t] = "asleep"]

\* The caller joins the current generation.  The last one of it begins the next
\* and notifies all, still inside the mutex; the others sleep.
Arrive(t, withTimeout) ==
    /\ bpc[t] = "out" /\ calls[t] < Rounds
    /\ calls' = [calls EXCEPT ![t] = @ + 1]
    /\ bgen' = [bgen EXCEPT ![t] = generation]
    /\ btimed' = [btimed EXCEPT ![t] = withTimeout]
    /\ IF Trips
       THEN /\ waiting' = 0
            /\ generation' = generation + 1
            /\ bpc' = NotifyAll(bpc)
       ELSE /\ waiting' = Plus1(waiting)
            /\ UNCHANGED generation
            /\ bpc' = [bpc EXCEPT ![t] = "asleep"]

\* The loop on m_generation, after any wake-up.
Recheck(t) ==
    /\ bpc[t] = "woken"
    /\ bpc' = [bpc EXCEPT ![t] = IF bgen[t] = generation THEN "asleep" ELSE "out"]
    /\ UNCHANGED <<generation, waiting, bgen, btimed, calls>>

WakeSpuriously(t) ==
    /\ bpc[t] = "asleep"
    /\ bpc' = [bpc EXCEPT ![t] = "woken"]
    /\ UNCHANGED <<generation, waiting, bgen, btimed, calls>>

\* The timeout elapses; the thread leaves the wait set and wants the mutex.
Expire(t) ==
    /\ bpc[t] = "asleep" /\ btimed[t]
    /\ bpc' = [bpc EXCEPT ![t] = "expired"]
    /\ UNCHANGED <<generation, waiting, bgen, btimed, calls>>

\* WaitFor returns false.  It takes itself off m_waiting without a look at
\* m_generation, which may have moved on.
GiveUp(t) ==
    /\ bpc[t] = "expired"
    /\ bpc' = [bpc EXCEPT ![t] = "out"]
    /\ waiting' = Minus1(waiting)
    /\ UNCHANGED <<generation, bgen, btimed, calls>>

BarrierCall(t) ==
    \E withTimeout \in (IF TimedCalls THEN BOOLEAN ELSE {FALSE}) : Arrive(t, withTimeout)

BarrierStep(t) ==
    BarrierCall(t) \/ Recheck(t) \/ WakeSpuriously(t) \/ Expire(t) \/ GiveUp(t)

BarrierNext == \E t \in Threads : BarrierStep(t)

BarrierSpec == BarrierInit /\ [][BarrierNext]_barrierVars

-----------------------------------------------------------------------------
(* Properties.                                                               *)

\* The threads that have joined the current generation and not left it.
Inside == {t \in Threads : bpc[t] # "out" /\ bgen[t] = generation}

\* A generation ends only when Count threads have joined it and none of them
\* has returned: timeouts delay the barrier, they never open it early.
OpensOnlyForCount ==
    [][generation' # generation => Cardinality(Inside) + 1 >= Count]_barrierVars

\* The end of a generation wakes everyone in it: a sleeper is in the current
\* generation.
NoSleeperLeftBehind ==
    \A t \in Threads : bpc[t] = "asleep" => bgen[t] = generation

\* A barrier for Count threads never holds Count of them: the test of the
\* barrier joins every thread that waits there (test_ezthread.cpp:396-409).
NeverHoldsCount == Cardinality({t \in Inside : bpc[t] # "expired"}) < Count
=============================================================================
