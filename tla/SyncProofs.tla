------------------------------ MODULE SyncProofs ------------------------------
(***************************************************************************)
(* What the barrier, the latch and the flag of sync.hpp guarantee for any  *)
(* number of threads, counts and calls; and, with WrapperProofs, what      *)
(* every part of Sync does.                                                *)
(***************************************************************************)
EXTENDS WrapperProofs

\* Nobody sleeps in a generation that has ended.
BarrierInv == BarrierTypeOK /\ NoSleeperLeftBehind

LEMMA BarrierStart == BarrierInit => BarrierInv
  BY CallersAssumption, BarrierAssumption
     DEF BarrierInit, BarrierInv, BarrierTypeOK, NoSleeperLeftBehind

LEMMA BarrierKeeps == BarrierInv /\ [BarrierNext]_barrierVars => BarrierInv'
  <1> SUFFICES ASSUME BarrierInv, [BarrierNext]_barrierVars PROVE BarrierInv'
    OBVIOUS
  <1> USE CallersAssumption, BarrierAssumption
      DEF BarrierInv, BarrierTypeOK, NoSleeperLeftBehind
  <1>1. CASE UNCHANGED barrierVars
    BY <1>1 DEF barrierVars
  <1>2. ASSUME NEW t \in Threads, NEW withTimeout \in BOOLEAN, Arrive(t, withTimeout)
        PROVE  BarrierInv'
    <2>1. waiting' \in 0..(Modulus - 1)
      BY <1>2 DEF Arrive, Plus1
    <2>2. /\ generation' \in Nat /\ generation' >= generation
          /\ calls' \in [Threads -> 0..Rounds] /\ btimed' \in [Threads -> BOOLEAN]
          /\ bgen' = [bgen EXCEPT ![t] = generation] /\ bgen' \in [Threads -> Nat]
      BY <1>2 DEF Arrive
    <2>3. \A u \in Threads : bgen'[u] <= generation'
      BY <2>2
    <2>4. /\ bpc' \in [Threads -> {"out", "asleep", "woken", "expired"}]
          /\ NoSleeperLeftBehind'
      <3>1. CASE Trips
        BY <1>2, <3>1 DEF Arrive, NotifyAll
      <3>2. CASE ~Trips
        BY <1>2, <3>2 DEF Arrive
      <3>3. QED
        BY <3>1, <3>2
    <2>5. QED
      BY <2>1, <2>2, <2>3, <2>4
  <1>3. ASSUME NEW t \in Threads, Recheck(t) \/ WakeSpuriously(t) \/ Expire(t)
        PROVE  BarrierInv'
    BY <1>3 DEF Recheck, WakeSpuriously, Expire
  <1>4. ASSUME NEW t \in Threads, GiveUp(t)
        PROVE  BarrierInv'
    <2>1. waiting' \in 0..(Modulus - 1)
      BY <1>4 DEF GiveUp, Minus1
    <2>2. QED
      BY <1>4, <2>1 DEF GiveUp
  <1>5. QED
    BY <1>1, <1>2, <1>3, <1>4 DEF BarrierNext, BarrierStep, BarrierCall

\* The last thread into a generation wakes every other one of it, whichever mix
\* of Wait and WaitFor they called (Barrier::Wait, sync.cpp:23-29, and WaitFor).
THEOREM GenerationEndWakesAll == BarrierSpec => []NoSleeperLeftBehind
  <1>1. BarrierInv => NoSleeperLeftBehind
    BY DEF BarrierInv
  <1>2. QED
    BY <1>1, BarrierStart, BarrierKeeps, PTL DEF BarrierSpec

-----------------------------------------------------------------------------
(* The barrier of threads that only call Wait.                               *)

\* m_waiting counts the threads in the current generation.
ExactInv ==
    /\ BarrierInv
    /\ \A t \in Threads : ~btimed[t] /\ bpc[t] # "expired"
    /\ waiting = Cardinality(Inside)
    /\ waiting < Count

LEMMA InsideFinite == IsFiniteSet(Inside)
  BY CallersAssumption, FS_Subset DEF Inside

LEMMA ExactStart == BarrierInit => ExactInv
  <1> SUFFICES ASSUME BarrierInit PROVE ExactInv
    OBVIOUS
  <1>1. Inside = {}
    BY DEF BarrierInit, Inside
  <1>2. QED
    BY <1>1, BarrierStart, BarrierAssumption, FS_EmptySet DEF BarrierInit, ExactInv

LEMMA ExactKeeps ==
  ASSUME TimedCalls = FALSE, ExactInv, [BarrierNext]_barrierVars
  PROVE  ExactInv'
  <1>1. BarrierInv'
    BY BarrierKeeps DEF ExactInv
  <1> USE BarrierAssumption DEF ExactInv, BarrierInv, BarrierTypeOK
  <1>2. CASE UNCHANGED barrierVars
    BY <1>1, <1>2 DEF barrierVars, Inside
  <1>3. ASSUME NEW t \in Threads, Arrive(t, FALSE)
        PROVE  ExactInv'
    <2>1. Plus1(waiting) = waiting + 1
      BY CounterAssumption, CallersAssumption DEF Plus1
    <2>2. \A u \in Threads : ~btimed'[u]
      BY <1>3 DEF Arrive
    <2>3. CASE Trips
      <3>1. Inside' = {}
        BY <1>3, <2>3 DEF Arrive, Inside
      <3>2. \A u \in Threads : bpc'[u] # "expired"
        BY <1>3, <2>3 DEF Arrive, NotifyAll
      <3>3. waiting' = 0
        BY <1>3, <2>3 DEF Arrive
      <3>4. QED
        BY <1>1, <2>2, <3>1, <3>2, <3>3, FS_EmptySet
    <2>4. CASE ~Trips
      <3>1. Inside' = Inside \cup {t} /\ t \notin Inside
        BY <1>3, <2>4 DEF Arrive, Inside
      <3>2. Cardinality(Inside') = Cardinality(Inside) + 1
        BY <3>1, InsideFinite, FS_AddElement
      <3>3. waiting' = waiting + 1 /\ waiting + 1 # Count
        BY <1>3, <2>1, <2>4 DEF Arrive, Trips
      <3>4. \A u \in Threads : bpc'[u] # "expired"
        BY <1>3, <2>4 DEF Arrive
      <3>5. QED
        BY <1>1, <2>2, <3>2, <3>3, <3>4
    <2>5. QED
      BY <2>3, <2>4
  <1>4. ASSUME NEW t \in Threads, Recheck(t) \/ WakeSpuriously(t)
        PROVE  ExactInv'
    <2>1. Inside' = Inside
      BY <1>4 DEF Recheck, WakeSpuriously, Inside
    <2>2. QED
      BY <1>1, <1>4, <2>1 DEF Recheck, WakeSpuriously
  <1>5. ASSUME NEW t \in Threads, Expire(t) \/ GiveUp(t)
        PROVE  FALSE
    BY <1>5 DEF Expire, GiveUp
  <1>6. QED
    BY <1>2, <1>3, <1>4, <1>5 DEF BarrierNext, BarrierStep, BarrierCall

\* Without WaitFor a barrier for Count threads never keeps Count of them: what
\* the test of the barrier relies on (test_ezthread.cpp:396-409) holds for Wait
\* alone.  Late timeouts break it.
THEOREM UntimedBarrierLetsGo ==
  ASSUME TimedCalls = FALSE
  PROVE  BarrierSpec => []NeverHoldsCount
  <1>1. ExactInv /\ [BarrierNext]_barrierVars => ExactInv'
    BY ExactKeeps
  <1>2. ExactInv => NeverHoldsCount
    <2> SUFFICES ASSUME ExactInv PROVE NeverHoldsCount
      OBVIOUS
    <2>1. {t \in Inside : bpc[t] # "expired"} = Inside
      BY DEF ExactInv, Inside
    <2>2. QED
      BY <2>1 DEF ExactInv, NeverHoldsCount
  <1>3. QED
    BY <1>1, <1>2, ExactStart, PTL DEF BarrierSpec

-----------------------------------------------------------------------------
(* When a generation ends.                                                   *)

\* The threads that ran out of time in a generation that has ended, and have still to
\* take themselves off m_waiting.
Stale == {t \in Threads : bpc[t] = "expired" /\ bgen[t] # generation}

\* m_waiting counts the threads in the current generation, less those of earlier ones
\* that have left since it began; each thread does so once at most, so that the
\* counter has wrapped around at most once, below zero.
TallyInv ==
    /\ BarrierInv
    /\ \E left \in Nat :
          /\ left + Cardinality(Stale) <= Cardinality(Threads)
          /\ \/ waiting + left = Cardinality(Inside)
             \/ waiting + left = Cardinality(Inside) + Modulus

LEMMA Tallied ==
  ASSUME NEW S, S \subseteq Threads
  PROVE  IsFiniteSet(S) /\ Cardinality(S) \in Nat /\ Cardinality(S) <= Cardinality(Threads)
  BY CallersAssumption, FS_Subset, FS_CardinalityType

LEMMA TallyStart == BarrierInit => TallyInv
  <1> SUFFICES ASSUME BarrierInit PROVE TallyInv
    OBVIOUS
  <1>1. Inside = {} /\ Stale = {} /\ waiting = 0
    BY DEF BarrierInit, Inside, Stale
  <1>2. Cardinality(Threads) \in Nat
    BY CallersAssumption, FS_CardinalityType
  <1>3. /\ 0 + Cardinality(Stale) <= Cardinality(Threads)
        /\ waiting + 0 = Cardinality(Inside)
    BY <1>1, <1>2, FS_EmptySet
  <1>4. QED
    BY <1>3, BarrierStart DEF TallyInv

\* The numbers of a step, apart from the sets they count.
LEMMA TripTallies ==
  ASSUME NEW w \in 0..(Modulus - 1), NEW left \in Nat, NEW inside \in Nat, NEW n \in Nat,
         n + Count <= Modulus, left <= n, Plus1(w) = Count,
         w + left = inside \/ w + left = inside + Modulus
  PROVE  inside + 1 >= Count
  <1>1. w + 1 = Count
    <2>1. CASE w + 1 = Modulus
      BY <2>1, CallersAssumption, BarrierAssumption DEF Plus1
    <2>2. CASE w + 1 < Modulus
      BY <2>2, CallersAssumption DEF Plus1
    <2>3. QED
      BY <2>1, <2>2, CallersAssumption
  <1>2. QED
    BY <1>1, CallersAssumption, BarrierAssumption

LEMMA ArriveTallies ==
  ASSUME NEW w \in 0..(Modulus - 1), NEW left \in Nat, NEW inside \in Nat, NEW n \in Nat,
         n + Count <= Modulus, left <= n, inside < n,
         w + left = inside \/ w + left = inside + Modulus
  PROVE  Plus1(w) + left = inside + 1 \/ Plus1(w) + left = inside + 1 + Modulus
  <1>1. CASE w + 1 = Modulus
    BY <1>1, CallersAssumption, BarrierAssumption DEF Plus1
  <1>2. CASE w + 1 < Modulus
    <2>1. Plus1(w) = w + 1
      BY <1>2, CallersAssumption DEF Plus1
    <2>2. QED
      BY <2>1, CallersAssumption
  <1>3. QED
    BY <1>1, <1>2, CallersAssumption

LEMMA Less1 ==
  ASSUME NEW w \in 0..(Modulus - 1)
  PROVE  Minus1(w) = (IF w = 0 THEN Modulus - 1 ELSE w - 1)
  <1>1. CASE w = 0
    BY <1>1, CallersAssumption DEF Minus1
  <1>2. CASE w # 0
    <2>1. w - 1 \in 0..(Modulus - 1) /\ w + Modulus - 1 = (w - 1) + Modulus
      BY <1>2, CallersAssumption
    <2>2. (w + Modulus - 1) % Modulus = w - 1
      BY <2>1, CallersAssumption
    <2>3. QED
      BY <1>2, <2>2 DEF Minus1
  <1>3. QED
    BY <1>1, <1>2

LEMMA TallyKeeps ==
  ASSUME Cardinality(Threads) + Count <= Modulus, TallyInv, [BarrierNext]_barrierVars
  PROVE  TallyInv'
  <1>1. BarrierInv'
    BY BarrierKeeps DEF TallyInv
  <1> DEFINE n == Cardinality(Threads)
  <1>2. PICK left \in Nat :
           /\ left + Cardinality(Stale) <= n
           /\ \/ waiting + left = Cardinality(Inside)
              \/ waiting + left = Cardinality(Inside) + Modulus
    BY DEF TallyInv
  <1>3. /\ n \in Nat /\ Cardinality(Inside) \in Nat /\ Cardinality(Stale) \in Nat
        /\ Cardinality(Inside) <= n /\ IsFiniteSet(Inside) /\ IsFiniteSet(Stale)
    BY Tallied, CallersAssumption DEF Inside, Stale
  <1>4. waiting \in 0..(Modulus - 1)
    BY DEF TallyInv, BarrierInv, BarrierTypeOK
  <1> USE DEF TallyInv
  <1>5. CASE UNCHANGED <<waiting, Inside, Stale>>
    BY <1>1, <1>2, <1>5
  <1>6. CASE UNCHANGED barrierVars
    BY <1>5, <1>6 DEF barrierVars, Inside, Stale
  <1>7. ASSUME NEW t \in Threads, NEW withTimeout \in BOOLEAN, Arrive(t, withTimeout), Trips
        PROVE  TallyInv'
    <2>1. waiting' = 0 /\ generation' = generation + 1
      BY <1>7 DEF Arrive
    <2>2. Inside' = {}
      BY <1>7 DEF Arrive, Inside, BarrierInv, BarrierTypeOK
    <2>3. Cardinality(Stale') \in Nat /\ Cardinality(Stale') <= n
      <3>1. Stale' \subseteq Threads
        BY DEF Stale
      <3>2. QED
        BY <3>1, Tallied
    <2>4. 0 + Cardinality(Stale') <= n /\ waiting' + 0 = Cardinality(Inside')
      BY <2>1, <2>2, <2>3, FS_EmptySet
    <2>5. QED
      BY <1>1, <2>4
  <1>8. ASSUME NEW t \in Threads, NEW withTimeout \in BOOLEAN, Arrive(t, withTimeout), ~Trips
        PROVE  TallyInv'
    <2>1. waiting' = Plus1(waiting)
      BY <1>8 DEF Arrive
    <2>2. Inside' = Inside \cup {t} /\ t \notin Inside
      BY <1>8 DEF Arrive, Inside, BarrierInv, BarrierTypeOK
    <2>3. Stale' = Stale
      BY <1>8 DEF Arrive, Stale, BarrierInv, BarrierTypeOK
    <2>4. Cardinality(Inside') = Cardinality(Inside) + 1 /\ Cardinality(Inside') <= n
      <3>1. Cardinality(Inside') = Cardinality(Inside) + 1
        BY <2>2, <1>3, FS_AddElement
      <3>2. Inside' \subseteq Threads
        BY DEF Inside
      <3>3. QED
        BY <3>1, <3>2, Tallied
    <2>5. left <= n /\ Cardinality(Inside) < n
      BY <1>2, <1>3, <2>4
    <2>6. \/ Plus1(waiting) + left = Cardinality(Inside) + 1
          \/ Plus1(waiting) + left = Cardinality(Inside) + 1 + Modulus
      BY <1>2, <1>3, <1>4, <2>5, ArriveTallies
    <2>7. QED
      BY <1>1, <1>2, <2>1, <2>3, <2>4, <2>6
  <1>9. ASSUME NEW t \in Threads, Recheck(t) \/ WakeSpuriously(t) \/ Expire(t)
        PROVE  TallyInv'
    <2>1. Inside' = Inside /\ waiting' = waiting
      BY <1>9 DEF Recheck, WakeSpuriously, Expire, Inside, BarrierInv, BarrierTypeOK
    <2>2. Stale' = Stale
      BY <1>9 DEF Recheck, WakeSpuriously, Expire, Stale, BarrierInv, BarrierTypeOK,
                  NoSleeperLeftBehind
    <2>3. QED
      BY <1>5, <2>1, <2>2
  <1>10. ASSUME NEW t \in Threads, GiveUp(t)
         PROVE  TallyInv'
    <2>1. waiting' = (IF waiting = 0 THEN Modulus - 1 ELSE waiting - 1)
      BY <1>4, <1>10, Less1 DEF GiveUp
    <2>2. left < Modulus
      BY <1>2, <1>3, BarrierAssumption, CallersAssumption
    <2>3. CASE t \in Inside
      <3>1. Inside' = Inside \ {t} /\ Stale' = Stale
        BY <1>10, <2>3 DEF GiveUp, Inside, Stale, BarrierInv, BarrierTypeOK
      <3>2. Cardinality(Inside') = Cardinality(Inside) - 1
        BY <1>3, <2>3, <3>1, FS_RemoveElement
      <3>3. \/ waiting' + left = Cardinality(Inside')
            \/ waiting' + left = Cardinality(Inside') + Modulus
        BY <1>2, <1>3, <1>4, <2>1, <2>2, <3>2, CallersAssumption
      <3>4. QED
        BY <1>1, <1>2, <3>1, <3>3
    <2>4. CASE t \notin Inside
      <3>1. Inside' = Inside /\ Stale' = Stale \ {t} /\ t \in Stale
        BY <1>10, <2>4 DEF GiveUp, Inside, Stale, BarrierInv, BarrierTypeOK
      <3>2. Cardinality(Stale') = Cardinality(Stale) - 1
        BY <1>3, <3>1, FS_RemoveElement
      <3>3. \/ waiting' + (left + 1) = Cardinality(Inside')
            \/ waiting' + (left + 1) = Cardinality(Inside') + Modulus
        BY <1>2, <1>3, <1>4, <2>1, <2>2, <3>1, CallersAssumption
      <3>4. left + 1 \in Nat /\ left + 1 + Cardinality(Stale') <= n
        BY <1>2, <1>3, <3>2
      <3>5. QED
        BY <1>1, <3>3, <3>4
    <2>5. QED
      BY <2>3, <2>4
  <1>11. QED
    BY <1>6, <1>7, <1>8, <1>9, <1>10 DEF BarrierNext, BarrierStep, BarrierCall

\* The step that ends a generation finds it full.
LEMMA TripTakesCount ==
  ASSUME Cardinality(Threads) + Count <= Modulus, TallyInv, [BarrierNext]_barrierVars
  PROVE  generation' # generation => Cardinality(Inside) + 1 >= Count
  <1> SUFFICES ASSUME generation' # generation PROVE Cardinality(Inside) + 1 >= Count
    OBVIOUS
  <1>1. PICK left \in Nat :
           /\ left + Cardinality(Stale) <= Cardinality(Threads)
           /\ \/ waiting + left = Cardinality(Inside)
              \/ waiting + left = Cardinality(Inside) + Modulus
    BY DEF TallyInv
  <1>2. PICK t \in Threads, withTimeout \in BOOLEAN : Arrive(t, withTimeout)
    BY DEF BarrierNext, BarrierStep, BarrierCall, Recheck, WakeSpuriously, Expire, GiveUp,
           barrierVars
  <1>3. Plus1(waiting) = Count
    BY <1>2 DEF Arrive, Trips
  <1>4. /\ Cardinality(Threads) \in Nat /\ Cardinality(Inside) \in Nat
        /\ Cardinality(Stale) \in Nat /\ waiting \in 0..(Modulus - 1)
    BY Tallied, CallersAssumption DEF TallyInv, BarrierInv, BarrierTypeOK, Inside, Stale
  <1>5. left <= Cardinality(Threads)
    BY <1>1, <1>4
  <1>6. QED
    BY <1>1, <1>3, <1>4, <1>5, TripTallies

-----------------------------------------------------------------------------
(* The latch.                                                                *)

LatchInv == LatchTypeOK /\ PassedMeansOpen /\ NoSleeperAtOpenLatch

LEMMA LatchStart == LatchInit => LatchInv
  BY LatchAssumption, CallersAssumption
     DEF LatchInit, LatchInv, LatchTypeOK, PassedMeansOpen, NoSleeperAtOpenLatch

LEMMA LatchKeeps == LatchInv /\ [LatchNext]_latchVars => LatchInv'
  <1> SUFFICES ASSUME LatchInv, [LatchNext]_latchVars PROVE LatchInv'
    OBVIOUS
  <1> USE LatchAssumption, CallersAssumption
      DEF LatchInv, LatchTypeOK, PassedMeansOpen, NoSleeperAtOpenLatch
  <1>1. CASE UNCHANGED latchVars
    BY <1>1 DEF latchVars
  <1>2. ASSUME NEW t \in Threads, NEW n \in 0..MaxStep, CountDown(t, n) PROVE LatchInv'
    BY <1>2 DEF CountDown, Lowered, NotifyAll
  <1>3. ASSUME NEW t \in Threads, NEW withTimeout \in BOOLEAN, Wait(t, withTimeout)
        PROVE  LatchInv'
    BY <1>3 DEF Wait, Test
  <1>4. ASSUME NEW t \in Threads, Retest(t) PROVE LatchInv'
    BY <1>4 DEF Retest, Test
  <1>5. ASSUME NEW t \in Threads, WakeAnyway(t) \/ RunOut(t) PROVE LatchInv'
    BY <1>5 DEF WakeAnyway, RunOut
  <1>6. QED
    BY <1>1, <1>2, <1>3, <1>4, <1>5 DEF LatchNext, LatchStep

\* A latch lets nobody through before its count is zero, and stays open
\* (Latch::CountDown and Wait, sync.cpp:65-95).
THEOREM LatchHolds == LatchSpec => []PassedMeansOpen
  <1>1. LatchInv => PassedMeansOpen
    BY DEF LatchInv
  <1>2. QED
    BY <1>1, LatchStart, LatchKeeps, PTL DEF LatchSpec

\* The CountDown that opens a latch, by whatever step, wakes every waiter.
THEOREM LatchWakesAll == LatchSpec => []NoSleeperAtOpenLatch
  <1>1. LatchInv => NoSleeperAtOpenLatch
    BY DEF LatchInv
  <1>2. QED
    BY <1>1, LatchStart, LatchKeeps, PTL DEF LatchSpec

-----------------------------------------------------------------------------
(* The flag.                                                                 *)

\* One thread is inside the mutex; the function has run exactly once if its
\* result is stored or about to be, and a thread about to run it sees that
\* nobody has.
OnceInv ==
    /\ OnceTypeOK
    /\ \A t \in Threads : opc[t] \in {"run", "store", "unlock"} <=> owner = t
    /\ \A t \in Threads : opc[t] = "run" => runs = 0 /\ ~called
    /\ \A t \in Threads : opc[t] = "store" => runs = 1 /\ ~called
    /\ \A t \in Threads : opc[t] = "unlock" => called
    /\ called => runs = 1
    /\ runs <= 1
    /\ ~called /\ (\A t \in Threads : opc[t] # "store") => runs = 0
    /\ served # {} => called

LEMMA OnceStart == OnceInit => OnceInv
  <1> SUFFICES ASSUME OnceInit PROVE OnceInv
    OBVIOUS
  <1> USE OnceAssumption, CallersAssumption DEF OnceInit
  <1>1. OnceTypeOK
    <2>1. called \in BOOLEAN /\ owner \in Threads \cup {NoThread} /\ served \subseteq Threads
      OBVIOUS
    <2>2. opc \in [Threads -> {"out", "lock", "run", "store", "unlock"}]
      OBVIOUS
    <2>3. runs \in Nat /\ throws \in 0..MaxThrows
      OBVIOUS
    <2>4. QED
      BY <2>1, <2>2, <2>3 DEF OnceTypeOK
  <1>2. \A t \in Threads : opc[t] = "out" /\ owner # t
    OBVIOUS
  <1>3. QED
    BY <1>1, <1>2 DEF OnceInv

LEMMA OnceKeeps == OnceInv /\ [OnceNext]_onceVars => OnceInv'
  <1> SUFFICES ASSUME OnceInv, [OnceNext]_onceVars PROVE OnceInv'
    OBVIOUS
  <1> USE OnceAssumption, CallersAssumption DEF OnceInv, OnceTypeOK
  <1>1. CASE UNCHANGED onceVars
    BY <1>1 DEF onceVars
  <1>2. ASSUME NEW t \in Threads, FastTest(t) PROVE OnceInv'
    BY <1>2 DEF FastTest
  <1>3. ASSUME NEW t \in Threads, Lock(t) PROVE OnceInv'
    BY <1>3 DEF Lock
  <1>4. ASSUME NEW t \in Threads, Run(t) PROVE OnceInv'
    BY <1>4 DEF Run
  <1>5. ASSUME NEW t \in Threads, Throw(t) PROVE OnceInv'
    BY <1>5 DEF Throw
  <1>6. ASSUME NEW t \in Threads, Store(t) PROVE OnceInv'
    BY <1>6 DEF Store
  <1>7. ASSUME NEW t \in Threads, Unlock(t) PROVE OnceInv'
    BY <1>7 DEF Unlock
  <1>8. QED
    BY <1>1, <1>2, <1>3, <1>4, <1>5, <1>6, <1>7 DEF OnceNext, OnceStep

\* Racing callers and throwing runs notwithstanding, the function completes at
\* most once, and before any call returns (OnceFlag::CallOnce, sync.hpp:62-74).
THEOREM FunctionRunsOnce == OnceSpec => []RunsOnce
  <1>1. OnceInv => RunsOnce
    BY DEF OnceInv, RunsOnce
  <1>2. QED
    BY <1>1, OnceStart, OnceKeeps, PTL DEF OnceSpec

-----------------------------------------------------------------------------
(* The parts together.                                                       *)

SyncInv ==
    /\ inUse \in Parts
    /\ BarrierInv /\ LatchInv /\ OnceInv
    /\ LockableInv /\ SharedInv /\ SignalInv
    /\ HandleInv /\ JoinableInv /\ ThreadLocalInv
    /\ DetectorInv /\ StopwatchInv

LEMMA SyncStart == Init => SyncInv
  <1> SUFFICES ASSUME Init PROVE SyncInv
    OBVIOUS
  <1>1. inUse \in Parts
    BY DEF Init
  <1>2. BarrierInv /\ LatchInv /\ OnceInv
    BY BarrierStart, LatchStart, OnceStart DEF Init
  <1>3. LockableInv /\ SharedInv /\ SignalInv
    BY LockableStart, SharedStart, SignalStart DEF Init
  <1>4. HandleInv /\ JoinableInv /\ ThreadLocalInv
    BY HandleStart, JoinableStart, ThreadLocalStart DEF Init
  <1>5. DetectorInv /\ StopwatchInv
    BY DetectorStart, StopwatchStart DEF Init
  <1>6. QED
    BY <1>1, <1>2, <1>3, <1>4, <1>5 DEF SyncInv

\* A step of the whole is a step of each part, or leaves it alone.
LEMMA PartsStep ==
  ASSUME [Next]_vars
  PROVE  /\ UNCHANGED inUse
         /\ [BarrierNext]_barrierVars /\ [LatchNext]_latchVars /\ [OnceNext]_onceVars
         /\ [LockableNext]_lockableVars /\ [SharedNext]_sharedVars /\ [SignalNext]_signalVars
         /\ [HandleNext]_handleVars /\ [JoinableNext]_joinableVars /\ [TlsNext]_tlsVars
         /\ [DetectorNext]_detectorVars /\ [StopwatchNext]_stopwatchVars
  <1>1. CASE UNCHANGED vars
    BY <1>1 DEF vars
  <1>2. ASSUME NEW part \in Parts, Use(part)
        PROVE  /\ UNCHANGED inUse /\ inUse = part
               /\ part # "barrier" => UNCHANGED barrierVars
               /\ part # "latch" => UNCHANGED latchVars
               /\ part # "once" => UNCHANGED onceVars
               /\ part # "lock" => UNCHANGED lockableVars
               /\ part # "rwlock" => UNCHANGED sharedVars
               /\ part # "signal" => UNCHANGED signalVars
               /\ part # "handle" => UNCHANGED handleVars
               /\ part # "thread" => UNCHANGED joinableVars
               /\ part # "local" => UNCHANGED tlsVars
               /\ part # "detector" => UNCHANGED detectorVars
               /\ part # "stopwatch" => UNCHANGED stopwatchVars
    BY <1>2 DEF Use
  <1>3. CASE Next
    BY <1>2, <1>3 DEF Next, Use
  <1>4. QED
    BY <1>1, <1>3

LEMMA SyncKeeps == SyncInv /\ [Next]_vars => SyncInv'
  <1> SUFFICES ASSUME SyncInv, [Next]_vars PROVE SyncInv'
    OBVIOUS
  <1>1. (inUse \in Parts)'
    BY PartsStep DEF SyncInv, Parts
  <1>2. BarrierInv' /\ LatchInv' /\ OnceInv'
    BY PartsStep, BarrierKeeps, LatchKeeps, OnceKeeps DEF SyncInv
  <1>3. LockableInv' /\ SharedInv' /\ SignalInv'
    BY PartsStep, LockableKeeps, SharedKeeps, SignalKeeps DEF SyncInv
  <1>4. HandleInv' /\ JoinableInv' /\ ThreadLocalInv'
    BY PartsStep, HandleKeeps, JoinableKeeps, ThreadLocalKeeps DEF SyncInv
  <1>5. DetectorInv' /\ StopwatchInv'
    BY PartsStep, DetectorKeeps, StopwatchKeeps DEF SyncInv
  <1>6. QED
    BY <1>1, <1>2, <1>3, <1>4, <1>5 DEF SyncInv

LEMMA SyncInvariant == Spec => []SyncInv
  BY SyncStart, SyncKeeps, PTL DEF Spec

\* Every variable of every part stays in its type.
THEOREM SyncTypeCorrect == Spec => []TypeOK
  <1>1. SyncInv => TypeOK
    BY DEF SyncInv, TypeOK, BarrierInv, LatchInv, OnceInv, LockableInv, SharedInv, SignalInv,
           HandleInv, JoinableInv, ThreadLocalInv, DetectorInv, StopwatchInv
  <1>2. QED
    BY <1>1, SyncInvariant, PTL

\* The step that ends a generation of a barrier, or opens a latch, wakes every
\* sleeper, whatever mix of timed and untimed waits there is (sync.cpp:23-29, 65-77).
THEOREM OpeningWakesAll == Spec => []NobodyLeftAsleep
  <1>1. SyncInv => NobodyLeftAsleep
    BY DEF SyncInv, NobodyLeftAsleep, BarrierInv, LatchInv
  <1>2. QED
    BY <1>1, SyncInvariant, PTL

\* Timeouts never open a barrier early, however late they are: a generation ends when
\* Count threads have joined it, and none of them has left, the one that ends it
\* included (Barrier::Wait and WaitFor, sync.cpp:16-60).  As m_waiting goes below zero
\* when threads give up a generation that has ended, this takes a counter that the
\* threads and Count together do not exceed.
THEOREM GenerationsAreFull ==
  ASSUME Cardinality(Threads) + Count <= Modulus
  PROVE  Spec => OpensOnlyForCount
  <1>1. Init => TallyInv
    BY TallyStart DEF Init
  <1>2. TallyInv /\ [Next]_vars => TallyInv'
    BY TallyKeeps, PartsStep
  <1>3. TallyInv /\ [Next]_vars
          => [generation' # generation => Cardinality(Inside) + 1 >= Count]_barrierVars
    BY TripTakesCount, PartsStep
  <1>4. QED
    BY <1>1, <1>2, <1>3, PTL DEF Spec, OpensOnlyForCount

\* A latch lets nobody through before its count is zero; a flag nobody before its
\* function has completed, which it does once (sync.cpp:79-95, sync.hpp:62-74).
THEOREM PassingTakesOpening == Spec => []NobodyPassesEarly
  <1>1. SyncInv => NobodyPassesEarly
    BY DEF SyncInv, NobodyPassesEarly, LatchInv, OnceInv, RunsOnce
  <1>2. QED
    BY <1>1, SyncInvariant, PTL

\* Each lock excludes as it promises: recursive, abandoned and timed calls, shared
\* and exclusive ones, and waits of a condition variable included (mutex.cpp,
\* atomic.hpp:55-80, condition.cpp:37-57).
THEOREM LocksAreExclusive == Spec => []LocksExclude
  <1>1. SyncInv => LocksExclude
    BY DEF SyncInv, LocksExclude, LockableInv, SharedInv
  <1>2. QED
    BY <1>1, SyncInvariant, PTL

\* No signal of an event or a semaphore is used twice or gets lost unaccounted for
\* (event.cpp:50-80, semaphore.cpp:41-66).
THEOREM SignalsAreCounted == Spec => []SignalsConserved
  <1>1. SyncInv => SignalsConserved
    BY DEF SyncInv, SignalInv
  <1>2. QED
    BY <1>1, SyncInvariant, PTL

\* Moves, assignments and destruction close each handle once, and leave no handle
\* open but those OpenExisting leaks (mutex.cpp:59-77, 127).
THEOREM HandlesHaveOneOwner == Spec => []HandlesOwned
  <1>1. SyncInv => HandlesOwned
    BY DEF SyncInv, HandleInv
  <1>2. QED
    BY <1>1, SyncInvariant, PTL

\* A running thread belongs to one Thread object until it is joined or detached
\* (core.cpp:39-99).
THEOREM ThreadsStayOwned == Spec => []NoThreadLost
  <1>1. SyncInv => NoThreadLost
    BY DEF SyncInv, JoinableInv
  <1>2. QED
    BY <1>1, SyncInvariant, PTL

\* A thread finds in a thread-local object what it put there last, unless the class
\* for pointers hid from it that TlsSetValue failed; and in no case can somebody
\* else store in the cells it reaches, though indexes, slots and threads are used
\* again (tls.cpp).
THEOREM LocalsAreOwn == Spec => []OwnValueOnly
  <1>1. SyncInv => OwnValueOnly
    BY DEF SyncInv, ThreadLocalInv
  <1>2. QED
    BY <1>1, SyncInvariant, PTL

\* The detector records only locks that are held, and all of them it was told of
\* but the recursive ones it forgets at their first release; it never reports.
\* Times are not negative (debug.cpp:28-116, 148-186).
THEOREM DebuggingIsExact == Spec => []DebugRecordsTrue
  <1>1. SyncInv => DebugRecordsTrue
    BY StopwatchExact DEF SyncInv, DebugRecordsTrue, DetectorInv
  <1>2. QED
    BY <1>1, SyncInvariant, PTL
================================================================================
