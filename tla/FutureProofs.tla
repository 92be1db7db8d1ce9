----------------------------- MODULE FutureProofs -----------------------------
(***************************************************************************)
(* What Future guarantees for any number of cells, setters and waiters.    *)
(***************************************************************************)
EXTENDS Future, TLAPS

\* A derived cell is ready from its thread's critical section on, and that
\* thread has the outcome of the parent when it gets there.
ThenInv ==
    \A d \in Derived :
        /\ dpc[d] = "unborn" <=> parent[d] = NoCell
        /\ ready[d] <=> dpc[d] \in {"notify", "done"}
        /\ dpc[d] = "run" => ready[parent[d]] /\ dvalue[d] = content[parent[d]]

\* Whoever has called Set has a ready root, and a ready root has a winner.
SetterInv ==
    /\ \A s \in Setters : IF spc[s] = "start" THEN scell[s] = NoCell
                          ELSE scell[s] \in Roots /\ ready[scell[s]]
    /\ \A c \in Roots : ready[c] =>
          \E s \in Setters : scell[s] = c /\ spc[s] \in {"notify", "done"}

WaiterInv ==
    \A w \in Waiters :
        /\ wpc[w] # "start" => wcell[w] \in Cells
        /\ wpc[w] = "returned" /\ ~timed[w] => ready[wcell[w]] /\ got[w] = content[wcell[w]]

\* Without spurious wake-ups only the notification of a ready cell wakes.
WokenInv ==
    ~SpuriousWakeups =>
        \A w \in Waiters :
            /\ wpc[w] = "woken" => ready[wcell[w]]
            /\ wpc[w] = "returned" => got[w] # Empty

FutureInv == TypeOK /\ ThenInv /\ SetterInv /\ OneSetterWins /\ WaiterInv
                /\ NoSleeperForgotten /\ WokenInv

-----------------------------------------------------------------------------
LEMMA FutureInit == Init => FutureInv
  <1> SUFFICES ASSUME Init PROVE FutureInv
    OBVIOUS
  <1> USE CellsAssumption, OutcomesAssumption DEF Init, Cells
  <1>1. TypeOK
    BY DEF TypeOK
  <1>2. ThenInv /\ SetterInv /\ WaiterInv /\ WokenInv
    BY DEF ThenInv, SetterInv, WaiterInv, WokenInv
  <1>3. OneSetterWins /\ NoSleeperForgotten
    BY DEF OneSetterWins, NoSleeperForgotten
  <1>4. QED
    BY <1>1, <1>2, <1>3 DEF FutureInv

LEMMA SetKeeps ==
  ASSUME FutureInv, NEW s \in Setters, NEW c \in Roots, NEW o \in Outcomes, Set(s, c, o)
  PROVE  FutureInv'
  <1> USE CellsAssumption, OutcomesAssumption
      DEF FutureInv, TypeOK, Cells, Set, Satisfy, cellVars, thenVars, waiterVars
  <1>1. TypeOK'
    <2>1. CASE ready[c]
      BY <2>1
    <2>2. CASE ~ready[c]
      <3>1. /\ ready' \in [Cells -> BOOLEAN]
            /\ content' \in [Cells -> Outcomes \cup {Empty}]
        <4>1. /\ ready' = [ready EXCEPT ![c] = TRUE]
              /\ content' = [content EXCEPT ![c] = o]
          BY <2>2
        <4> HIDE DEF Cells, Set
        <4>2. QED
          BY <4>1
      <3>2. \A b \in Cells : ready'[b] <=> content'[b] # Empty
        BY <2>2
      <3>3. spc' \in [Setters -> {"start", "notify", "done", "threw"}]
            /\ scell' \in [Setters -> Roots \cup {NoCell}]
        BY <2>2
      <3>4. QED
        BY <3>1, <3>2, <3>3
    <2>3. QED
      BY <2>1, <2>2
  <1>2. ThenInv'
    BY DEF ThenInv
  <1>3. SetterInv' /\ OneSetterWins'
    BY DEF SetterInv, OneSetterWins
  <1>4. WaiterInv' /\ WokenInv'
    BY DEF WaiterInv, WokenInv
  <1>5. NoSleeperForgotten'
    BY DEF NoSleeperForgotten, SetterInv
  <1>6. QED
    BY <1>1, <1>2, <1>3, <1>4, <1>5

LEMMA SetNotifyKeeps ==
  ASSUME FutureInv, NEW s \in Setters, SetNotifyAll(s)
  PROVE  FutureInv'
  <1> USE CellsAssumption, OutcomesAssumption
      DEF FutureInv, TypeOK, Cells, SetNotifyAll, WakeAll, SetterInv, cellVars
  <1>1. TypeOK'
    OBVIOUS
  <1>2. ThenInv'
    BY DEF ThenInv
  <1>3. SetterInv' /\ OneSetterWins'
    BY DEF OneSetterWins
  <1>4. WaiterInv' /\ WokenInv'
    BY DEF WaiterInv, WokenInv
  <1>5. NoSleeperForgotten'
    BY DEF NoSleeperForgotten, ThenInv
  <1>6. QED
    BY <1>1, <1>2, <1>3, <1>4, <1>5

LEMMA WaiterKeeps ==
  ASSUME FutureInv, NEW w \in Waiters,
         \/ \E c \in Cells, withTimeout \in BOOLEAN : Begin(w, c, withTimeout)
         \/ Resume(w) \/ Timeout(w) \/ SpuriousWake(w)
  PROVE  FutureInv'
  <1> USE CellsAssumption, OutcomesAssumption
      DEF FutureInv, TypeOK, Cells, Begin, Resume, Timeout, SpuriousWake, Check, Return,
          cellVars, thenVars, setterVars
  <1>1. TypeOK'
    BY DEF WaiterInv
  <1>2. ThenInv'
    BY DEF ThenInv
  <1>3. SetterInv' /\ OneSetterWins'
    BY DEF SetterInv, OneSetterWins
  <1>4. WaiterInv' /\ WokenInv'
    BY DEF WaiterInv, WokenInv
  <1>5. NoSleeperForgotten'
    BY DEF NoSleeperForgotten
  <1>6. QED
    BY <1>1, <1>2, <1>3, <1>4, <1>5

LEMMA ThenKeeps ==
  ASSUME FutureInv, NEW d \in Derived,
         ThenStep(d) \/ SpuriousThen(d) \/ \E c \in Cells : Then(d, c)
  PROVE  FutureInv'
  <1> USE CellsAssumption, OutcomesAssumption
      DEF FutureInv, TypeOK, Cells, setterVars, waiterVars, cellVars
  <1>1. CASE AwaitParent(d)
    <2> USE <1>1 DEF AwaitParent
    <2>1. TypeOK' /\ ThenInv'
      BY DEF ThenInv
    <2>2. SetterInv' /\ OneSetterWins' /\ WaiterInv' /\ WokenInv'
      BY DEF SetterInv, OneSetterWins, WaiterInv, WokenInv
    <2>3. NoSleeperForgotten'
      BY DEF NoSleeperForgotten, ThenInv
    <2>4. QED
      BY <2>1, <2>2, <2>3
  <1>2. ASSUME NEW o \in Outcomes, Continue(d, o)
        PROVE  FutureInv'
    <2> USE <1>2 DEF Continue, Satisfy
    <2>1. TypeOK' /\ ThenInv'
      BY DEF ThenInv
    <2>2. SetterInv' /\ OneSetterWins' /\ WaiterInv' /\ WokenInv'
      BY DEF SetterInv, OneSetterWins, WaiterInv, WokenInv, ThenInv
    <2>3. NoSleeperForgotten'
      BY DEF NoSleeperForgotten, ThenInv
    <2>4. QED
      BY <2>1, <2>2, <2>3
  <1>3. CASE ContinueNotifyAll(d)
    <2> USE <1>3 DEF ContinueNotifyAll, WakeAll
    <2>1. TypeOK' /\ ThenInv'
      BY DEF ThenInv
    <2>2. SetterInv' /\ OneSetterWins' /\ WaiterInv' /\ WokenInv'
      BY DEF SetterInv, OneSetterWins, WaiterInv, WokenInv, ThenInv
    <2>3. NoSleeperForgotten'
      BY DEF NoSleeperForgotten, ThenInv
    <2>4. QED
      BY <2>1, <2>2, <2>3
  <1>4. CASE SpuriousThen(d)
    <2> USE <1>4 DEF SpuriousThen
    <2>1. TypeOK' /\ ThenInv'
      BY DEF ThenInv
    <2>2. SetterInv' /\ OneSetterWins' /\ WaiterInv' /\ WokenInv'
      BY DEF SetterInv, OneSetterWins, WaiterInv, WokenInv
    <2>3. NoSleeperForgotten'
      BY DEF NoSleeperForgotten, ThenInv
    <2>4. QED
      BY <2>1, <2>2, <2>3
  <1>5. ASSUME NEW c \in Cells, Then(d, c)
        PROVE  FutureInv'
    <2> USE <1>5 DEF Then
    <2>1. TypeOK' /\ ThenInv'
      BY DEF ThenInv
    <2>2. SetterInv' /\ OneSetterWins' /\ WaiterInv' /\ WokenInv'
      BY DEF SetterInv, OneSetterWins, WaiterInv, WokenInv
    <2>3. NoSleeperForgotten'
      BY DEF NoSleeperForgotten, ThenInv
    <2>4. QED
      BY <2>1, <2>2, <2>3
  <1>6. QED
    BY <1>1, <1>2, <1>3, <1>4, <1>5 DEF ThenStep

LEMMA FutureStep == FutureInv /\ [Next]_vars => FutureInv'
  <1> SUFFICES ASSUME FutureInv, [Next]_vars
               PROVE  FutureInv'
    OBVIOUS
  <1>1. CASE UNCHANGED vars
    BY <1>1 DEF FutureInv, TypeOK, ThenInv, SetterInv, OneSetterWins, WaiterInv,
                NoSleeperForgotten, WokenInv, vars, cellVars, thenVars, setterVars, waiterVars
  <1>2. QED
    BY <1>1, SetKeeps, SetNotifyKeeps, WaiterKeeps, ThenKeeps DEF Next

LEMMA FutureInvariant == Spec => []FutureInv
  BY FutureInit, FutureStep, PTL DEF Spec

\* Every variable stays in its type, and a cell is ready exactly when it holds
\* an outcome.
THEOREM FutureTypeCorrect == Spec => []TypeOK
  BY FutureInvariant, PTL DEF FutureInv

\* One of the threads that satisfy a promise succeeds, the others throw.
THEOREM PromiseSatisfiedOnce == Spec => []OneSetterWins
  BY FutureInvariant, PTL DEF FutureInv

\* Get never returns before the outcome is there, spurious wake-ups included.
THEOREM GetIsExact == Spec => []GetReturnsOutcome
  <1>1. FutureInv => GetReturnsOutcome
    BY DEF FutureInv, TypeOK, WaiterInv, GetReturnsOutcome
  <1>2. QED
    BY <1>1, FutureInvariant, PTL

\* The outcome that one setter decides is what every Get returns.
THEOREM OutcomesStayHonest == Spec => []OutcomesAreHonest
  BY PromiseSatisfiedOnce, GetIsExact, PTL DEF OutcomesAreHonest

\* The notification that follows the mutex reaches every sleeper.
THEOREM NotificationReachesSleepers == Spec => []NoSleeperForgotten
  BY FutureInvariant, PTL DEF FutureInv

\* The single wait of TryGet and WaitFor is right as long as the condition
\* variable never wakes unprompted.
THEOREM TimedWaitNeedsNoSpuriousWakeups ==
  ASSUME ~SpuriousWakeups
  PROVE  Spec => []TimedTrueMeansReady
  <1>1. FutureInv => TimedTrueMeansReady
    BY DEF FutureInv, WokenInv, TimedTrueMeansReady
  <1>2. QED
    BY <1>1, FutureInvariant, PTL

-----------------------------------------------------------------------------
(* The refinement.                                                           *)

LEMMA StepImplements ==
  ASSUME FutureInv, [Next]_vars
  PROVE  Chain!Next \/ UNCHANGED Chain!vars
  <1> USE CellsAssumption, OutcomesAssumption
      DEF FutureInv, TypeOK, Cells, Outcomes, Chain!vars, Chain!Cells, Chain!Outcomes,
          cellVars, thenVars, setterVars, waiterVars
  <1>1. CASE UNCHANGED vars
    BY <1>1 DEF vars
  <1>2. ASSUME NEW s \in Setters, NEW c \in Roots, NEW o \in Outcomes, Set(s, c, o)
        PROVE  Chain!Next \/ UNCHANGED Chain!vars
    <2>1. CASE ready[c]
      BY <1>2, <2>1 DEF Set
    <2>2. CASE ~ready[c]
      <3>1. Chain!Fill(c, o)
        BY <1>2, <2>2 DEF Set, Satisfy, Chain!Fill
      <3>2. QED
        BY <3>1 DEF Chain!Next
    <2>3. QED
      BY <2>1, <2>2
  <1>3. ASSUME NEW d \in Derived, NEW o \in Outcomes, Continue(d, o)
        PROVE  Chain!Next
    <2>1. parent[d] \in Cells /\ content[parent[d]] # Empty /\ dvalue[d] = content[parent[d]]
      BY <1>3 DEF Continue, ThenInv
    <2>2. content[d] = Empty
      BY <1>3 DEF Continue, ThenInv
    <2>3. Chain!Derive(d, o)
      BY <1>3, <2>1, <2>2 DEF Continue, Satisfy, Chain!Derive, Chain!Fill, Chain!Attached
    <2>4. QED
      BY <2>3 DEF Chain!Next
  <1>4. ASSUME NEW d \in Derived, NEW c \in Cells, Then(d, c)
        PROVE  Chain!Next
    <2>1. Chain!Attach(d, c)
      BY <1>4 DEF Then, Exists, ThenInv, Chain!Attach, Chain!Attached
    <2>2. QED
      BY <2>1 DEF Chain!Next
  <1>5. ASSUME NEW d \in Derived, AwaitParent(d) \/ ContinueNotifyAll(d) \/ SpuriousThen(d)
        PROVE  UNCHANGED Chain!vars
    BY <1>5 DEF AwaitParent, ContinueNotifyAll, SpuriousThen
  <1>6. ASSUME NEW s \in Setters, SetNotifyAll(s)
        PROVE  UNCHANGED Chain!vars
    BY <1>6 DEF SetNotifyAll
  <1>7. ASSUME NEW w \in Waiters,
               \/ \E c \in Cells, withTimeout \in BOOLEAN : Begin(w, c, withTimeout)
               \/ Resume(w) \/ Timeout(w) \/ SpuriousWake(w)
        PROVE  UNCHANGED Chain!vars
    BY <1>7 DEF Begin, Resume, Timeout, SpuriousWake
  <1>8. QED
    BY <1>1, <1>2, <1>3, <1>4, <1>5, <1>6, <1>7 DEF Next, ThenStep

\* Outcomes are written once, a continuation's after its parent's, and an
\* exception is handed on unchanged.
THEOREM FutureImplementsChain == Spec => ImplementsChain
  <1>1. Init => Chain!Init
    BY DEF Init, Chain!Init, Chain!Cells, Cells
  <1>2. FutureInv /\ [Next]_vars => [Chain!Next]_(Chain!vars)
    BY StepImplements
  <1>3. QED
    BY <1>1, <1>2, FutureInvariant, PTL DEF Spec, ImplementsChain, Chain!Spec
=============================================================================
