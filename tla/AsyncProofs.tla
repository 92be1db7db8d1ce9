------------------------------ MODULE AsyncProofs ------------------------------
(***************************************************************************)
(* What timers, work items and the waits for groups of futures guarantee   *)
(* for any number of objects, calls and futures, and for any clock.        *)
(***************************************************************************)
EXTENDS Async, FiniteSetTheorems, TLAPS

-----------------------------------------------------------------------------
(* Timers.                                                                   *)

\* Neither runs nor will run a callback, or is about to clear m_running.
Quiet(k) == k \notin armed /\ inCallback[k] = 0 /\ k \notin clearing

\* What the owner knows where it is in its call.
OwnerInv ==
    /\ opc # "idle" => object \in Timers
    /\ opc = "wait" => handle[object] # 0 /\ handle[object] \notin armed
    /\ opc = "reset" => handle[object] = 0 /\ (context[object] # 0 => Quiet(context[object]))
    /\ opc \in {"create", "take"} => handle[object] = 0 /\ context[object] = 0
    /\ opc \in {"arm", "flag"} => handle[object] # 0
    /\ opc = "arm" => Quiet(handle[object])
    /\ opc \in {"wait", "reset"} /\ source = NoTimer => starts < MaxStarts
    /\ opc = "create" => starts < MaxStarts
    /\ opc = "take" => source \in Timers /\ source # object

\* An object has its pool timer and its context, or neither, or it is in Stop;
\* every context that is not freed has one object.
HeldInv ==
    /\ \A x \in Timers :
          /\ context[x] \in ctxAlive \cup {0}
          /\ handle[x] = context[x] \/ (handle[x] = 0 /\ opc = "reset" /\ x = object)
    /\ \A x, y \in Timers : x # y /\ context[x] = context[y] => context[x] = 0
    /\ \A k \in ctxAlive : \E x \in Timers : context[x] = k

\* A one-shot timer fires once; nothing but a one-shot timer clears m_running.
OneShotInv ==
    \A k \in Contexts :
        /\ k \in clearing => ctxOneShot[k] /\ k \notin armed /\ inCallback[k] = 0
        /\ ctxOneShot[k] => /\ inCallback[k] <= 1
                            /\ k \in armed => inCallback[k] = 0

\* A timer that was not moved is known to its context, and its flag is up while
\* it is not quiet, but for the time Start takes to set it.
FlagInv ==
    ~moved => \A x \in Timers : handle[x] # 0 =>
        /\ ctxTimer[handle[x]] = x
        /\ ~running[x] /\ ~(x = object /\ opc \in {"arm", "flag"}) =>
              handle[x] \notin armed /\ inCallback[handle[x]] = 0

TimerInv ==
    /\ TimerTypeOK /\ OwnerInv /\ HeldInv /\ OneShotInv /\ FlagInv
    /\ ContextOutlivesCallbacks

LEMMA TimerStart == TimerInit => TimerInv
  <1> SUFFICES ASSUME TimerInit PROVE TimerInv
    OBVIOUS
  <1> USE TimerAssumption DEF TimerInit
  <1>1. TimerTypeOK
    <2>1. /\ running \in [Timers -> BOOLEAN] /\ moved \in BOOLEAN
          /\ ctxOneShot \in [Contexts -> BOOLEAN] /\ oneShot \in BOOLEAN
      OBVIOUS
    <2>2. QED
      BY <2>1 DEF TimerTypeOK
  <1>2. OwnerInv /\ HeldInv
    BY DEF OwnerInv, HeldInv
  <1>3. OneShotInv /\ FlagInv /\ ContextOutlivesCallbacks
    BY DEF OneShotInv, FlagInv, ContextOutlivesCallbacks, Contexts
  <1>4. QED
    BY <1>1, <1>2, <1>3 DEF TimerInv

LEMMA TimerCallKeeps ==
  ASSUME TimerInv, NEW x \in Timers, BeginStop(x),
         source' = NoTimer => starts < MaxStarts,
         source' \in Timers \cup {NoTimer}, oneShot' \in BOOLEAN
  PROVE  TimerInv'
  <1> USE DEF TimerInv, BeginStop, Disarm, objectVars, contextVars, callbackVars
  <1>1. TimerTypeOK'
    BY DEF TimerTypeOK
  <1>2. OwnerInv'
    BY DEF OwnerInv, HeldInv, TimerTypeOK, Quiet
  <1>3. HeldInv'
    BY DEF HeldInv
  <1>4. OneShotInv'
    BY DEF OneShotInv
  <1>5. FlagInv'
    BY DEF FlagInv
  <1>6. ContextOutlivesCallbacks'
    BY DEF ContextOutlivesCallbacks
  <1>7. QED
    BY <1>1, <1>2, <1>3, <1>4, <1>5, <1>6

LEMMA CloseTimerKeeps ==
  ASSUME TimerInv, CloseTimer
  PROVE  TimerInv'
  <1> USE TimerAssumption DEF TimerInv, CloseTimer, contextVars, callbackVars
  <1>0. object \in Timers
    BY DEF OwnerInv
  <1>1. TimerTypeOK'
    <2>1. handle' \in [Timers -> 0..MaxStarts]
      BY <1>0 DEF TimerTypeOK
    <2>2. QED
      BY <2>1 DEF TimerTypeOK
  <1>2. OwnerInv'
    BY DEF OwnerInv, HeldInv, TimerTypeOK, Quiet
  <1>3. HeldInv'
    BY DEF HeldInv, OwnerInv, TimerTypeOK
  <1>4. OneShotInv'
    BY DEF OneShotInv
  <1>5. FlagInv'
    BY DEF FlagInv, TimerTypeOK, OwnerInv
  <1>6. ContextOutlivesCallbacks'
    BY DEF ContextOutlivesCallbacks
  <1>7. QED
    BY <1>1, <1>2, <1>3, <1>4, <1>5, <1>6

LEMMA ResetContextKeeps ==
  ASSUME TimerInv, ResetContext
  PROVE  TimerInv'
  <1> USE TimerAssumption DEF TimerInv, ResetContext, callbackVars
  <1>0. object \in Timers
    BY DEF OwnerInv
  <1>1. TimerTypeOK'
    <2>1. running' \in [Timers -> BOOLEAN]
      BY DEF TimerTypeOK
    <2>2. context' \in [Timers -> 0..MaxStarts]
      <3>1. 0 \in 0..MaxStarts
        OBVIOUS
      <3>2. QED
        BY <1>0, <3>1 DEF TimerTypeOK
    <2>3. ctxAlive' \subseteq 1..starts'
      BY DEF TimerTypeOK
    <2>4. QED
      BY <2>1, <2>2, <2>3 DEF TimerTypeOK
  <1>2. OwnerInv'
    BY DEF OwnerInv, HeldInv, TimerTypeOK, Quiet
  <1>3. HeldInv'
    BY DEF HeldInv, OwnerInv, TimerTypeOK
  <1>4. OneShotInv'
    BY DEF OneShotInv
  <1>5. FlagInv'
    BY DEF FlagInv, TimerTypeOK, OwnerInv
  <1>6. ContextOutlivesCallbacks'
    BY DEF ContextOutlivesCallbacks, OwnerInv, Quiet, TimerTypeOK, Contexts
  <1>7. QED
    BY <1>1, <1>2, <1>3, <1>4, <1>5, <1>6

LEMMA CreateTimerKeeps ==
  ASSUME TimerInv, CreateTimer
  PROVE  TimerInv'
  <1> USE TimerAssumption DEF TimerInv, CreateTimer, callbackVars
  <1>0. starts + 1 \in Contexts /\ starts + 1 \notin ctxAlive /\ object \in Timers
    BY DEF OwnerInv, TimerTypeOK, Contexts
  <1>1. TimerTypeOK'
    BY <1>0 DEF TimerTypeOK, Contexts
  <1>2. OwnerInv'
    <2>1. Quiet(starts + 1)
      BY <1>0 DEF TimerTypeOK, ContextOutlivesCallbacks, Quiet
    <2>2. QED
      BY <1>0, <2>1 DEF OwnerInv, TimerTypeOK, Quiet
  <1>3. HeldInv'
    BY <1>0 DEF HeldInv, OwnerInv, TimerTypeOK
  <1>4. OneShotInv'
    BY <1>0 DEF OneShotInv, TimerTypeOK, ContextOutlivesCallbacks
  <1>5. FlagInv'
    BY <1>0 DEF FlagInv, TimerTypeOK, OwnerInv, HeldInv
  <1>6. ContextOutlivesCallbacks'
    BY DEF ContextOutlivesCallbacks
  <1>7. QED
    BY <1>1, <1>2, <1>3, <1>4, <1>5, <1>6

LEMMA ArmKeeps ==
  ASSUME TimerInv, CreateThrows \/ Arm \/ FlagRunning
  PROVE  TimerInv'
  <1> USE TimerAssumption
      DEF TimerInv, CreateThrows, Arm, FlagRunning, objectVars, contextVars, callbackVars
  <1>0. opc \in {"arm", "flag"} => object \in Timers /\ handle[object] \in ctxAlive
    BY DEF OwnerInv, HeldInv
  <1>1. TimerTypeOK'
    BY <1>0 DEF TimerTypeOK, Contexts
  <1>2. OwnerInv'
    BY <1>0 DEF OwnerInv, TimerTypeOK, Quiet
  <1>3. HeldInv'
    BY DEF HeldInv
  <1>4. OneShotInv'
    BY <1>0 DEF OneShotInv, OwnerInv, Quiet, TimerTypeOK
  <1>5. FlagInv'
    BY <1>0 DEF FlagInv, TimerTypeOK, OwnerInv, HeldInv
  <1>6. ContextOutlivesCallbacks'
    BY <1>0 DEF ContextOutlivesCallbacks
  <1>7. QED
    BY <1>1, <1>2, <1>3, <1>4, <1>5, <1>6

LEMMA TakeOverKeeps ==
  ASSUME TimerInv, TakeOver
  PROVE  TimerInv'
  <1> USE TimerAssumption DEF TimerInv, TakeOver, contextVars, callbackVars
  <1>0. object \in Timers /\ source \in Timers /\ source # object
    BY DEF OwnerInv
  <1>1. TimerTypeOK'
    <2>1. running' \in [Timers -> BOOLEAN]
      <3>1. running[source] \in BOOLEAN
        BY <1>0 DEF TimerTypeOK
      <3>2. QED
        BY <1>0, <3>1 DEF TimerTypeOK
    <2>2. /\ handle' \in [Timers -> 0..MaxStarts]
          /\ context' \in [Timers -> 0..MaxStarts]
      BY <1>0 DEF TimerTypeOK
    <2>3. QED
      BY <2>1, <2>2 DEF TimerTypeOK
  <1>2. OwnerInv'
    BY DEF OwnerInv
  <1>3. HeldInv'
    BY <1>0 DEF HeldInv, OwnerInv, TimerTypeOK
  <1>4. OneShotInv' /\ FlagInv' /\ ContextOutlivesCallbacks'
    BY DEF OneShotInv, FlagInv, ContextOutlivesCallbacks
  <1>5. QED
    BY <1>1, <1>2, <1>3, <1>4

LEMMA CallbackKeeps ==
  ASSUME TimerInv, NEW k \in Contexts, Fire(k) \/ UserReturns(k) \/ ClearRunning(k)
  PROVE  TimerInv'
  <1> USE TimerAssumption
      DEF TimerInv, Fire, UserReturns, ClearRunning, objectVars, contextVars, ownerVars
  <1>0. k \in ctxAlive /\ k \in 1..starts
    BY DEF ContextOutlivesCallbacks, TimerTypeOK
  <1>1. TimerTypeOK'
    <2>1. running' \in [Timers -> BOOLEAN]
      BY DEF TimerTypeOK
    <2>2. inCallback' \in [Contexts -> 0..MaxOverlap]
      BY DEF TimerTypeOK
    <2>3. armed' \subseteq 1..starts /\ clearing' \subseteq 1..starts
      BY <1>0 DEF TimerTypeOK
    <2>4. QED
      BY <2>1, <2>2, <2>3 DEF TimerTypeOK
  <1>2. OwnerInv'
    <2>1. \A j \in Contexts : Quiet(j) => Quiet(j)'
      BY DEF Quiet, TimerTypeOK
    <2>2. \A x \in Timers : handle[x] # 0 => handle[x] \in Contexts
      BY DEF TimerTypeOK, Contexts
    <2>3. \A x \in Timers : context[x] # 0 => context[x] \in Contexts
      BY DEF TimerTypeOK, Contexts
    <2>4. armed' \subseteq armed
      OBVIOUS
    <2>5. QED
      BY <2>1, <2>2, <2>3, <2>4 DEF OwnerInv
  <1>3. HeldInv'
    BY DEF HeldInv
  <1>4. OneShotInv'
    BY DEF OneShotInv, TimerTypeOK
  <1>5. FlagInv'
    <2>1. SUFFICES ASSUME ~moved, NEW x \in Timers, handle[x] # 0
                   PROVE  /\ ctxTimer[handle[x]] = x
                          /\ ~running'[x] /\ ~(x = object /\ opc \in {"arm", "flag"}) =>
                                handle[x] \notin armed' /\ inCallback'[handle[x]] = 0
      BY DEF FlagInv
    <2>2. handle[x] \in Contexts
      BY <2>1 DEF TimerTypeOK, Contexts
    <2>3. ctxTimer[handle[x]] = x
      BY <2>1 DEF FlagInv
    <2>4. CASE Fire(k) \/ UserReturns(k)
      BY <2>1, <2>2, <2>3, <2>4 DEF FlagInv, TimerTypeOK
    <2>5. CASE ClearRunning(k)
      <3>1. PICK y \in Timers : context[y] = k
        BY <1>0 DEF HeldInv
      <3>2. k # 0
        BY <1>0 DEF TimerTypeOK
      <3>3. handle[y] = k
        BY <2>5, <3>1, <3>2 DEF HeldInv, OwnerInv, Quiet
      <3>4. ctxTimer[k] = y
        BY <2>1, <3>2, <3>3 DEF FlagInv
      <3>5. CASE x = y
        BY <2>5, <2>3, <3>3, <3>5 DEF OneShotInv
      <3>6. CASE x # y
        <4>1. running'[x] = running[x]
          BY <2>5, <3>4, <3>6 DEF TimerTypeOK
        <4>2. QED
          BY <2>1, <2>3, <2>5, <4>1 DEF FlagInv
      <3>7. QED
        BY <3>5, <3>6
    <2>6. QED
      BY <2>4, <2>5
  <1>6. ContextOutlivesCallbacks'
    BY <1>0 DEF ContextOutlivesCallbacks, TimerTypeOK
  <1>7. QED
    BY <1>1, <1>2, <1>3, <1>4, <1>5, <1>6

LEMMA TimerKeeps == TimerInv /\ [TimerNext]_timerVars => TimerInv'
  <1> SUFFICES ASSUME TimerInv, [TimerNext]_timerVars PROVE TimerInv'
    OBVIOUS
  <1>1. CASE UNCHANGED timerVars
    BY <1>1 DEF timerVars, objectVars, contextVars, callbackVars, ownerVars, TimerInv,
                TimerTypeOK, OwnerInv, HeldInv, OneShotInv, FlagInv, Quiet,
                ContextOutlivesCallbacks
  <1>2. CASE TimerCall
    BY <1>2, TimerCallKeeps, TimerAssumption DEF TimerCall, Stop, Start, MoveAssign
  <1>3. CASE TimerOwner
    BY <1>3, CloseTimerKeeps, ResetContextKeeps, CreateTimerKeeps, ArmKeeps, TakeOverKeeps
       DEF TimerOwner
  <1>4. ASSUME NEW k \in Contexts, Fire(k) \/ TimerCallback(k)
        PROVE  TimerInv'
    BY <1>4, CallbackKeeps DEF TimerCallback
  <1>5. QED
    BY <1>1, <1>2, <1>3, <1>4 DEF TimerNext

LEMMA TimerInvGives == TimerInv => NotRunningMeansQuiet
  BY DEF TimerInv, FlagInv, NotRunningMeansQuiet

-----------------------------------------------------------------------------
(* Work items.                                                               *)

\* The pool works are held by one object each; a context that is still to run
\* and was not freed belongs to the object that holds it, and an object that was
\* never moved made the one it holds.
PoolInv ==
    /\ \A k \in Submissions : /\ k > submits => stage[k] = "none"
                              /\ k <= submits => self[k] \in Works
    /\ \A x, y \in Works : x # y /\ work[x] = work[y] => work[x] = 0
    /\ \A x \in Works \ shifted : work[x] # 0 => self[work[x]] = x
    /\ \A k \in Submissions :
          Pending(k) /\ k \notin dropped /\ self[k] \notin shifted => work[self[k]] = k
    /\ WorkContextOutlivesCallback

\* What the owner knows in Cancel, and the observers in Wait.
CancelInv ==
    /\ wopc # "idle" => wobj \in Works
    /\ wopc = "wait" => work[wobj] # 0
    /\ wopc = "complete" => work[wobj] = 0
    /\ \A v \in Observers : vpc[v] # "idle" => vobj[v] \in Works

\* Something will complete a Work that is not complete: its callback or Cancel.
CompletionInv ==
    /\ CompleteMeansFinished
    /\ \A x \in Works \ (vain \cup shifted) :
          \/ complete[x]
          \/ work[x] # 0 /\ Pending(work[x])
          \/ wopc # "idle" /\ wobj = x
    /\ \A v \in Observers : vpc[v] = "asleep" => ~complete[vobj[v]]

WorkInv == WorkTypeOK /\ PoolInv /\ CancelInv /\ CompletionInv

LEMMA WorkStart == WorkInit => WorkInv
  <1> SUFFICES ASSUME WorkInit PROVE WorkInv
    OBVIOUS
  <1> USE WorkAssumption DEF WorkInit
  <1>1. WorkTypeOK
    <2>1. complete \in [Works -> BOOLEAN]
      OBVIOUS
    <2>2. QED
      BY <2>1 DEF WorkTypeOK, Submissions
  <1>2. PoolInv /\ CancelInv
    BY DEF PoolInv, CancelInv, WorkContextOutlivesCallback, Pending, Submissions
  <1>3. CompletionInv
    BY DEF CompletionInv, CompleteMeansFinished, Pending, Submissions
  <1>4. QED
    BY <1>1, <1>2, <1>3 DEF WorkInv

\* A context that is still to run was made by an object.
LEMMA PendingKnown ==
  ASSUME WorkInv, NEW k \in Submissions, Pending(k)
  PROVE  k \in 1..submits /\ k # 0 /\ self[k] \in Works
  <1>1. k \in Nat /\ submits \in Nat /\ k >= 1
    BY WorkAssumption DEF WorkInv, WorkTypeOK, Submissions
  <1>2. ~(k > submits)
    BY DEF WorkInv, PoolInv, Pending
  <1>3. QED
    BY <1>1, <1>2 DEF WorkInv, PoolInv

\* The work an object holds was submitted.
LEMMA HeldKnown ==
  ASSUME WorkInv, NEW x \in Works, work[x] # 0
  PROVE  work[x] \in 1..submits /\ work[x] \in Submissions
  <1>1. work[x] \in 0..submits /\ submits \in 0..MaxSubmits
    BY DEF WorkInv, WorkTypeOK
  <1>2. QED
    BY <1>1, WorkAssumption DEF Submissions

LEMMA SubmitKeeps ==
  ASSUME WorkInv, NEW x \in Works, SubmitWork(x)
  PROVE  WorkInv'
  <1> USE WorkAssumption DEF WorkInv, Pending
  <1> DEFINE n == submits + 1
  <1>1. /\ submits \in Nat /\ n \in Submissions /\ submits' = n
        /\ wopc = "idle" /\ work[x] = 0 /\ stage[n] = "none"
        /\ UNCHANGED <<wopc, wobj, vpc, vobj, dropped, shifted>> /\ vain' = vain \ {x}
    <2>1. submits \in Nat /\ submits < MaxSubmits
      BY DEF SubmitWork, WorkTypeOK
    <2>2. n \in Submissions /\ n > submits
      BY <2>1 DEF Submissions
    <2>3. stage[n] = "none"
      BY <2>2 DEF PoolInv
    <2>4. QED
      BY <2>1, <2>2, <2>3 DEF SubmitWork, ownerState, observerVars
  <1>2. /\ work' = [work EXCEPT ![x] = n]
        /\ self' = [self EXCEPT ![n] = x]
        /\ complete' = [complete EXCEPT ![x] = FALSE]
        /\ stage' = [stage EXCEPT ![n] = "queued"]
    BY DEF SubmitWork
  <1> HIDE DEF n
  <1>3. WorkTypeOK'
    <2>1. complete' \in [Works -> BOOLEAN]
      BY <1>2 DEF WorkTypeOK
    <2>2. n \in 0..MaxSubmits /\ 0..submits \subseteq 0..n /\ n \in 0..n
      BY <1>1 DEF n, Submissions, WorkTypeOK
    <2>3. work' \in [Works -> 0..n]
      BY <1>2, <2>2 DEF WorkTypeOK
    <2>4. dropped' \subseteq 1..n
      BY <1>1 DEF WorkTypeOK, n
    <2>5. /\ self' \in [Submissions -> Works \cup {NoWork}]
          /\ stage' \in [Submissions -> {"none", "queued", "running", "returned", "over"}]
      BY <1>1, <1>2 DEF WorkTypeOK
    <2>6. shifted' \subseteq Works /\ vain' \subseteq Works
      BY <1>1 DEF WorkTypeOK
    <2>7. QED
      BY <1>1, <2>1, <2>2, <2>3, <2>4, <2>5, <2>6 DEF WorkTypeOK
  <1>4. /\ \A y \in Works : work'[y] = IF y = x THEN n ELSE work[y]
        /\ \A k \in Submissions : /\ self'[k] = IF k = n THEN x ELSE self[k]
                                  /\ stage'[k] = IF k = n THEN "queued" ELSE stage[k]
    BY <1>1, <1>2 DEF WorkTypeOK
  <1>5. \A y \in Works : work[y] \in 0..submits
    BY DEF WorkTypeOK
  <1>6. n # 0 /\ n \notin 0..submits /\ \A k \in Submissions : k > n => k > submits /\ k # n
    BY <1>1 DEF n, Submissions
  <1>7. PoolInv'
    <2>1. \A k \in Submissions : /\ k > submits' => stage'[k] = "none"
                                 /\ k <= submits' => self'[k] \in Works
      BY <1>1, <1>4, <1>6 DEF PoolInv, Submissions, n
    <2>2. \A y, z \in Works : y # z /\ work'[y] = work'[z] => work'[y] = 0
      BY <1>4, <1>5, <1>6 DEF PoolInv
    <2>3. \A y \in Works \ shifted' : work'[y] # 0 => self'[work'[y]] = y
      <3>1. \A y \in Works : work[y] # 0 => work[y] \in Submissions /\ work[y] # n
        BY <1>1, <1>5, <1>6 DEF Submissions, WorkTypeOK
      <3>2. QED
        BY <1>1, <1>4, <3>1 DEF PoolInv
    <2>4. \A k \in Submissions :
             Pending(k)' /\ k \notin dropped => \E y \in Works : work'[y] = k
      BY <1>1, <1>4, <1>6 DEF PoolInv, WorkContextOutlivesCallback, Pending, Submissions
    <2>5. ASSUME NEW k \in Submissions, Pending(k)', k \notin dropped, self'[k] \notin shifted
          PROVE  work'[self'[k]] = k
      <3>1. CASE k = n
        BY <1>1, <1>4, <3>1
      <3>2. CASE k # n
        <4>1. Pending(k) /\ self'[k] = self[k]
          BY <1>4, <2>5, <3>2 DEF Pending
        <4>2. work[self[k]] = k /\ self[k] \in Works /\ k # 0
          BY <1>1, <2>5, <4>1, PendingKnown DEF PoolInv, Pending, Submissions
        <4>3. QED
          BY <1>1, <1>4, <4>1, <4>2
      <3>3. QED
        BY <3>1, <3>2
    <2>6. QED
      BY <1>1, <2>1, <2>2, <2>3, <2>4, <2>5 DEF PoolInv, WorkContextOutlivesCallback
  <1>8. CancelInv'
    BY <1>1 DEF CancelInv
  <1>9. CompletionInv'
    <2>1. ~complete'[x] /\ \A y \in Works \ {x} : complete'[y] = complete[y]
      BY <1>2 DEF WorkTypeOK
    <2>2. CompleteMeansFinished'
      <3>1. SUFFICES ASSUME NEW k \in Submissions, Pending(k)', k \notin dropped,
                            self'[k] \notin shifted
                     PROVE  ~complete'[self'[k]]
        BY <1>1 DEF CompleteMeansFinished
      <3>2. CASE self'[k] = x
        BY <2>1, <3>2
      <3>3. CASE self'[k] # x
        <4>1. k # n /\ self'[k] = self[k] /\ Pending(k)
          BY <1>4, <3>1, <3>3 DEF Pending
        <4>2. self[k] \in Works
          BY <1>1, <4>1, PendingKnown DEF PoolInv, Pending, Submissions
        <4>3. ~complete[self[k]]
          BY <3>1, <4>1 DEF CompletionInv, CompleteMeansFinished
        <4>4. QED
          BY <2>1, <3>3, <4>1, <4>2, <4>3
      <3>4. QED
        BY <3>2, <3>3
    <2>3. ASSUME NEW y \in Works, y \notin vain', y \notin shifted'
          PROVE  complete'[y] \/ (work[y] # 0 /\ Pending(work[y]))'
      <3>1. CASE y = x
        BY <1>1, <1>4, <1>6, <3>1 DEF Pending
      <3>2. CASE y # x
        <4>1. complete[y] \/ (work[y] # 0 /\ Pending(work[y]))
          BY <1>1, <2>3, <3>2 DEF CompletionInv
        <4>2. work[y] # 0 => work[y] \in Submissions /\ work[y] # n
          BY <1>1, <1>5, <1>6 DEF Submissions, WorkTypeOK
        <4>3. (work[y] # 0 /\ Pending(work[y])) => (work[y] # 0 /\ Pending(work[y]))'
          BY <1>4, <3>2, <4>2 DEF Pending
        <4>4. complete'[y] = complete[y]
          BY <2>1, <3>2
        <4>5. QED
          BY <4>1, <4>3, <4>4
      <3>3. QED
        BY <3>1, <3>2
    <2>4. ASSUME NEW v \in Observers, vpc[v] = "asleep" PROVE ~complete'[vobj[v]]
      <3>1. vobj[v] \in Works /\ ~complete[vobj[v]]
        BY <2>4 DEF CompletionInv, CancelInv
      <3>2. QED
        BY <2>1, <3>1
    <2>5. QED
      BY <1>1, <2>2, <2>3, <2>4 DEF CompletionInv
  <1>10. QED
    BY <1>3, <1>7, <1>8, <1>9

LEMMA SubmitThrowsKeeps ==
  ASSUME WorkInv, NEW x \in Works, SubmitThrows(x)
  PROVE  WorkInv'
  <1> USE DEF WorkInv, SubmitThrows, poolVars, ownerState, observerVars
  <1>1. WorkTypeOK'
    <2>1. complete' \in [Works -> BOOLEAN]
      BY DEF WorkTypeOK
    <2>2. QED
      BY <2>1 DEF WorkTypeOK
  <1>2. PoolInv' /\ CancelInv'
    BY DEF PoolInv, CancelInv, WorkContextOutlivesCallback, Pending
  <1>3. CompletionInv'
    <2>1. ~complete'[x] /\ \A y \in Works \ {x} : complete'[y] = complete[y]
      BY DEF WorkTypeOK
    <2>2. ASSUME NEW y \in Works, ~complete[y] PROVE ~complete'[y]
      BY <2>1, <2>2
    <2>3. CompleteMeansFinished'
      <3>1. SUFFICES ASSUME NEW k \in Submissions, Pending(k), k \notin dropped,
                            self[k] \notin shifted
                     PROVE  ~complete'[self[k]]
        BY DEF CompleteMeansFinished, Pending
      <3>2. self[k] \in Works
        BY <3>1, PendingKnown DEF PoolInv, Pending, Submissions, WorkTypeOK
      <3>3. ~complete[self[k]]
        BY <3>1 DEF CompletionInv, CompleteMeansFinished
      <3>4. QED
        BY <2>2, <3>2, <3>3
    <2>4. ASSUME NEW v \in Observers, vpc[v] = "asleep" PROVE ~complete'[vobj[v]]
      BY <2>2, <2>4 DEF CompletionInv, CancelInv
    <2>5. ASSUME NEW y \in Works, y \notin vain', y \notin shifted
          PROVE  complete'[y] \/ (work[y] # 0 /\ Pending(work[y])) \/ (wopc # "idle" /\ wobj = y)
      BY <2>1, <2>5 DEF CompletionInv
    <2>6. QED
      BY <2>3, <2>4, <2>5 DEF CompletionInv, Pending
  <1>4. QED
    BY <1>1, <1>2, <1>3

LEMMA CancelKeeps ==
  ASSUME WorkInv, NEW x \in Works, Cancel(x)
  PROVE  WorkInv'
  <1> USE DEF WorkInv, Pending
  <1>1. /\ wopc = "idle" /\ wobj' = x /\ wopc' \in {"wait", "complete"}
        /\ wopc' = "wait" <=> work[x] # 0
        /\ UNCHANGED <<work, complete, submits, self, vpc, vobj, dropped, shifted, vain>>
    BY DEF Cancel, observerVars, pastVars
  <1>2. /\ stage' \in [Submissions -> {"none", "queued", "running", "returned", "over"}]
        /\ \A k \in Submissions : /\ Pending(k)' => Pending(k)
                                  /\ k # work[x] => stage'[k] = stage[k]
                                  /\ stage[k] = "none" => stage'[k] = "none"
    BY DEF Cancel, WorkTypeOK, Pending
  <1>3. WorkTypeOK'
    BY <1>1, <1>2 DEF WorkTypeOK
  <1>4. PoolInv'
    <2>1. WorkContextOutlivesCallback'
      BY <1>1, <1>2 DEF PoolInv, WorkContextOutlivesCallback
    <2>2. QED
      BY <1>1, <1>2, <2>1 DEF PoolInv
  <1>5. CancelInv'
    BY <1>1 DEF CancelInv
  <1>6. CompletionInv'
    <2>1. CompleteMeansFinished'
      BY <1>1, <1>2 DEF CompletionInv, CompleteMeansFinished
    <2>2. ASSUME NEW y \in Works \ (vain \cup shifted)
          PROVE  \/ complete[y]
                 \/ (work[y] # 0 /\ Pending(work[y]))'
                 \/ x = y
      <3>1. SUFFICES ASSUME x # y, ~complete[y]
                     PROVE  (work[y] # 0 /\ Pending(work[y]))'
        OBVIOUS
      <3>2. work[y] # 0 /\ Pending(work[y])
        BY <1>1, <2>2, <3>1 DEF CompletionInv
      <3>3. work[y] # work[x] /\ work[y] \in Submissions
        BY <3>1, <3>2, HeldKnown DEF PoolInv
      <3>4. QED
        BY <1>1, <1>2, <3>2, <3>3 DEF Pending
    <2>3. QED
      BY <1>1, <2>1, <2>2 DEF CompletionInv
  <1>7. QED
    BY <1>3, <1>4, <1>5, <1>6

LEMMA CloseWorkKeeps ==
  ASSUME WorkInv, CloseWork
  PROVE  WorkInv'
  <1> USE DEF WorkInv, Pending
  <1>1. /\ wopc = "wait" /\ wopc' = "complete" /\ ~Pending(work[wobj])
        /\ UNCHANGED <<complete, submits, self, stage, wobj, vpc, vobj, dropped, shifted, vain>>
    BY DEF CloseWork, poolVars, observerVars, pastVars
  <1>2. wobj \in Works
    BY <1>1 DEF CancelInv
  <1>3. /\ work' \in [Works -> 0..submits]
        /\ work'[wobj] = 0 /\ \A y \in Works \ {wobj} : work'[y] = work[y]
    BY <1>2 DEF CloseWork, WorkTypeOK
  <1>4. WorkTypeOK'
    BY <1>1, <1>3 DEF WorkTypeOK
  <1>5. PoolInv'
    <2>1. WorkContextOutlivesCallback'
      BY <1>1, <1>2, <1>3 DEF PoolInv, WorkContextOutlivesCallback, Pending
    <2>2. \A x, y \in Works : x # y /\ work'[x] = work'[y] => work'[x] = 0
      BY <1>3 DEF PoolInv
    <2>3. \A x \in Works \ shifted : work'[x] # 0 => self[work'[x]] = x
      BY <1>2, <1>3 DEF PoolInv
    <2>4. ASSUME NEW k \in Submissions, Pending(k), k \notin dropped, self[k] \notin shifted
          PROVE  work'[self[k]] = k
      <3>1. work[self[k]] = k
        BY <2>4 DEF PoolInv
      <3>2. self[k] \in Works \ {wobj}
        BY <1>1, <2>4, <3>1, PendingKnown
      <3>3. QED
        BY <1>3, <3>1, <3>2
    <2>5. QED
      BY <1>1, <2>1, <2>2, <2>3, <2>4 DEF PoolInv
  <1>6. CancelInv'
    BY <1>1, <1>2, <1>3 DEF CancelInv
  <1>7. CompletionInv'
    <2>1. CompleteMeansFinished'
      BY <1>1 DEF CompletionInv, CompleteMeansFinished, Pending
    <2>2. QED
      BY <1>1, <1>2, <1>3, <2>1 DEF CompletionInv, Pending
  <1>8. QED
    BY <1>4, <1>5, <1>6, <1>7

\* What Cancel and WorkCallback do to the flag and the observers of an object.
LEMMA CompletedWakes ==
  ASSUME WorkInv, NEW x \in Works,
         complete' = [complete EXCEPT ![x] = TRUE], WakeObservers(x), vobj' = vobj
  PROVE  /\ complete' \in [Works -> BOOLEAN]
         /\ complete'[x] /\ \A y \in Works \ {x} : complete'[y] = complete[y]
         /\ vpc' \in [Observers -> {"idle", "asleep", "woken"}]
         /\ \A v \in Observers : /\ vpc'[v] = "idle" <=> vpc[v] = "idle"
                                 /\ vpc'[v] = "asleep" => ~complete'[vobj'[v]]
  <1> USE DEF WorkInv, Pending
  <1>1. complete' \in [Works -> BOOLEAN]
    BY DEF WorkTypeOK
  <1>2. complete'[x] /\ \A y \in Works \ {x} : complete'[y] = complete[y]
    BY DEF WorkTypeOK
  <1>3. /\ vpc' \in [Observers -> {"idle", "asleep", "woken"}]
        /\ \A v \in Observers : /\ vpc'[v] = "idle" <=> vpc[v] = "idle"
                                /\ vpc'[v] = "asleep" => vpc[v] = "asleep" /\ vobj[v] # x
    BY DEF WakeObservers, WorkTypeOK
  <1>4. ASSUME NEW v \in Observers, vpc'[v] = "asleep" PROVE ~complete'[vobj'[v]]
    <2>1. vpc[v] = "asleep" /\ vobj[v] # x
      BY <1>3, <1>4
    <2>2. vobj[v] \in Works /\ ~complete[vobj[v]]
      BY <2>1 DEF CancelInv, CompletionInv
    <2>3. QED
      BY <1>2, <2>1, <2>2
  <1>5. QED
    BY <1>1, <1>2, <1>3, <1>4

LEMMA CancelCompleteKeeps ==
  ASSUME WorkInv, CancelComplete
  PROVE  WorkInv'
  <1> USE DEF WorkInv, Pending
  <1>1. /\ wopc = "complete" /\ wopc' = "idle" /\ wobj' = NoWork
        /\ UNCHANGED <<work, submits, self, stage, vobj, dropped, shifted, vain>>
    BY DEF CancelComplete, poolVars, pastVars
  <1>2. wobj \in Works /\ work[wobj] = 0
    BY <1>1 DEF CancelInv
  <1>3. /\ complete' \in [Works -> BOOLEAN]
        /\ complete'[wobj] /\ \A y \in Works \ {wobj} : complete'[y] = complete[y]
        /\ vpc' \in [Observers -> {"idle", "asleep", "woken"}]
        /\ \A v \in Observers : /\ vpc'[v] = "idle" <=> vpc[v] = "idle"
                                /\ vpc'[v] = "asleep" => ~complete'[vobj'[v]]
    BY <1>2, CompletedWakes DEF CancelComplete
  <1>4. WorkTypeOK'
    BY <1>1, <1>3 DEF WorkTypeOK
  <1>5. PoolInv'
    BY <1>1 DEF PoolInv, WorkContextOutlivesCallback, Pending
  <1>6. CancelInv'
    BY <1>1, <1>3 DEF CancelInv
  <1>7. CompletionInv'
    <2>1. ASSUME NEW k \in Submissions, Pending(k), k \notin dropped, self[k] \notin shifted
          PROVE  ~complete'[self[k]]
      <3>2. k # 0 /\ self[k] \in Works
        BY <2>1, PendingKnown DEF PoolInv, Pending, Submissions, WorkTypeOK
      <3>3. ~complete[self[k]]
        BY <2>1 DEF CompletionInv, CompleteMeansFinished
      <3>4. self[k] # wobj
        BY <1>2, <2>1, <3>2 DEF PoolInv
      <3>5. QED
        BY <1>3, <3>2, <3>3, <3>4
    <2>2. CompleteMeansFinished'
      BY <1>1, <2>1 DEF CompleteMeansFinished, Pending
    <2>3. ASSUME NEW y \in Works \ (vain \cup shifted)
          PROVE  complete'[y] \/ (work[y] # 0 /\ Pending(work[y]))
      BY <1>3, <2>3 DEF CompletionInv
    <2>4. QED
      BY <1>1, <1>3, <2>2, <2>3 DEF CompletionInv, Pending
  <1>8. QED
    BY <1>4, <1>5, <1>6, <1>7

LEMMA MoveKeeps ==
  ASSUME WorkInv, NEW x \in Works, NEW y \in Works, MoveWork(x, y)
  PROVE  WorkInv'
  <1> USE DEF WorkInv, Pending
  <1>1. /\ wopc = "idle" /\ x # y /\ Unwatched(x)
        /\ shifted' = shifted \cup {x, y}
        /\ UNCHANGED <<submits, self, stage, wopc, wobj, vpc, vobj, vain>>
    BY DEF MoveWork, poolVars, ownerState, observerVars
  <1>2. /\ work' \in [Works -> 0..submits]
        /\ work'[x] = work[y] /\ work'[y] = 0
        /\ \A z \in Works \ {x, y} : work'[z] = work[z]
    BY <1>1 DEF MoveWork, WorkTypeOK
  <1>3. /\ dropped' \subseteq 1..submits /\ dropped \subseteq dropped'
        /\ work[x] # 0 /\ Pending(work[x]) => work[x] \in dropped'
    BY HeldKnown DEF MoveWork, DropContext, WorkTypeOK
  <1>4. complete' \in [Works -> BOOLEAN]
    BY DEF MoveWork, WorkTypeOK
  <1>5. \A z \in Works \ {x} : complete'[z] = complete[z]
    BY DEF MoveWork, WorkTypeOK
  <1>6. WorkTypeOK'
    BY <1>1, <1>2, <1>3, <1>4 DEF WorkTypeOK
  <1>7. PoolInv'
    <2>1. \A z, u \in Works : z # u /\ work'[z] = work'[u] => work'[z] = 0
      BY <1>1, <1>2 DEF PoolInv
    <2>2. \A z \in Works \ shifted' : work'[z] # 0 => self[work'[z]] = z
      BY <1>1, <1>2, PendingKnown DEF PoolInv
    <2>3. ASSUME NEW k \in Submissions, Pending(k), k \notin dropped', self[k] \notin shifted'
          PROVE  work'[self[k]] = k
      <3>1. work[self[k]] = k /\ self[k] \notin {x, y}
        BY <1>1, <1>3, <2>3 DEF PoolInv
      <3>2. self[k] \in Works
        BY <2>3, PendingKnown DEF PoolInv, Pending, Submissions, WorkTypeOK
      <3>3. QED
        BY <1>2, <3>1, <3>2
    <2>4. ASSUME NEW k \in Submissions, Pending(k), k \notin dropped'
          PROVE  \E z \in Works : work'[z] = k
      <3>1. PICK z \in Works : work[z] = k
        BY <1>3, <2>4 DEF PoolInv, WorkContextOutlivesCallback
      <3>2. z # x
        BY <1>3, <2>4, <3>1 DEF Submissions
      <3>3. QED
        BY <1>2, <3>1, <3>2
    <2>5. QED
      BY <1>1, <2>1, <2>2, <2>3, <2>4 DEF PoolInv, WorkContextOutlivesCallback, Pending
  <1>8. CancelInv'
    BY <1>1 DEF CancelInv
  <1>9. CompletionInv'
    <2>1. ASSUME NEW k \in Submissions, Pending(k), k \notin dropped', self[k] \notin shifted'
          PROVE  ~complete'[self[k]]
      <3>1. ~complete[self[k]] /\ self[k] # x
        BY <1>1, <1>3, <2>1 DEF CompletionInv, CompleteMeansFinished
      <3>2. self[k] \in Works
        BY <2>1, PendingKnown DEF PoolInv, Pending, Submissions, WorkTypeOK
      <3>3. QED
        BY <1>5, <3>1, <3>2
    <2>2. CompleteMeansFinished'
      BY <1>1, <2>1 DEF CompleteMeansFinished, Pending
    <2>3. ASSUME NEW z \in Works \ (vain \cup shifted')
          PROVE  complete'[z] \/ (work[z] # 0 /\ Pending(work[z]))'
      <3>1. z # x /\ z # y /\ complete'[z] = complete[z] /\ work'[z] = work[z]
        BY <1>1, <1>2, <1>5, <2>3
      <3>2. complete[z] \/ (work[z] # 0 /\ Pending(work[z]))
        BY <1>1, <2>3 DEF CompletionInv
      <3>3. QED
        BY <1>1, <3>1, <3>2 DEF Pending
    <2>4. ASSUME NEW v \in Observers, vpc[v] = "asleep" PROVE ~complete'[vobj[v]]
      BY <1>1, <1>5, <2>4 DEF CompletionInv, CancelInv, Unwatched
    <2>5. QED
      BY <1>1, <2>2, <2>3, <2>4 DEF CompletionInv
  <1>10. QED
    BY <1>6, <1>7, <1>8, <1>9

LEMMA RenewKeeps ==
  ASSUME WorkInv, NEW x \in Works, RenewWork(x)
  PROVE  WorkInv'
  <1> USE WorkAssumption DEF WorkInv, Pending
  <1>1. /\ wopc = "idle" /\ Unwatched(x) /\ vain' = vain \cup {x}
        /\ UNCHANGED <<submits, self, stage, wopc, wobj, vpc, vobj, shifted>>
    BY DEF RenewWork, poolVars, ownerState, observerVars
  <1>2. /\ work' \in [Works -> 0..submits]
        /\ work'[x] = 0 /\ \A z \in Works \ {x} : work'[z] = work[z]
    BY DEF RenewWork, WorkTypeOK
  <1>3. /\ dropped' \subseteq 1..submits /\ dropped \subseteq dropped'
        /\ work[x] # 0 /\ Pending(work[x]) => work[x] \in dropped'
    BY HeldKnown DEF RenewWork, DropContext, WorkTypeOK
  <1>4. complete' \in [Works -> BOOLEAN]
    BY DEF RenewWork, WorkTypeOK
  <1>5. ~complete'[x] /\ \A z \in Works \ {x} : complete'[z] = complete[z]
    BY DEF RenewWork, WorkTypeOK
  <1>6. WorkTypeOK'
    BY <1>1, <1>2, <1>3, <1>4 DEF WorkTypeOK
  <1>7. PoolInv'
    <2>1. \A z, u \in Works : z # u /\ work'[z] = work'[u] => work'[z] = 0
      BY <1>1, <1>2 DEF PoolInv
    <2>2. \A z \in Works \ shifted : work'[z] # 0 => self[work'[z]] = z
      BY <1>1, <1>2, PendingKnown DEF PoolInv
    <2>3. ASSUME NEW k \in Submissions, Pending(k), k \notin dropped', self[k] \notin shifted
          PROVE  work'[self[k]] = k
      <3>1. work[self[k]] = k /\ k # 0
        BY <1>3, <2>3 DEF PoolInv, Submissions
      <3>2. self[k] \in Works /\ self[k] # x
        BY <1>3, <2>3, <3>1, PendingKnown DEF PoolInv, Pending, Submissions, WorkTypeOK
      <3>3. QED
        BY <1>2, <3>1, <3>2
    <2>4. ASSUME NEW k \in Submissions, Pending(k), k \notin dropped'
          PROVE  \E z \in Works : work'[z] = k
      <3>1. PICK z \in Works : work[z] = k
        BY <1>3, <2>4 DEF PoolInv, WorkContextOutlivesCallback
      <3>2. z # x
        BY <1>3, <2>4, <3>1 DEF Submissions
      <3>3. QED
        BY <1>2, <3>1, <3>2
    <2>5. QED
      BY <1>1, <2>1, <2>2, <2>3, <2>4 DEF PoolInv, WorkContextOutlivesCallback, Pending
  <1>8. CancelInv'
    BY <1>1 DEF CancelInv
  <1>9. CompletionInv'
    <2>1. ASSUME NEW z \in Works, ~complete[z] PROVE ~complete'[z]
      BY <1>5, <2>1
    <2>2. ASSUME NEW k \in Submissions, Pending(k), k \notin dropped', self[k] \notin shifted
          PROVE  ~complete'[self[k]]
      <3>1. ~complete[self[k]]
        BY <1>3, <2>2 DEF CompletionInv, CompleteMeansFinished
      <3>2. self[k] \in Works
        BY <2>2, PendingKnown DEF PoolInv, Pending, Submissions, WorkTypeOK
      <3>3. QED
        BY <2>1, <3>1, <3>2
    <2>3. CompleteMeansFinished'
      BY <1>1, <2>2 DEF CompleteMeansFinished, Pending
    <2>4. ASSUME NEW z \in Works \ (vain' \cup shifted)
          PROVE  complete'[z] \/ (work[z] # 0 /\ Pending(work[z]))'
      <3>1. z # x /\ complete'[z] = complete[z] /\ work'[z] = work[z]
        BY <1>1, <1>2, <1>5, <2>4
      <3>2. complete[z] \/ (work[z] # 0 /\ Pending(work[z]))
        BY <1>1, <2>4 DEF CompletionInv
      <3>3. QED
        BY <1>1, <3>1, <3>2 DEF Pending
    <2>5. ASSUME NEW v \in Observers, vpc[v] = "asleep" PROVE ~complete'[vobj[v]]
      BY <2>1, <2>5 DEF CompletionInv, CancelInv
    <2>6. QED
      BY <1>1, <2>3, <2>4, <2>5 DEF CompletionInv
  <1>10. QED
    BY <1>6, <1>7, <1>8, <1>9

LEMMA WorkPoolKeeps ==
  ASSUME WorkInv, NEW k \in Submissions, WorkPool(k)
  PROVE  WorkInv'
  <1> USE DEF WorkInv, Pending
  <1>1. /\ Pending(k) /\ k \notin dropped
        /\ UNCHANGED <<work, submits, self, wopc, wobj, vobj, dropped, shifted, vain>>
    BY DEF WorkPool, RunWork, WorkReturns, WorkCompletes, Proceed, Pending, ownerState, pastVars
  <1>2. /\ stage' \in [Submissions -> {"none", "queued", "running", "returned", "over"}]
        /\ \A j \in Submissions : /\ Pending(j)' => Pending(j)
                                  /\ j # k => stage'[j] = stage[j]
    BY DEF WorkPool, RunWork, WorkReturns, WorkCompletes, Proceed, Pending, WorkTypeOK
  <1>3. k <= submits /\ k # 0 /\ self[k] \in Works
    BY <1>1, PendingKnown DEF PoolInv, Pending, Submissions, WorkTypeOK
  <1>4. PoolInv'
    <2>1. WorkContextOutlivesCallback'
      BY <1>1, <1>2 DEF PoolInv, WorkContextOutlivesCallback
    <2>2. \A j \in Submissions : j > submits => stage'[j] = "none"
      BY <1>2, <1>3 DEF PoolInv, Submissions, WorkTypeOK
    <2>3. QED
      BY <1>1, <1>2, <2>1, <2>2 DEF PoolInv
  <1>5. CASE RunWork(k) \/ WorkReturns(k)
    <2>1. /\ UNCHANGED <<complete, vpc>>
          /\ Pending(k)'
      BY <1>5 DEF RunWork, WorkReturns, Proceed, Pending, WorkTypeOK
    <2>2. \A j \in Submissions : Pending(j) => Pending(j)'
      BY <1>2, <2>1 DEF Pending
    <2>3. WorkTypeOK' /\ CancelInv'
      BY <1>1, <1>2, <2>1 DEF WorkTypeOK, CancelInv
    <2>4. CompleteMeansFinished'
      BY <1>1, <1>2, <2>1 DEF CompletionInv, CompleteMeansFinished
    <2>5. ASSUME NEW x \in Works \ (vain \cup shifted)
          PROVE  \/ complete[x] \/ (work[x] # 0 /\ Pending(work[x]))'
                 \/ wopc # "idle" /\ wobj = x
      <3>1. work[x] # 0 => work[x] \in Submissions
        BY <2>5, HeldKnown
      <3>2. (work[x] # 0 /\ Pending(work[x])) => (work[x] # 0 /\ Pending(work[x]))'
        BY <1>1, <2>2, <3>1 DEF Pending
      <3>3. QED
        BY <2>5, <3>2 DEF CompletionInv
    <2>6. CompletionInv'
      BY <1>1, <2>1, <2>4, <2>5 DEF CompletionInv
    <2>7. QED
      BY <1>4, <2>3, <2>6
  <1>6. CASE WorkCompletes(k)
    <2>1. /\ complete' \in [Works -> BOOLEAN]
          /\ complete'[self[k]] /\ \A y \in Works \ {self[k]} : complete'[y] = complete[y]
          /\ vpc' \in [Observers -> {"idle", "asleep", "woken"}]
          /\ \A v \in Observers : /\ vpc'[v] = "idle" <=> vpc[v] = "idle"
                                  /\ vpc'[v] = "asleep" => ~complete'[vobj'[v]]
      BY <1>1, <1>3, <1>6, CompletedWakes DEF WorkCompletes
    <2>2. ~Pending(k)'
      BY <1>6 DEF WorkCompletes, Proceed, Pending, WorkTypeOK
    <2>3. WorkTypeOK' /\ CancelInv'
      BY <1>1, <1>2, <2>1 DEF WorkTypeOK, CancelInv
    <2>4. ASSUME NEW j \in Submissions, Pending(j)', j \notin dropped, self[j] \notin shifted
          PROVE  ~complete'[self[j]]
      <3>1. Pending(j) /\ j # k
        BY <1>2, <2>2, <2>4
      <3>2. self[j] \in Works /\ ~complete[self[j]]
        BY <2>4, <3>1, PendingKnown DEF PoolInv, Pending, Submissions, WorkTypeOK, CompletionInv,
                          CompleteMeansFinished
      <3>3. self[j] # self[k]
        BY <1>1, <2>4, <3>1 DEF PoolInv
      <3>4. QED
        BY <2>1, <3>2, <3>3
    <2>5. CompleteMeansFinished'
      BY <1>1, <2>4 DEF CompleteMeansFinished
    <2>6. ASSUME NEW x \in Works \ (vain \cup shifted)
          PROVE  \/ complete'[x] \/ (work[x] # 0 /\ Pending(work[x]))'
                 \/ wopc # "idle" /\ wobj = x
      <3>1. CASE x = self[k]
        BY <2>1, <3>1
      <3>2. CASE x # self[k]
        <4>1. work[x] # k
          BY <1>3, <2>6, <3>2 DEF PoolInv
        <4>2. work[x] # 0 => work[x] \in Submissions
          BY <2>6, HeldKnown
        <4>3. (work[x] # 0 /\ Pending(work[x])) => (work[x] # 0 /\ Pending(work[x]))'
          BY <1>1, <1>2, <4>1, <4>2 DEF Pending
        <4>4. complete'[x] = complete[x]
          BY <2>1, <3>2
        <4>5. QED
          BY <2>6, <4>3, <4>4 DEF CompletionInv
      <3>3. QED
        BY <3>1, <3>2
    <2>7. CompletionInv'
      BY <1>1, <2>1, <2>5, <2>6 DEF CompletionInv
    <2>8. QED
      BY <1>4, <2>3, <2>7
  <1>7. QED
    BY <1>5, <1>6 DEF WorkPool

LEMMA ObserverKeeps ==
  ASSUME WorkInv, NEW v \in Observers,
         \/ \E x \in Works : WaitForWork(v, x)
         \/ WaitAgain(v) \/ ObserverWakes(v) \/ WaitThrows(v)
  PROVE  WorkInv'
  <1> USE DEF WorkInv
  <1>1. UNCHANGED <<work, complete, submits, self, stage, wopc, wobj, dropped, shifted, vain>>
    BY DEF WaitForWork, WaitAgain, ObserverWakes, WaitThrows, InWait, poolVars, ownerState,
           pastVars
  <1>2. PICK pc \in {"idle", "asleep", "woken"}, x \in Works \cup {NoWork} :
           /\ vpc' = [vpc EXCEPT ![v] = pc] /\ vobj' = [vobj EXCEPT ![v] = x]
           /\ pc # "idle" => x \in Works
           /\ pc = "asleep" => ~complete[x]
    <2>1. ASSUME NEW y \in Works, WaitForWork(v, y) \/ (WaitAgain(v) /\ y = vobj[v])
          PROVE  /\ vpc' = [vpc EXCEPT ![v] = IF complete[y] THEN "idle" ELSE "asleep"]
                 /\ vobj' = [vobj EXCEPT ![v] = IF complete[y] THEN NoWork ELSE y]
      BY <2>1 DEF WaitForWork, WaitAgain, InWait, WaitTest
    <2>2. CASE \E y \in Works : WaitForWork(v, y)
      BY <2>1, <2>2
    <2>3. CASE WaitAgain(v)
      <3>1. vobj[v] \in Works
        BY <2>3 DEF WaitAgain, CancelInv
      <3>2. QED
        BY <2>1, <2>3, <3>1
    <2>4. CASE ObserverWakes(v)
      BY <2>4 DEF ObserverWakes, InWait, CancelInv
    <2>5. CASE WaitThrows(v)
      BY <2>5 DEF WaitThrows, InWait
    <2>6. QED
      BY <2>2, <2>3, <2>4, <2>5
  <1>3. /\ vpc' \in [Observers -> {"idle", "asleep", "woken"}]
        /\ vobj' \in [Observers -> Works \cup {NoWork}]
        /\ vpc'[v] = pc /\ vobj'[v] = x
        /\ \A u \in Observers \ {v} : vpc'[u] = vpc[u] /\ vobj'[u] = vobj[u]
    BY <1>2 DEF WorkTypeOK
  <1>4. WorkTypeOK'
    BY <1>1, <1>3 DEF WorkTypeOK
  <1>5. PoolInv'
    BY <1>1 DEF PoolInv, WorkContextOutlivesCallback, Pending
  <1>6. CancelInv'
    BY <1>1, <1>2, <1>3 DEF CancelInv
  <1>7. CompletionInv'
    <2>1. CompleteMeansFinished'
      BY <1>1 DEF CompletionInv, CompleteMeansFinished, Pending
    <2>2. ASSUME NEW u \in Observers, vpc'[u] = "asleep" PROVE ~complete[vobj'[u]]
      BY <1>2, <1>3, <2>2 DEF CompletionInv
    <2>3. QED
      BY <1>1, <2>1, <2>2 DEF CompletionInv, Pending
  <1>8. QED
    BY <1>4, <1>5, <1>6, <1>7

LEMMA WorkKeeps == WorkInv /\ [WorkNext]_workVars => WorkInv'
  <1> SUFFICES ASSUME WorkInv, [WorkNext]_workVars PROVE WorkInv'
    OBVIOUS
  <1>1. CASE UNCHANGED workVars
    BY <1>1 DEF workVars, WorkInv, WorkTypeOK, PoolInv, CancelInv, CompletionInv,
                WorkContextOutlivesCallback, CompleteMeansFinished, Pending
  <1>2. CASE WorkOwner
    BY <1>2, SubmitKeeps, SubmitThrowsKeeps, CancelKeeps, CloseWorkKeeps,
       CancelCompleteKeeps, MoveKeeps, RenewKeeps DEF WorkOwner
  <1>3. ASSUME NEW k \in Submissions, WorkPool(k) PROVE WorkInv'
    BY <1>3, WorkPoolKeeps
  <1>4. ASSUME NEW v \in Observers,
               \/ \E x \in Works : WaitForWork(v, x)
               \/ WaitAgain(v) \/ ObserverWakes(v) \/ WaitThrows(v)
        PROVE  WorkInv'
    BY <1>4, ObserverKeeps
  <1>5. QED
    BY <1>1, <1>2, <1>3, <1>4 DEF WorkNext

LEMMA WorkInvGives ==
  WorkInv => WorkContextOutlivesCallback /\ CompleteMeansFinished /\ NoObserverForgotten
  <1>1. WorkInv => NoObserverForgotten
    BY DEF WorkInv, WorkTypeOK, CancelInv, CompletionInv, NoObserverForgotten
  <1>2. QED
    BY <1>1 DEF WorkInv, PoolInv, CompletionInv

-----------------------------------------------------------------------------
(* Groups of futures.                                                        *)

\* The futures WaitAll has given up on so far.
Missed == {i \in 1..(at - 1) : ~completed[i]}

\* While WaitAll is at work, it has spent its timeout on each future it missed.
AllInv ==
    gpc \in {"test", "asleep"} =>
        /\ api = "all" /\ answer = 0
        /\ ~fooled => \A i \in 1..size : completed[i] => i \in done
        /\ Missed # {} => flags /\ limit # INFINITE
        /\ since >= began
        /\ now - began >= Cardinality(Missed) * limit
        /\ gpc = "asleep" => since - began >= Cardinality(Missed) * limit

\* While WaitAny is at work, none that it has passed was ready when the pass began.
AnyInv ==
    gpc \in {"look", "nap"} =>
        /\ api = "any" /\ answer = 0
        /\ \A i \in 1..size : ~completed[i]
        /\ \A i \in 1..(at - 1) : i \notin readyBefore

GroupInv == GroupTypeOK /\ AllInv /\ AnyInv /\ VerdictsAreHonest

LEMMA Product ==
  ASSUME NEW c \in Nat, NEW l \in Nat
  PROVE  c * l \in Nat /\ (c + 1) * l = c * l + l
  OBVIOUS

\* A timeout is a number, and so is what the missed futures cost.
LEMMA Spent ==
  ASSUME GroupTypeOK
  PROVE  /\ limit \in Nat
         /\ IsFiniteSet(Missed) /\ Cardinality(Missed) \in Nat
         /\ Cardinality(Missed) * limit \in Nat
  <1>1. limit \in Nat
    BY WaitGroupAssumption DEF GroupTypeOK, INFINITE
  <1>2. IsFiniteSet(1..(at - 1)) /\ Missed \subseteq 1..(at - 1)
    BY FS_Interval DEF GroupTypeOK, Missed
  <1>3. IsFiniteSet(Missed) /\ Cardinality(Missed) \in Nat
    BY <1>2, FS_Subset, FS_CardinalityType
  <1>4. QED
    BY <1>1, <1>3, Product

\* So is what a failed call has spent.
LEMMA SpentInAll ==
  ASSUME GroupTypeOK
  PROVE  (IF flags THEN Cardinality({i \in 1..size : ~completed[i]}) ELSE 1) * limit \in Nat
  <1>1. limit \in Nat
    BY Spent
  <1>2. IsFiniteSet(1..size) /\ {i \in 1..size : ~completed[i]} \subseteq 1..size
    BY FS_Interval DEF GroupTypeOK
  <1>3. Cardinality({i \in 1..size : ~completed[i]}) \in Nat
    BY <1>2, FS_Subset, FS_CardinalityType
  <1>4. (IF flags THEN Cardinality({i \in 1..size : ~completed[i]}) ELSE 1) \in Nat
    BY <1>3
  <1>5. QED
    BY <1>1, <1>4, Product

LEMMA GroupStart == GroupInit => GroupInv
  <1> SUFFICES ASSUME GroupInit PROVE GroupInv
    OBVIOUS
  <1> USE WaitGroupAssumption DEF GroupInit
  <1>1. GroupTypeOK
    <2>1. completed \in [1..size -> BOOLEAN] /\ flags \in BOOLEAN /\ fooled \in BOOLEAN
      OBVIOUS
    <2>2. QED
      BY <2>1 DEF GroupTypeOK
  <1>2. AllInv /\ AnyInv /\ VerdictsAreHonest
    BY DEF AllInv, AnyInv, VerdictsAreHonest
  <1>3. QED
    BY <1>1, <1>2 DEF GroupInv

LEMMA RunEndsKeeps ==
  ASSUME GroupInv, NEW i \in Futures, RunEnds(i)
  PROVE  GroupInv'
  <1> USE DEF GroupInv, RunEnds, callVars
  <1>1. GroupTypeOK'
    BY DEF GroupTypeOK
  <1>2. AllInv' /\ AnyInv'
    BY DEF AllInv, AnyInv, Missed
  <1>3. VerdictsAreHonest'
    BY DEF VerdictsAreHonest, AllAnswersHonestly, AnyAnswersHonestly
  <1>4. QED
    BY <1>1, <1>2, <1>3

LEMMA TickKeeps ==
  ASSUME GroupInv, Tick
  PROVE  GroupInv'
  <1> USE DEF GroupInv, Tick, callVars
  <1>0. now \in Nat /\ began \in Nat /\ now' = now + 1 /\ limit \in Nat
    BY WaitGroupAssumption, Spent DEF GroupTypeOK
  <1>1. GroupTypeOK'
    <2>1. now' \in 0..MaxTime /\ began \in 0..now' /\ since \in 0..now'
      BY WaitGroupAssumption DEF GroupTypeOK
    <2>2. QED
      BY <2>1 DEF GroupTypeOK
  <1>2. AllInv'
    <2>1. Missed' = Missed
      BY DEF Missed
    <2>2. Cardinality(Missed) * limit \in Nat
      BY Spent
    <2>3. QED
      BY <1>0, <2>1, <2>2 DEF AllInv
  <1>3. AnyInv'
    BY DEF AnyInv
  <1>4. VerdictsAreHonest'
    <2>1. ASSUME AllAnswersHonestly PROVE AllAnswersHonestly'
      <3>1. (IF flags THEN Cardinality({i \in 1..size : ~completed[i]}) ELSE 1) * limit \in Nat
        BY SpentInAll
      <3>2. QED
        BY <1>0, <2>1, <3>1 DEF AllAnswersHonestly
    <2>2. ASSUME AnyAnswersHonestly PROVE AnyAnswersHonestly'
      BY <1>0, <2>2 DEF AnyAnswersHonestly
    <2>3. QED
      BY <2>1, <2>2 DEF VerdictsAreHonest
  <1>5. QED
    BY <1>1, <1>2, <1>3, <1>4

LEMMA BeginKeeps ==
  ASSUME GroupInv, NEW n \in 0..MaxFutures, NEW ms \in Limits, NEW withFlags \in BOOLEAN,
         WaitAll(n, ms, withFlags) \/ WaitAny(n, ms, withFlags)
  PROVE  GroupInv'
  <1> USE WaitGroupAssumption DEF GroupInv, WaitAll, WaitAny, Begin
  <1>1. GroupTypeOK'
    <2>1. completed' \in [1..size' -> BOOLEAN] /\ flags' \in BOOLEAN /\ fooled' \in BOOLEAN
      OBVIOUS
    <2>2. now' \in 0..MaxTime /\ began' \in 0..now' /\ since' \in 0..now'
      BY DEF GroupTypeOK
    <2>3. /\ gpc' \in {"idle", "test", "asleep", "look", "nap", "answered"} /\ gpc' # "asleep"
          /\ api' \in {"all", "any"} /\ size' \in 0..MaxFutures /\ limit' \in Limits \cup {0}
          /\ at' \in 1..(size' + 1) /\ answer' \in -1..size'
      OBVIOUS
    <2>4. done' \subseteq Futures /\ readyBefore' \subseteq done'
      BY DEF GroupTypeOK
    <2>5. QED
      BY <2>1, <2>2, <2>3, <2>4 DEF GroupTypeOK
  <1>2. AllInv'
    <2>1. Missed' = {}
      BY DEF Missed
    <2>2. Cardinality(Missed') = 0 /\ limit' \in Nat /\ 0 * limit' = 0
      BY <2>1, FS_EmptySet DEF INFINITE
    <2>3. now \in Nat
      BY DEF GroupTypeOK
    <2>4. QED
      BY <2>1, <2>2, <2>3 DEF AllInv
  <1>3. AnyInv'
    BY DEF AnyInv
  <1>4. VerdictsAreHonest'
    BY DEF VerdictsAreHonest, AnyAnswersHonestly
  <1>5. QED
    BY <1>1, <1>2, <1>3, <1>4

\* The loop of WaitAll goes on to the next future.
LEMMA WaitedOn ==
  ASSUME GroupInv, gpc \in {"test", "asleep"}, at <= size,
         NEW result \in BOOLEAN, result \/ flags, Waited(result)
  PROVE  /\ at' \in 1..(size + 1) /\ completed' \in [1..size -> BOOLEAN]
         /\ gpc' = "test" /\ answer' = answer
         /\ \A i \in 1..size : completed'[i] = IF i = at THEN result ELSE completed[i]
         /\ result => Missed' = Missed
         /\ ~result => Cardinality(Missed') = Cardinality(Missed) + 1
  <1> USE DEF GroupInv
  <1>1. /\ at' = at + 1 /\ completed' = [completed EXCEPT ![at] = result]
        /\ gpc' = "test" /\ answer' = answer
    BY DEF Waited
  <1>2. at \in 1..size /\ size \in Nat
    BY WaitGroupAssumption DEF GroupTypeOK
  <1>3. completed' \in [1..size -> BOOLEAN]
    BY <1>1 DEF GroupTypeOK
  <1>4. \A i \in 1..size : completed'[i] = IF i = at THEN result ELSE completed[i]
    BY <1>1 DEF GroupTypeOK
  <1>5. Missed' = IF result THEN Missed ELSE Missed \cup {at}
    <2>1. 1..(at' - 1) = (1..(at - 1)) \cup {at} /\ 1..(at - 1) \subseteq 1..size
      BY <1>1, <1>2
    <2>2. at \notin 1..(at - 1)
      BY <1>2
    <2>3. \A i \in 1..(at - 1) : completed'[i] = completed[i]
      BY <1>4, <2>1, <2>2
    <2>4. completed'[at] = result
      BY <1>2, <1>4
    <2>5. QED
      BY <2>1, <2>3, <2>4 DEF Missed
  <1>6. at \notin Missed
    BY <1>2 DEF Missed
  <1>7. Cardinality(Missed \cup {at}) = Cardinality(Missed) + 1
    BY <1>6, Spent, FS_AddElement
  <1>8. at' \in 1..(size + 1)
    BY <1>1, <1>2
  <1>9. QED
    BY <1>1, <1>3, <1>4, <1>5, <1>7, <1>8

LEMMA TestKeeps ==
  ASSUME GroupInv, TestFuture
  PROVE  GroupInv'
  <1> USE DEF GroupInv, TestFuture, callVars
  <1>0. now \in Nat /\ began \in Nat /\ size \in Nat /\ at \in 1..size
    BY WaitGroupAssumption DEF GroupTypeOK
  <1>1. CASE at \in done
    <2>1. /\ at' \in 1..(size + 1) /\ completed' \in [1..size -> BOOLEAN]
          /\ gpc' = "test" /\ answer' = answer /\ Missed' = Missed
          /\ \A i \in 1..size : completed'[i] = IF i = at THEN TRUE ELSE completed[i]
      BY <1>1, WaitedOn
    <2>2. GroupTypeOK'
      BY <1>1, <2>1 DEF GroupTypeOK
    <2>3. AllInv'
      BY <1>1, <2>1 DEF AllInv
    <2>4. QED
      BY <2>1, <2>2, <2>3 DEF AnyInv, VerdictsAreHonest
  <1>2. CASE at \notin done
    <2>1. GroupTypeOK'
      BY <1>0, <1>2 DEF GroupTypeOK
    <2>2. Missed' = Missed
      BY <1>2 DEF Missed
    <2>3. AllInv'
      BY <1>0, <1>2, <2>2 DEF AllInv, GroupTypeOK
    <2>4. QED
      BY <1>2, <2>1, <2>3 DEF AnyInv, VerdictsAreHonest
  <1>3. QED
    BY <1>1, <1>2

LEMMA WakeKeeps ==
  ASSUME GroupInv, WakeInGroup
  PROVE  GroupInv'
  <1> USE DEF GroupInv, WakeInGroup, callVars
  <1>0. at <= size
    BY DEF GroupTypeOK
  <1>1. /\ at' \in 1..(size + 1) /\ completed' \in [1..size -> BOOLEAN]
        /\ gpc' = "test" /\ answer' = answer /\ Missed' = Missed
        /\ \A i \in 1..size : completed'[i] = IF i = at THEN TRUE ELSE completed[i]
    BY <1>0, WaitedOn
  <1>2. fooled' \in BOOLEAN /\ (~fooled' => ~fooled /\ at \in done)
    OBVIOUS
  <1>3. GroupTypeOK'
    BY <1>1, <1>2 DEF GroupTypeOK
  <1>4. AllInv'
    <2>1. ~fooled' => \A i \in 1..size : completed'[i] => i \in done
      BY <1>1, <1>2 DEF AllInv
    <2>2. QED
      BY <1>1, <2>1 DEF AllInv
  <1>5. QED
    BY <1>1, <1>3, <1>4 DEF AnyInv, VerdictsAreHonest

LEMMA ExpireKeeps ==
  ASSUME GroupInv, ExpireInGroup
  PROVE  GroupInv'
  <1> USE DEF GroupInv, ExpireInGroup, callVars
  <1>0. /\ at <= size /\ limit # INFINITE /\ now - since >= limit
        /\ now \in Nat /\ since \in Nat /\ began \in Nat /\ limit \in Nat
        /\ Cardinality(Missed) \in Nat /\ Cardinality(Missed) * limit \in Nat
        /\ since - began >= Cardinality(Missed) * limit /\ since >= began
    BY WaitGroupAssumption, Spent DEF GroupTypeOK, AllInv
  <1>1. CASE flags
    <2>1. /\ at' \in 1..(size + 1) /\ completed' \in [1..size -> BOOLEAN]
          /\ gpc' = "test" /\ answer' = answer
          /\ Cardinality(Missed') = Cardinality(Missed) + 1
          /\ \A i \in 1..size : completed'[i] = IF i = at THEN FALSE ELSE completed[i]
      BY <1>0, <1>1, WaitedOn
    <2>2. GroupTypeOK'
      BY <2>1 DEF GroupTypeOK
    <2>3. now - began >= Cardinality(Missed') * limit
      <3>1. (Cardinality(Missed) + 1) * limit = Cardinality(Missed) * limit + limit
        BY <1>0, Product
      <3>2. QED
        BY <1>0, <2>1, <3>1
    <2>4. AllInv'
      <3>1. ~fooled => \A i \in 1..size : completed'[i] => i \in done
        BY <2>1 DEF AllInv
      <3>2. QED
        BY <1>0, <1>1, <2>1, <2>3, <3>1 DEF AllInv
    <2>5. QED
      BY <2>1, <2>2, <2>4 DEF AnyInv, VerdictsAreHonest
  <1>2. CASE ~flags
    <2>1. /\ gpc' = "answered" /\ answer' = -1
          /\ UNCHANGED <<done, now, callVars, since, at, completed, fooled, readyBefore>>
      BY <1>2 DEF Waited
    <2>2. GroupTypeOK'
      BY <2>1, WaitGroupAssumption DEF GroupTypeOK
    <2>3. AllAnswersHonestly'
      <3>1. now - began >= 1 * limit
        BY <1>0
      <3>2. ~fooled => \A i \in 1..size : completed[i] => i \in done
        BY DEF AllInv
      <3>3. QED
        BY <1>0, <1>2, <2>1, <3>1, <3>2 DEF AllAnswersHonestly
    <2>4. api = "all"
      BY DEF AllInv
    <2>5. QED
      BY <2>1, <2>2, <2>3, <2>4 DEF AllInv, AnyInv, VerdictsAreHonest
  <1>3. QED
    BY <1>1, <1>2

LEMMA EndAllKeeps ==
  ASSUME GroupInv, EndAll
  PROVE  GroupInv'
  <1> USE DEF GroupInv, EndAll, callVars
  <1>0. /\ size \in Nat /\ at = size + 1 /\ api = "all" /\ answer = 0
        /\ Missed = {i \in 1..size : ~completed[i]}
        /\ ~fooled => \A i \in 1..size : completed[i] => i \in done
    <2>1. size \in Nat /\ at = size + 1
      BY WaitGroupAssumption DEF GroupTypeOK
    <2>2. QED
      BY <2>1 DEF AllInv, Missed
  <1>1. GroupTypeOK'
    BY <1>0 DEF GroupTypeOK
  <1>2. AllAnswersHonestly'
    <2>1. CASE Missed = {}
      <3>1. answer' = 0
        BY <1>0, <2>1
      <3>2. QED
        BY <1>0, <2>1, <3>1 DEF AllAnswersHonestly
    <2>2. CASE Missed # {}
      <3>1. answer' = -1 /\ flags /\ limit # INFINITE
        BY <1>0, <2>2 DEF AllInv
      <3>2. now - began >= Cardinality(Missed) * limit
        BY DEF AllInv
      <3>3. QED
        BY <1>0, <3>1, <3>2 DEF AllAnswersHonestly
    <2>3. QED
      BY <2>1, <2>2
  <1>3. QED
    BY <1>0, <1>1, <1>2 DEF AllInv, AnyInv, VerdictsAreHonest

LEMMA LookKeeps ==
  ASSUME GroupInv, LookAtFuture \/ Nap
  PROVE  GroupInv'
  <1> USE DEF GroupInv, callVars
  <1>1. CASE LookAtFuture /\ at \in done
    <2>1. /\ gpc = "look" /\ gpc' = "answered" /\ answer' = at /\ at \in 1..size
          /\ completed' = [completed EXCEPT ![at] = TRUE]
          /\ UNCHANGED <<done, now, api, flags, size, limit, began, since, at, fooled, readyBefore>>
      BY <1>1 DEF LookAtFuture, GroupTypeOK
    <2>2. completed' \in [1..size -> BOOLEAN]
      BY <2>1 DEF GroupTypeOK
    <2>3. \A i \in 1..size : completed'[i] <=> i = at
      BY <2>1 DEF GroupTypeOK, AnyInv
    <2>4. GroupTypeOK'
      BY <2>1, <2>2 DEF GroupTypeOK
    <2>5. AnyAnswersHonestly' /\ api = "any"
      BY <1>1, <2>1, <2>3 DEF AnyAnswersHonestly, AnyInv
    <2>6. QED
      BY <2>1, <2>4, <2>5 DEF AllInv, AnyInv, VerdictsAreHonest
  <1>2. CASE LookAtFuture /\ at \notin done
    <2>1. /\ gpc = "look" /\ gpc' = "look" /\ at' = at + 1 /\ at \in 1..size /\ size \in Nat
          /\ UNCHANGED <<done, now, api, flags, size, limit, began, since, completed, answer,
                         fooled, readyBefore>>
      BY <1>2, WaitGroupAssumption DEF LookAtFuture, GroupTypeOK
    <2>2. GroupTypeOK'
      BY <2>1 DEF GroupTypeOK
    <2>3. AnyInv'
      <3>1. 1..(at' - 1) = (1..(at - 1)) \cup {at} /\ at \notin readyBefore
        BY <1>2, <2>1 DEF GroupTypeOK
      <3>2. QED
        BY <2>1, <3>1 DEF AnyInv
    <2>4. QED
      BY <2>1, <2>2, <2>3 DEF AllInv, VerdictsAreHonest
  <1>3. CASE Nap
    <2>1. GroupTypeOK'
      BY <1>3, WaitGroupAssumption DEF Nap, GroupTypeOK
    <2>2. AnyInv'
      BY <1>3 DEF Nap, AnyInv
    <2>3. QED
      BY <1>3, <2>1, <2>2 DEF Nap, AllInv, VerdictsAreHonest
  <1>4. QED
    BY <1>1, <1>2, <1>3

LEMMA EndPassKeeps ==
  ASSUME GroupInv, EndPass
  PROVE  GroupInv'
  <1> USE DEF GroupInv, EndPass, callVars
  <1>0. /\ size \in Nat /\ at = size + 1 /\ now \in Nat /\ began \in 0..now /\ api = "any"
        /\ limit \in Nat /\ answer = 0
    BY WaitGroupAssumption, Spent DEF GroupTypeOK, AnyInv
  <1>1. GroupTypeOK'
    BY <1>0 DEF GroupTypeOK
  <1>2. AnyInv' /\ AllInv'
    BY DEF AnyInv, AllInv
  <1>3. VerdictsAreHonest'
    <2>1. SUFFICES ASSUME gpc' = "answered" PROVE AnyAnswersHonestly'
      BY <1>0 DEF VerdictsAreHonest
    <2>2. answer' = -1 /\ Elapsed >= limit
      BY <2>1
    <2>3. now - began >= limit
      <3>1. now - began \in Nat /\ TickModulus \in Nat \ {0}
        BY <1>0, WaitGroupAssumption
      <3>2. (now - began) % TickModulus <= now - began
        BY <3>1
      <3>3. QED
        BY <1>0, <2>2, <3>1, <3>2 DEF Elapsed
    <2>4. \A i \in 1..size : i \notin readyBefore /\ ~completed[i]
      BY <1>0 DEF AnyInv
    <2>5. QED
      BY <1>0, <2>2, <2>3, <2>4 DEF AnyAnswersHonestly
  <1>4. QED
    BY <1>1, <1>2, <1>3

LEMMA GroupKeeps == GroupInv /\ [GroupNext]_groupVars => GroupInv'
  <1> SUFFICES ASSUME GroupInv, [GroupNext]_groupVars PROVE GroupInv'
    OBVIOUS
  <1>1. CASE UNCHANGED groupVars
    BY <1>1 DEF groupVars, callVars, GroupInv, GroupTypeOK, AllInv, AnyInv, Missed,
                VerdictsAreHonest, AllAnswersHonestly, AnyAnswersHonestly
  <1>2. CASE GroupNext
    BY <1>2, RunEndsKeeps, TickKeeps, BeginKeeps, TestKeeps, WakeKeeps, ExpireKeeps,
       EndAllKeeps, LookKeeps, EndPassKeeps DEF GroupNext
  <1>3. QED
    BY <1>1, <1>2

-----------------------------------------------------------------------------
(* The whole.                                                                *)

AsyncInv == inUse \in Parts /\ TimerInv /\ WorkInv /\ GroupInv

LEMMA AsyncInvariant == Spec => []AsyncInv
  <1>1. Init => AsyncInv
    BY TimerStart, WorkStart, GroupStart DEF Init, AsyncInv
  <1>2. AsyncInv /\ [Next]_vars => AsyncInv'
    <2>1. [Next]_vars => /\ [TimerNext]_timerVars /\ [WorkNext]_workVars
                         /\ [GroupNext]_groupVars /\ inUse' = inUse
      BY DEF Next, UseTimer, UseWork, UseGroup, vars
    <2>2. QED
      BY <2>1, TimerKeeps, WorkKeeps, GroupKeeps DEF AsyncInv
  <1>3. QED
    BY <1>1, <1>2, PTL DEF Spec

\* Every variable stays in its type: no call reads a freed slot, or an index out of
\* its vector.
THEOREM AsyncTypeCorrect == Spec => []TypeOK
  <1>1. AsyncInv => TypeOK
    BY DEF AsyncInv, TimerInv, WorkInv, GroupInv, TypeOK
  <1>2. QED
    BY <1>1, AsyncInvariant, PTL

\* However Timers and Works are started, stopped, moved and destroyed, Stop and
\* Cancel free a context only when no callback needs it.
THEOREM ContextsAreKept == Spec => []ContextsOutliveCallbacks
  <1>1. AsyncInv => ContextsOutliveCallbacks
    BY WorkInvGives DEF AsyncInv, TimerInv, ContextsOutliveCallbacks
  <1>2. QED
    BY <1>1, AsyncInvariant, PTL

\* IsRunning never denies a callback that is running or to come, unless a Timer
\* was moved.
THEOREM StoppedTimersAreQuiet == Spec => []NotRunningMeansQuiet
  <1>1. AsyncInv => NotRunningMeansQuiet
    BY TimerInvGives DEF AsyncInv
  <1>2. QED
    BY <1>1, AsyncInvariant, PTL

\* IsComplete is true of a Work only when its callback has returned or will never run.
THEOREM CompletionIsTrue == Spec => []CompleteMeansFinished
  <1>1. AsyncInv => CompleteMeansFinished
    BY WorkInvGives DEF AsyncInv
  <1>2. QED
    BY <1>1, AsyncInvariant, PTL

\* Whoever sleeps in Work::Wait will be woken, but for a Work that has no
\* submission, whose Submit failed, or that was moved.
THEOREM ObserversAreRemembered == Spec => []NoObserverForgotten
  <1>1. AsyncInv => NoObserverForgotten
    BY WorkInvGives DEF AsyncInv
  <1>2. QED
    BY <1>1, AsyncInvariant, PTL

\* What WaitAll and WaitAny answer is true for groups of any size, any timeout and
\* any width of the clock.
THEOREM GroupVerdictsAreHonest == Spec => []VerdictsAreHonest
  <1>1. AsyncInv => VerdictsAreHonest
    BY DEF AsyncInv, GroupInv
  <1>2. QED
    BY <1>1, AsyncInvariant, PTL

-----------------------------------------------------------------------------
(* One-shot timers.                                                          *)

\* The owner is not too late to raise m_running of a one-shot timer (async.cpp:69): it
\* has not both fired and come to its end.
RaisedInTime ==
    opc = "flag" /\ ctxOneShot[handle[object]] => ~Quiet(handle[object])

\* A running timer has a pool timer, and a one-shot timer that has come to its end is not
\* running, but for the object that is in a call.
DoneInv ==
    ~moved => \A x \in Timers :
        IF opc # "idle" /\ x = object THEN opc = "create" => ~running[x]
        ELSE running[x] => handle[x] # 0 /\ (ctxOneShot[handle[x]] => ~Quiet(handle[x]))

\* While an object is in no call its handle is the number of its context, which is its own.
LEMMA HandlesDiffer ==
  ASSUME TimerInv, NEW x \in Timers, NEW y \in Timers, x # y, handle[x] # 0
  PROVE  handle[x] # handle[y] /\ handle[x] \in ctxAlive /\ handle[x] \in 1..starts
  <1>1. handle[x] = context[x] /\ (handle[y] = context[y] \/ handle[y] = 0)
    BY DEF TimerInv, HeldInv
  <1>2. QED
    BY <1>1 DEF TimerInv, HeldInv, TimerTypeOK

LEMMA OwnerKeepsDone ==
  ASSUME TimerInv, DoneInv, RaisedInTime, TimerCall \/ TimerOwner
  PROVE  DoneInv'
  <1> SUFFICES ASSUME ~moved', NEW x \in Timers
               PROVE  IF opc' # "idle" /\ x = object' THEN opc' = "create" => ~running'[x]
                      ELSE running'[x] => /\ handle'[x] # 0
                                          /\ ctxOneShot'[handle'[x]] => ~Quiet(handle[x])'
    BY DEF DoneInv
  <1> USE DEF objectVars, contextVars, callbackVars
  <1>0. running \in [Timers -> BOOLEAN] /\ handle \in [Timers -> 0..MaxStarts]
    BY DEF TimerInv, TimerTypeOK
  <1>1. CASE TimerCall
    <2>1. PICK y \in Timers : BeginStop(y)
      BY <1>1 DEF TimerCall, Stop, Start, MoveAssign
    <2>2. /\ opc = "idle" /\ object' = y /\ opc' \in {"wait", "reset"} /\ ~moved
          /\ armed' = armed \ {handle[y]}
          /\ UNCHANGED <<handle, running, ctxOneShot, inCallback, clearing>>
      BY <2>1 DEF BeginStop, Disarm
    <2>3. CASE x = y
      BY <2>2, <2>3
    <2>4. CASE x # y
      <3>1. running[x] => handle[x] # 0 /\ (ctxOneShot[handle[x]] => ~Quiet(handle[x]))
        BY <2>2 DEF DoneInv
      <3>2. handle[x] # 0 => handle[x] # handle[y]
        BY <2>1, <2>4, HandlesDiffer
      <3>3. QED
        BY <2>2, <2>4, <3>1, <3>2 DEF Quiet
    <2>5. QED
      BY <2>3, <2>4
  <1>2. CASE CloseTimer
    <2>1. /\ opc = "wait" /\ opc' = "reset" /\ handle' = [handle EXCEPT ![object] = 0] /\ ~moved
          /\ UNCHANGED <<object, running, ctxOneShot, armed, inCallback, clearing>>
      BY <1>2 DEF CloseTimer
    <2>2. QED
      BY <1>0, <2>1 DEF DoneInv, Quiet
  <1>3. CASE ResetContext
    <2>1. /\ opc = "reset" /\ running' = [running EXCEPT ![object] = FALSE] /\ ~moved
          /\ UNCHANGED <<object, handle, ctxOneShot, armed, inCallback, clearing>>
      BY <1>3 DEF ResetContext
    <2>2. QED
      BY <1>0, <2>1 DEF DoneInv, Quiet
  <1>4. CASE CreateTimer
    <2>1. /\ opc = "create" /\ opc' = "arm" /\ ~moved
          /\ handle' = [handle EXCEPT ![object] = starts + 1]
          /\ ctxOneShot' = [ctxOneShot EXCEPT ![starts + 1] = oneShot]
          /\ UNCHANGED <<object, running, armed, inCallback, clearing>>
      BY <1>4 DEF CreateTimer
    <2>2. object \in Timers
      BY <2>1 DEF TimerInv, OwnerInv
    <2>3. CASE x # object
      <3>1. running[x] => handle[x] # 0 /\ (ctxOneShot[handle[x]] => ~Quiet(handle[x]))
        BY <2>1, <2>3 DEF DoneInv
      <3>2. handle[x] # 0 => handle[x] \in 1..starts /\ starts \in Nat
        BY <2>2, <2>3, HandlesDiffer, TimerAssumption DEF TimerInv, TimerTypeOK
      <3>3. handle[x] # 0 => ctxOneShot'[handle[x]] = ctxOneShot[handle[x]]
        BY <2>1, <3>2 DEF TimerInv, TimerTypeOK
      <3>4. handle'[x] = handle[x]
        BY <1>0, <2>1, <2>3
      <3>5. QED
        BY <2>1, <2>3, <3>1, <3>3, <3>4 DEF Quiet
    <2>4. QED
      BY <2>1, <2>3
  <1>5. CASE CreateThrows
    <2>1. /\ opc = "create" /\ opc' = "idle" /\ ~moved
          /\ UNCHANGED <<object, handle, running, ctxOneShot, armed, inCallback, clearing>>
      BY <1>5 DEF CreateThrows
    <2>2. QED
      BY <2>1 DEF DoneInv, Quiet
  <1>6. CASE Arm
    <2>1. /\ opc = "arm" /\ opc' = "flag" /\ ~moved /\ armed \subseteq armed'
          /\ UNCHANGED <<object, handle, running, ctxOneShot, inCallback, clearing>>
      BY <1>6 DEF Arm
    <2>2. QED
      BY <2>1 DEF DoneInv, Quiet
  <1>7. CASE FlagRunning
    <2>1. /\ opc = "flag" /\ opc' = "idle" /\ ~moved
          /\ running' = [running EXCEPT ![object] = TRUE]
          /\ UNCHANGED <<object, handle, ctxOneShot, armed, inCallback, clearing>>
      BY <1>7 DEF FlagRunning
    <2>2. handle[object] # 0
      BY <2>1 DEF TimerInv, OwnerInv
    <2>3. QED
      BY <1>0, <2>1, <2>2 DEF DoneInv, RaisedInTime, Quiet
  <1>8. CASE TakeOver
    BY <1>8 DEF TakeOver
  <1>9. QED
    BY <1>1, <1>2, <1>3, <1>4, <1>5, <1>6, <1>7, <1>8 DEF TimerOwner

LEMMA CallbackKeepsDone ==
  ASSUME TimerInv, DoneInv, NEW k \in Contexts, Fire(k) \/ UserReturns(k) \/ ClearRunning(k)
  PROVE  DoneInv'
  <1> SUFFICES ASSUME ~moved, NEW x \in Timers
               PROVE  IF opc # "idle" /\ x = object THEN opc = "create" => ~running'[x]
                      ELSE running'[x] => /\ handle[x] # 0
                                          /\ ctxOneShot[handle[x]] => ~Quiet(handle[x])'
    BY DEF DoneInv, Fire, UserReturns, ClearRunning, objectVars, contextVars, ownerVars
  <1> USE DEF objectVars, contextVars, ownerVars
  <1>0. /\ running \in [Timers -> BOOLEAN] /\ inCallback \in [Contexts -> 0..MaxOverlap]
        /\ UNCHANGED handle
    BY DEF TimerInv, TimerTypeOK, Fire, UserReturns, ClearRunning
  <1>1. running'[x] => running[x]
    BY <1>0 DEF Fire, UserReturns, ClearRunning
  <1>2. ASSUME running'[x], handle[x] # 0, ctxOneShot[handle[x]], ~Quiet(handle[x])
        PROVE  ~Quiet(handle[x])'
    <2>1. handle[x] \in Contexts
      BY <1>2 DEF TimerInv, TimerTypeOK, Contexts
    <2>2. CASE Fire(k)
      BY <1>0, <1>2, <2>1, <2>2, TimerAssumption DEF Fire, Quiet
    <2>3. CASE UserReturns(k)
      BY <1>0, <1>2, <2>1, <2>3 DEF UserReturns, Quiet
    <2>4. CASE ClearRunning(k)
      <3>1. handle[x] # k
        BY <1>0, <1>2, <2>4 DEF ClearRunning, TimerInv, FlagInv
      <3>2. QED
        BY <1>2, <2>4, <3>1 DEF ClearRunning, Quiet
    <2>5. QED
      BY <2>2, <2>3, <2>4
  <1>3. QED
    BY <1>1, <1>2 DEF DoneInv

\* Why a one-shot timer can stay running (async.cpp:69), which DoneOneShotNotRunning
\* denies: that the owner raises m_running after the callback has cleared it is the only
\* cause.  Where it never does, a one-shot timer that is done is not running.
THEOREM OnlyLateFlagsStay == Spec /\ []RaisedInTime => []DoneOneShotNotRunning
  <1>1. Init => DoneInv
    <2>1. TimerInit => opc = "idle" /\ \A x \in Timers : ~running[x]
      BY DEF TimerInit
    <2>2. ASSUME Init, NEW x \in Timers PROVE opc = "idle" /\ ~running[x]
      BY <2>1, <2>2 DEF Init
    <2>3. QED
      BY <2>2, Zenon DEF DoneInv
  <1>2. TimerInv /\ DoneInv /\ RaisedInTime /\ [Next]_vars => DoneInv'
    <2> SUFFICES ASSUME TimerInv, DoneInv, RaisedInTime, [Next]_vars PROVE DoneInv'
      OBVIOUS
    <2>1. CASE UNCHANGED timerVars
      BY <2>1 DEF timerVars, objectVars, contextVars, callbackVars, ownerVars, DoneInv, Quiet
    <2>2. CASE TimerNext
      BY <2>2, OwnerKeepsDone, CallbackKeepsDone DEF TimerNext, TimerCallback
    <2>3. QED
      BY <2>1, <2>2 DEF Next, vars, UseTimer, UseWork, UseGroup
  <1>3. TimerInv /\ DoneInv => DoneOneShotNotRunning
    BY DEF DoneInv, DoneOneShotNotRunning, TimerInv, TimerTypeOK, Quiet, Contexts
  <1>4. Spec => []TimerInv
    BY AsyncInvariant, PTL DEF AsyncInv
  <1>5. QED
    BY <1>1, <1>2, <1>3, <1>4, PTL DEF Spec

\* While Stop waits for the callbacks of a pool timer (async.cpp:76-78), none of them begins:
\* they only get fewer, however often the timer would have fired.  This is what
\* StopTerminates rests on; the rest is that callbacks end.
THEOREM NoCallbackBeginsInStop ==
  Spec => [][opc = "wait" => inCallback'[handle[object]] <= inCallback[handle[object]]]_timerVars
  <1>1. TimerInv /\ [TimerNext]_timerVars
          => [opc = "wait" => inCallback'[handle[object]] <= inCallback[handle[object]]]_timerVars
    <2> SUFFICES ASSUME TimerInv, TimerNext, opc = "wait"
                 PROVE  inCallback'[handle[object]] <= inCallback[handle[object]]
      OBVIOUS
    <2>1. /\ handle[object] \in Contexts /\ handle[object] \notin armed
          /\ inCallback \in [Contexts -> Nat]
      BY TimerAssumption DEF TimerInv, OwnerInv, TimerTypeOK, Contexts
    <2>2. CASE TimerCall
      BY <2>2 DEF TimerCall, Stop, Start, MoveAssign, BeginStop
    <2>3. CASE TimerOwner
      BY <2>1, <2>3 DEF TimerOwner, CloseTimer, ResetContext, CreateTimer, CreateThrows, Arm,
                        FlagRunning, TakeOver, callbackVars
    <2>4. ASSUME NEW k \in Contexts, Fire(k)
          PROVE  inCallback'[handle[object]] <= inCallback[handle[object]]
      BY <2>1, <2>4 DEF Fire
    <2>5. ASSUME NEW k \in Contexts, TimerCallback(k)
          PROVE  inCallback'[handle[object]] <= inCallback[handle[object]]
      BY <2>1, <2>5 DEF TimerCallback, UserReturns, ClearRunning
    <2>6. QED
      BY <2>2, <2>3, <2>4, <2>5 DEF TimerNext
  <1>2. [Next]_vars => [TimerNext]_timerVars
    BY DEF Next, UseTimer, UseWork, UseGroup, vars
  <1>3. Spec => []TimerInv
    BY AsyncInvariant, PTL DEF AsyncInv
  <1>4. QED
    BY <1>1, <1>2, <1>3, PTL DEF Spec

================================================================================
