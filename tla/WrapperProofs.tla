---------------------------- MODULE WrapperProofs ----------------------------
(***************************************************************************)
(* What the classes that wrap an object of Windows, or one atomic,         *)
(* guarantee for any number of threads, objects and calls.                 *)
(***************************************************************************)
EXTENDS Sync, FiniteSetTheorems, TLAPS

-----------------------------------------------------------------------------
(* The locks with one owner.                                                 *)

\* Only a free Mutex is abandoned, and only an owner has been told so.
LockableInv ==
    /\ LockableTypeOK /\ HoldersKnow
    /\ holder = NoThread <=> depth = 0
    /\ abandoned => holder = NoThread
    /\ inherited => holder # NoThread

LEMMA LockableStart == LockableInit => LockableInv
  <1> SUFFICES ASSUME LockableInit PROVE LockableInv
    OBVIOUS
  <1> USE CallersAssumption, LockableAssumption DEF LockableInit
  <1>1. /\ guards \in [Threads -> 0..MaxDepth] /\ ktimed \in [Threads -> BOOLEAN]
        /\ kpc \in [Threads -> {"out", "waiting", "ended"}]
    OBVIOUS
  <1>2. /\ lockClass \in {"critical", "mutex", "spin"}
        /\ holder \in Threads \cup {NoThread} /\ depth \in 0..MaxDepth
    OBVIOUS
  <1>3. abandoned \in BOOLEAN /\ inherited \in BOOLEAN
    OBVIOUS
  <1>4. HoldersKnow
    BY DEF HoldersKnow
  <1>5. QED
    BY <1>1, <1>2, <1>3, <1>4 DEF LockableInv, LockableTypeOK

LEMMA TakeKeeps ==
  ASSUME LockableInv, NEW t \in Threads, Take(t)
  PROVE  /\ holder' = t /\ depth' \in 1..MaxDepth
         /\ abandoned' = FALSE /\ inherited' \in BOOLEAN
         /\ guards' \in [Threads -> 0..MaxDepth]
         /\ \A u \in Threads : guards'[u] > 0 => u = t
         /\ depth' = guards'[t] + (IF inherited' THEN 1 ELSE 0)
  <1> USE CallersAssumption, LockableAssumption DEF LockableInv, LockableTypeOK, HoldersKnow
  <1>1. holder \in {t, NoThread}
    BY DEF Take, LockFreeFor, CriticalFree, MutexFree, SpinFree
  <1>2. \A u \in Threads : u # t => guards[u] = 0
    BY <1>1
  <1>3. guards[t] \in 0..MaxDepth /\ depth \in 0..MaxDepth /\ depth < MaxDepth
    BY DEF Take
  <1>4. depth = guards[t] + (IF inherited THEN 1 ELSE 0)
    BY <1>1, <1>3
  <1>5. holder' = t /\ depth' = depth + 1 /\ abandoned' = FALSE
    BY DEF Take
  <1>6. CASE abandoned
    <2>1. guards' = guards /\ inherited' = TRUE
      BY <1>6 DEF Take
    <2>2. holder = NoThread /\ depth = 0 /\ guards[t] = 0
      BY <1>6
    <2>3. QED
      BY <1>2, <1>3, <1>5, <2>1, <2>2
  <1>7. CASE ~abandoned
    <2>1. guards' = [guards EXCEPT ![t] = @ + 1] /\ inherited' = inherited
      BY <1>7 DEF Take
    <2>2. guards[t] <= depth
      BY <1>3, <1>4
    <2>3. QED
      BY <1>2, <1>3, <1>4, <1>5, <2>1, <2>2
  <1>8. QED
    BY <1>6, <1>7

LEMMA LockableKeeps == LockableInv /\ [LockableNext]_lockableVars => LockableInv'
  <1> SUFFICES ASSUME LockableInv, [LockableNext]_lockableVars PROVE LockableInv'
    OBVIOUS
  <1> USE CallersAssumption, LockableAssumption DEF LockableInv, LockableTypeOK, HoldersKnow
  <1>1. CASE UNCHANGED lockableVars
    BY <1>1 DEF lockableVars
  <1>2. ASSUME NEW t \in Threads, NEW withTimeout \in BOOLEAN, AskForLock(t, withTimeout)
        PROVE  LockableInv'
    BY <1>2 DEF AskForLock
  <1>3. ASSUME NEW t \in Threads, GetLock(t) \/ TryLock(t) PROVE LockableInv'
    <2>1. Take(t) /\ UNCHANGED <<lockClass, ktimed>>
      BY <1>3 DEF GetLock, TryLock
    <2>2. kpc' \in [Threads -> {"out", "waiting", "ended"}]
      BY <1>3 DEF GetLock, TryLock
    <2>3. /\ holder' = t /\ depth' \in 1..MaxDepth
          /\ abandoned' = FALSE /\ inherited' \in BOOLEAN
          /\ guards' \in [Threads -> 0..MaxDepth]
          /\ \A u \in Threads : guards'[u] > 0 => u = t
          /\ depth' = guards'[t] + (IF inherited' THEN 1 ELSE 0)
      BY <2>1, TakeKeeps
    <2>4. LockableTypeOK'
      <3>1. lockClass' = lockClass /\ ktimed' = ktimed
        BY <2>1
      <3>2. depth' \in 0..MaxDepth /\ holder' \in Threads \cup {NoThread}
        BY <2>3
      <3>3. abandoned' \in BOOLEAN
        BY <2>3
      <3>4. QED
        BY <2>2, <2>3, <3>1, <3>2, <3>3
    <2>5. HoldersKnow' /\ holder' # NoThread /\ depth' # 0
      BY <2>3
    <2>6. QED
      BY <2>3, <2>4, <2>5
  <1>5. ASSUME NEW t \in Threads, LockTimesOut(t) PROVE LockableInv'
    BY <1>5 DEF LockTimesOut
  <1>6. ASSUME NEW t \in Threads, UnlockOnce(t) PROVE LockableInv'
    <2>1. depth \in 1..MaxDepth /\ guards[t] \in 0..MaxDepth
      BY <1>6 DEF UnlockOnce
    <2>2. /\ depth' = depth - 1 /\ depth' \in 0..MaxDepth
          /\ guards' \in [Threads -> 0..MaxDepth]
          /\ guards'[t] = IF guards[t] = 0 THEN 0 ELSE guards[t] - 1
          /\ \A u \in Threads : u # t => guards'[u] = 0
      BY <1>6, <2>1 DEF UnlockOnce
    <2>3. CASE depth' = 0
      BY <1>6, <2>1, <2>2, <2>3 DEF UnlockOnce
    <2>4. CASE depth' # 0
      BY <1>6, <2>1, <2>2, <2>4 DEF UnlockOnce
    <2>5. QED
      BY <2>3, <2>4
  <1>7. ASSUME NEW t \in Threads, EndThread(t) PROVE LockableInv'
    <2>1. CASE holder = t /\ lockClass = "mutex"
      <3>1. /\ holder' = NoThread /\ depth' = 0 /\ abandoned' = TRUE /\ inherited' = FALSE
            /\ UNCHANGED <<lockClass, ktimed>>
            /\ guards' = [guards EXCEPT ![t] = 0] /\ kpc' = [kpc EXCEPT ![t] = "ended"]
        BY <1>7, <2>1 DEF EndThread
      <3>2. \A u \in Threads : guards'[u] = 0
        BY <2>1, <3>1
      <3>3. LockableTypeOK'
        <4>1. depth' \in 0..MaxDepth /\ guards' \in [Threads -> 0..MaxDepth]
          BY <3>1
        <4>2. kpc' \in [Threads -> {"out", "waiting", "ended"}]
          BY <3>1
        <4>3. abandoned' \in BOOLEAN /\ inherited' \in BOOLEAN
          BY <3>1
        <4>4. QED
          BY <3>1, <4>1, <4>2, <4>3
      <3>4. QED
        BY <3>1, <3>2, <3>3
    <2>2. CASE ~(holder = t /\ lockClass = "mutex")
      BY <1>7, <2>2 DEF EndThread
    <2>3. QED
      BY <2>1, <2>2
  <1>8. QED
    BY <1>1, <1>2, <1>3, <1>5, <1>6, <1>7 DEF LockableNext

-----------------------------------------------------------------------------
(* The reader-writer lock.                                                   *)

\* A thread that waits for a notification asked for the mode it had.
SharedInv ==
    /\ SharedTypeOK /\ WriterAlone
    /\ \A t \in Threads :
          rpc[t] \in {"asleep", "woken"} => rflag[t] = Flag(rmode[t] = "writing")

LEMMA SharedStart == SharedInit => SharedInv
  BY CallersAssumption DEF SharedInit, SharedInv, SharedTypeOK, WriterAlone, Flag

LEMMA SharedKeeps == SharedInv /\ [SharedNext]_sharedVars => SharedInv'
  <1> SUFFICES ASSUME SharedInv, [SharedNext]_sharedVars PROVE SharedInv'
    OBVIOUS
  <1> USE CallersAssumption DEF SharedInv, SharedTypeOK, WriterAlone, Flag
  <1>1. CASE UNCHANGED sharedVars
    BY <1>1 DEF sharedVars
  <1>2. ASSUME NEW t \in Threads, AskShared(t) \/ AskExclusive(t) PROVE SharedInv'
    BY <1>2 DEF AskShared, AskExclusive
  <1>3. ASSUME NEW t \in Threads, GetShared(t) PROVE SharedInv'
    BY <1>3 DEF GetShared, Readable
  <1>4. ASSUME NEW t \in Threads, GetExclusive(t) PROVE SharedInv'
    BY <1>4 DEF GetExclusive, Writable
  <1>5. ASSUME NEW t \in Threads, UnlockRead(t) PROVE SharedInv'
    BY <1>5 DEF UnlockRead
  <1>6. ASSUME NEW t \in Threads, UnlockWrite(t) PROVE SharedInv'
    BY <1>6 DEF UnlockWrite
  <1>7. ASSUME NEW t \in Threads, SleepOnLock(t) \/ TimedSleepOnLock(t) PROVE SharedInv'
    <2>1. CASE rpc[t] = "reading"
      BY <1>7, <2>1 DEF SleepOnLock, TimedSleepOnLock
    <2>2. CASE rpc[t] = "writing"
      BY <1>7, <2>2 DEF SleepOnLock, TimedSleepOnLock
    <2>3. QED
      BY <1>7, <2>1, <2>2 DEF SleepOnLock, TimedSleepOnLock
  <1>8. ASSUME NEW t \in Threads, GetBack(t) PROVE SharedInv'
    <2>1. CASE rmode[t] = "reading"
      BY <1>8, <2>1 DEF GetBack, Readable
    <2>2. CASE rmode[t] = "writing"
      BY <1>8, <2>2 DEF GetBack, Writable
    <2>3. QED
      BY <2>1, <2>2
  <1>9. CASE WakeOneOnLock
    BY <1>9 DEF WakeOneOnLock
  <1>10. CASE WakeAllOnLock
    BY <1>10 DEF WakeAllOnLock, NotifyAll
  <1>11. QED
    BY <1>1, <1>2, <1>3, <1>4, <1>5, <1>6, <1>7, <1>8, <1>9, <1>10 DEF SharedNext

-----------------------------------------------------------------------------
(* Events and semaphores.                                                    *)

SignalInv == SignalTypeOK /\ SignalsConserved

LEMMA SignalStart == SignalInit => SignalInv
  BY SignalAssumption DEF SignalInit, SignalInv, SignalTypeOK, SignalsConserved, Limit

LEMMA SignalKeeps == SignalInv /\ [SignalNext]_signalVars => SignalInv'
  <1> SUFFICES ASSUME SignalInv, [SignalNext]_signalVars PROVE SignalInv'
    OBVIOUS
  <1> USE SignalAssumption DEF SignalInv, SignalTypeOK, SignalsConserved, Limit
  <1>1. CASE UNCHANGED signalVars
    BY <1>1 DEF signalVars
  <1>2. CASE SetEvent
    BY <1>2 DEF SetEvent
  <1>3. CASE ResetEvent
    BY <1>3 DEF ResetEvent
  <1>4. ASSUME NEW n \in 1..MaxRelease, Release(n) PROVE SignalInv'
    BY <1>4 DEF Release
  <1>5. ASSUME NEW t \in Threads, NEW withTimeout \in BOOLEAN, AskForSignal(t, withTimeout)
        PROVE  SignalInv'
    BY <1>5 DEF AskForSignal
  <1>6. ASSUME NEW t \in Threads, GetSignal(t) \/ TryAcquire(t) \/ IsSignaled(t)
        PROVE  SignalInv'
    BY <1>6 DEF GetSignal, TryAcquire, IsSignaled, UseUp
  <1>7. ASSUME NEW t \in Threads, SignalTimesOut(t) PROVE SignalInv'
    BY <1>7 DEF SignalTimesOut
  <1>8. QED
    BY <1>1, <1>2, <1>3, <1>4, <1>5, <1>6, <1>7 DEF SignalNext

-----------------------------------------------------------------------------
(* Handles.                                                                  *)

\* What does not exist has no handle.
HandleInv ==
    /\ HandleTypeOK /\ HandlesOwned
    /\ \A w \in Wrappers \ alive : handle[w] = 0

LEMMA HandleStart == HandleInit => HandleInv
  BY HandleAssumption DEF HandleInit, HandleInv, HandleTypeOK, HandlesOwned

LEMMA HandleKeeps == HandleInv /\ [HandleNext]_handleVars => HandleInv'
  <1> SUFFICES ASSUME HandleInv, [HandleNext]_handleVars PROVE HandleInv'
    OBVIOUS
  <1> USE HandleAssumption DEF HandleInv, HandleTypeOK, HandlesOwned
  <1>1. CASE UNCHANGED handleVars
    BY <1>1 DEF handleVars
  <1>2. ASSUME NEW w \in Wrappers, Construct(w) PROVE HandleInv'
    <2>1. /\ w \notin alive /\ alive' = alive \cup {w}
          /\ made' = made + 1 /\ made + 1 <= MaxHandles
          /\ handle' = [handle EXCEPT ![w] = made + 1]
          /\ opened' = opened \cup {made + 1} /\ leaked' = leaked
          /\ ownerClass' = ownerClass
      BY <1>2 DEF Construct, Born
    <2>2. made' \in 0..MaxHandles /\ handle' \in [Wrappers -> 0..made']
      BY <2>1
    <2>3. named' \subseteq opened' /\ opened' \subseteq 1..made'
      <3>1. named' \subseteq named \cup {made + 1}
        BY <1>2 DEF Construct
      <3>2. opened' \subseteq 1..made'
        BY <2>1
      <3>3. QED
        BY <2>1, <3>1, <3>2
    <2>4. \A v \in alive : handle'[v] = handle[v] /\ handle[v] <= made
      BY <2>1
    <2>5. {handle'[v] : v \in alive'} \ {0} = ({handle[v] : v \in alive} \ {0}) \cup {made + 1}
      BY <2>1, <2>4
    <2>6. HandleTypeOK'
      BY <2>1, <2>2, <2>3
    <2>7. QED
      BY <2>1, <2>4, <2>5, <2>6
  <1>3. ASSUME NEW w \in Wrappers, OpenOver(w) PROVE HandleInv'
    <2>1. /\ w \notin alive /\ alive' = alive \cup {w}
          /\ made' = made + 2 /\ made + 2 <= MaxHandles
          /\ handle' = [handle EXCEPT ![w] = made + 1]
          /\ opened' = opened \cup {made + 1, made + 2}
          /\ leaked' = leaked \cup {made + 2}
          /\ named' = named \cup {made + 1} /\ ownerClass' = ownerClass
      BY <1>3 DEF OpenOver, Born
    <2>2. made' \in 0..MaxHandles /\ handle' \in [Wrappers -> 0..made']
      BY <2>1
    <2>3. named' \subseteq opened' /\ opened' \subseteq 1..made' /\ leaked' \subseteq opened'
      BY <2>1
    <2>4. \A v \in alive : handle'[v] = handle[v] /\ handle[v] <= made
      BY <2>1
    <2>5. QED
      BY <2>1, <2>2, <2>3, <2>4
  <1>4. ASSUME NEW w \in Wrappers, OpenSemaphore(w) PROVE HandleInv'
    <2>1. /\ w \notin alive /\ alive' = alive \cup {w}
          /\ made' = made + 2 /\ made + 2 <= MaxHandles
          /\ handle' = [handle EXCEPT ![w] = made + 1]
          /\ opened' = opened \cup {made + 1} /\ leaked' = leaked
          /\ named' = named \cup {made + 1} /\ ownerClass' = ownerClass
      BY <1>4 DEF OpenSemaphore, Born
    <2>2. made' \in 0..MaxHandles /\ handle' \in [Wrappers -> 0..made']
      BY <2>1
    <2>3. named' \subseteq opened' /\ opened' \subseteq 1..made' /\ leaked' \subseteq opened'
      BY <2>1
    <2>4. \A v \in alive : handle'[v] = handle[v] /\ handle[v] <= made
      BY <2>1
    <2>5. QED
      BY <2>1, <2>2, <2>3, <2>4
  <1>5. CASE OpenThrows
    <2>1. /\ made' = made + 1 /\ made + 1 <= MaxHandles
          /\ opened' = opened \cup {made + 1} /\ leaked' = leaked \cup {made + 1}
          /\ named' = named \cup {made + 1}
          /\ UNCHANGED <<ownerClass, alive, handle>>
      BY <1>5 DEF OpenThrows
    <2>2. made' \in 0..MaxHandles /\ handle' \in [Wrappers -> 0..made']
      BY <2>1
    <2>3. named' \subseteq opened' /\ opened' \subseteq 1..made' /\ leaked' \subseteq opened'
      BY <2>1
    <2>4. \A v \in alive : handle[v] <= made
      BY <2>1
    <2>5. QED
      BY <2>1, <2>2, <2>3, <2>4
  <1>6. ASSUME NEW w \in Wrappers, NEW v \in Wrappers, MoveConstruct(w, v)
        PROVE  HandleInv'
    <2>1. /\ w \notin alive /\ v \in alive /\ w # v /\ alive' = alive \cup {w}
          /\ handle' = [handle EXCEPT ![w] = handle[v], ![v] = 0]
          /\ UNCHANGED <<ownerClass, opened, named, made, leaked>>
      BY <1>6 DEF MoveConstruct
    <2>2. /\ handle'[w] = handle[v] /\ handle'[v] = 0
          /\ \A u \in Wrappers \ {w, v} : handle'[u] = handle[u]
          /\ handle' \in [Wrappers -> 0..made']
      BY <2>1
    <2>3. {handle'[u] : u \in alive'} \ {0} = {handle[u] : u \in alive} \ {0}
      BY <2>1, <2>2
    <2>4. QED
      BY <2>1, <2>2, <2>3
  <1>7. ASSUME NEW w \in Wrappers, NEW v \in Wrappers, MoveAssign(w, v)
        PROVE  HandleInv'
    <2>1. /\ w \in alive /\ v \in alive /\ w # v /\ alive' = alive
          /\ handle' = [handle EXCEPT ![v] = 0, ![w] = handle[v]]
          /\ opened' = opened \ {handle[w]} /\ named' = named \ {handle[w]}
          /\ UNCHANGED <<ownerClass, made, leaked>>
      BY <1>7 DEF MoveAssign, CloseHandle
    <2>2. /\ handle'[w] = handle[v] /\ handle'[v] = 0
          /\ \A u \in Wrappers \ {w, v} : handle'[u] = handle[u]
          /\ handle' \in [Wrappers -> 0..made']
      BY <2>1
    <2>3. {handle'[u] : u \in alive'} \ {0} = ({handle[u] : u \in alive} \ {0}) \ {handle[w]}
      BY <2>1, <2>2
    <2>4. HandleTypeOK'
      <3>1. named' \subseteq opened' /\ opened' \subseteq 1..made'
        BY <2>1
      <3>2. leaked' \subseteq opened'
        BY <2>1
      <3>3. QED
        BY <2>1, <2>2, <3>1, <3>2
    <2>5. opened' = ({handle'[u] : u \in alive'} \ {0}) \cup leaked'
      BY <2>1, <2>3
    <2>6. \A u, x \in alive' : handle'[u] = handle'[x] /\ handle'[u] # 0 => u = x
      BY <2>1, <2>2
    <2>7. \A u \in alive' : handle'[u] \in opened' \cup {0} /\ handle'[u] \notin leaked'
      BY <2>1, <2>2
    <2>8. \A u \in Wrappers \ alive' : handle'[u] = 0
      BY <2>1, <2>2
    <2>9. QED
      BY <2>4, <2>5, <2>6, <2>7, <2>8
  <1>8. ASSUME NEW w \in Wrappers, Destroy(w) PROVE HandleInv'
    <2>1. /\ w \in alive /\ alive' = alive \ {w}
          /\ handle' = [handle EXCEPT ![w] = 0]
          /\ opened' = opened \ {handle[w]} /\ named' = named \ {handle[w]}
          /\ UNCHANGED <<ownerClass, made, leaked>>
      BY <1>8 DEF Destroy, CloseHandle
    <2>2. /\ handle'[w] = 0
          /\ \A u \in Wrappers \ {w} : handle'[u] = handle[u]
          /\ handle' \in [Wrappers -> 0..made']
      BY <2>1
    <2>3. {handle'[u] : u \in alive'} \ {0} = ({handle[u] : u \in alive} \ {0}) \ {handle[w]}
      BY <2>1, <2>2
    <2>4. HandleTypeOK'
      <3>1. named' \subseteq opened' /\ opened' \subseteq 1..made'
        BY <2>1
      <3>2. leaked' \subseteq opened'
        BY <2>1
      <3>3. QED
        BY <2>1, <2>2, <3>1, <3>2
    <2>5. opened' = ({handle'[u] : u \in alive'} \ {0}) \cup leaked'
      BY <2>1, <2>3
    <2>6. \A u, x \in alive' : handle'[u] = handle'[x] /\ handle'[u] # 0 => u = x
      BY <2>1, <2>2
    <2>7. \A u \in alive' : handle'[u] \in opened' \cup {0} /\ handle'[u] \notin leaked'
      BY <2>1, <2>2
    <2>8. \A u \in Wrappers \ alive' : handle'[u] = 0
      BY <2>1, <2>2
    <2>9. QED
      BY <2>4, <2>5, <2>6, <2>7, <2>8
  <1>9. QED
    BY <1>1, <1>2, <1>3, <1>4, <1>5, <1>6, <1>7, <1>8
       DEF HandleNext, MutexLife, EventLife, SemaphoreLife, Common, OpenMutex, OpenEvent

-----------------------------------------------------------------------------
(* Thread objects.                                                           *)

\* The owner waits for a thread it has, and for one object on behalf of another.
JoinableInv ==
    /\ JoinableTypeOK /\ NoThreadLost
    /\ \A k \in ThreadNumbers : k > begun => trun[k] = "none"
    /\ jpc # "idle" => jobj \in ThreadObjects /\ thandle[jobj] # 0
    /\ jpc = "assign" => jsrc \in ThreadObjects /\ jsrc # jobj

LEMMA JoinableStart == JoinableInit => JoinableInv
  <1> SUFFICES ASSUME JoinableInit PROVE JoinableInv
    OBVIOUS
  <1> USE JoinableAssumption DEF JoinableInit, ThreadNumbers
  <1>1. JoinableTypeOK
    BY DEF JoinableTypeOK
  <1>2. NoThreadLost
    BY DEF NoThreadLost
  <1>3. QED
    BY <1>1, <1>2 DEF JoinableInv

\* An object takes over the thread of another, and loses none that matters.
LEMMA TakesOver ==
  ASSUME JoinableInv, NEW o \in ThreadObjects, NEW p \in ThreadObjects, o # p,
         thandle' = [thandle EXCEPT ![o] = thandle[p], ![p] = 0],
         \A k \in ThreadNumbers : trun[k] = "running" => thandle[o] # k
  PROVE  /\ thandle' \in [ThreadObjects -> 0..begun]
         /\ \A k \in ThreadNumbers : trun[k] = "running" /\ k \notin detached =>
               \E q \in ThreadObjects : thandle'[q] = k
         /\ \A q, r \in ThreadObjects : thandle'[q] = thandle'[r] /\ thandle'[q] # 0 => q = r
  <1> USE DEF JoinableInv, JoinableTypeOK, NoThreadLost, ThreadNumbers
  <1>1. /\ thandle'[o] = thandle[p] /\ thandle'[p] = 0
        /\ \A q \in ThreadObjects \ {o, p} : thandle'[q] = thandle[q]
    OBVIOUS
  <1>2. ASSUME NEW k \in ThreadNumbers, trun[k] = "running", k \notin detached
        PROVE  \E q \in ThreadObjects : thandle'[q] = k
    <2>1. PICK q \in ThreadObjects : thandle[q] = k
      BY <1>2
    <2>2. CASE q = p
      BY <1>1, <2>1, <2>2
    <2>3. CASE q # p
      BY <1>1, <1>2, <2>1, <2>3
    <2>4. QED
      BY <2>2, <2>3
  <1>3. thandle' \in [ThreadObjects -> 0..begun]
    OBVIOUS
  <1>4. QED
    BY <1>1, <1>2, <1>3

\* An object loses its thread, which is over or detached.
LEMMA LetsGo ==
  ASSUME JoinableInv, NEW o \in ThreadObjects,
         thandle' = [thandle EXCEPT ![o] = 0],
         \A k \in ThreadNumbers : trun[k] = "running" /\ k \notin detached' => thandle[o] # k,
         detached \subseteq detached'
  PROVE  /\ thandle' \in [ThreadObjects -> 0..begun]
         /\ \A k \in ThreadNumbers : trun[k] = "running" /\ k \notin detached' =>
               \E q \in ThreadObjects : thandle'[q] = k
         /\ \A q, r \in ThreadObjects : thandle'[q] = thandle'[r] /\ thandle'[q] # 0 => q = r
  <1> USE DEF JoinableInv, JoinableTypeOK, NoThreadLost, ThreadNumbers
  <1>1. /\ thandle'[o] = 0
        /\ \A q \in ThreadObjects \ {o} : thandle'[q] = thandle[q]
    OBVIOUS
  <1>2. ASSUME NEW k \in ThreadNumbers, trun[k] = "running", k \notin detached'
        PROVE  \E q \in ThreadObjects : thandle'[q] = k
    <2>1. PICK q \in ThreadObjects : thandle[q] = k
      BY <1>2
    <2>2. QED
      BY <1>1, <1>2, <2>1
  <1>3. thandle' \in [ThreadObjects -> 0..begun]
    OBVIOUS
  <1>4. QED
    BY <1>1, <1>2, <1>3

LEMMA JoinableKeeps == JoinableInv /\ [JoinableNext]_joinableVars => JoinableInv'
  <1> SUFFICES ASSUME JoinableInv, [JoinableNext]_joinableVars PROVE JoinableInv'
    OBVIOUS
  <1> USE JoinableAssumption
      DEF JoinableInv, JoinableTypeOK, NoThreadLost, ThreadNumbers
  <1>1. CASE UNCHANGED joinableVars
    BY <1>1 DEF joinableVars
  <1>2. ASSUME NEW o \in ThreadObjects, StartThread(o) PROVE JoinableInv'
    <2>1. /\ jpc = "idle" /\ thandle[o] = 0 /\ begun < MaxThreads /\ begun' = begun + 1
          /\ thandle' = [thandle EXCEPT ![o] = begun + 1]
          /\ trun' = [trun EXCEPT ![begun + 1] = "running"]
          /\ closure' = [closure EXCEPT ![begun + 1] = "live"]
          /\ UNCHANGED <<jpc, jobj, jsrc, joined, detached>>
      BY <1>2 DEF StartThread
    <2>2. begun + 1 \in 1..MaxThreads /\ begun \in Nat
      BY <2>1
    <2>3. \A p \in ThreadObjects : thandle[p] \in 0..begun
      OBVIOUS
    <2>4. JoinableTypeOK'
      <3>1. thandle' \in [ThreadObjects -> 0..begun']
        BY <2>1, <2>2
      <3>2. QED
        BY <2>1, <2>2, <3>1
    <2>5. \A k \in ThreadNumbers : trun'[k] = "running" /\ k \notin detached' =>
             \E p \in ThreadObjects : thandle'[p] = k
      BY <2>1, <2>2
    <2>6. \A p, q \in ThreadObjects : thandle'[p] = thandle'[q] /\ thandle'[p] # 0 => p = q
      BY <2>1, <2>2, <2>3
    <2>7. \A k \in joined' : trun'[k] = "ended"
      BY <2>1, <2>2
    <2>8. /\ \A k \in ThreadNumbers : closure'[k] = "live" <=> trun'[k] = "running"
          /\ \A k \in ThreadNumbers : k > begun' => trun'[k] = "none"
      BY <2>1, <2>2
    <2>9. QED
      BY <2>1, <2>4, <2>5, <2>6, <2>7, <2>8
  <1>3. CASE StartFails
    <2>1. /\ begun' = begun + 1 /\ begun < MaxThreads
          /\ closure' = [closure EXCEPT ![begun + 1] = "deleted"]
          /\ UNCHANGED <<thandle, trun, jpc, jobj, jsrc, joined, detached>>
      BY <1>3 DEF StartFails
    <2>2. thandle' \in [ThreadObjects -> 0..begun'] /\ begun' \in 0..MaxThreads
      BY <2>1
    <2>3. trun[begun + 1] # "running"
      BY <2>1
    <2>4. \A k \in ThreadNumbers : closure'[k] = "live" <=> trun'[k] = "running"
      BY <2>1, <2>3
    <2>5. QED
      BY <2>1, <2>2, <2>4
  <1>4. ASSUME NEW k \in ThreadNumbers, ThreadEnds(k) PROVE JoinableInv'
    BY <1>4 DEF ThreadEnds
  <1>5. ASSUME NEW call \in {"join", "tryjoin", "cleanup"}, NEW o \in ThreadObjects,
               WaitForThread(call, o), jsrc' = NoObject
        PROVE  JoinableInv'
    BY <1>5 DEF WaitForThread
  <1>6. ASSUME NEW o \in ThreadObjects, NEW p \in ThreadObjects, AssignThread(o, p)
        PROVE  JoinableInv'
    <2>1. CASE thandle[o] = 0
      <3>1. /\ o # p /\ thandle' = [thandle EXCEPT ![o] = thandle[p], ![p] = 0]
            /\ UNCHANGED <<begun, trun, closure, jpc, jobj, jsrc, joined, detached>>
            /\ jpc = "idle"
        BY <1>6, <2>1 DEF AssignThread
      <3>2. /\ thandle' \in [ThreadObjects -> 0..begun]
            /\ \A k \in ThreadNumbers : trun[k] = "running" /\ k \notin detached =>
                  \E q \in ThreadObjects : thandle'[q] = k
            /\ \A q, r \in ThreadObjects :
                  thandle'[q] = thandle'[r] /\ thandle'[q] # 0 => q = r
        BY <2>1, <3>1, TakesOver
      <3>3. QED
        BY <3>1, <3>2
    <2>2. CASE thandle[o] # 0
      <3>1. /\ o # p /\ jpc' = "assign" /\ jobj' = o /\ jsrc' = p
            /\ UNCHANGED <<thandle, begun, trun, closure, joined, detached>>
        BY <1>6, <2>2 DEF AssignThread, WaitForThread
      <3>2. QED
        BY <2>2, <3>1
    <2>3. QED
      BY <2>1, <2>2
  <1>7. CASE TryJoinTimesOut
    BY <1>7 DEF TryJoinTimesOut
  <1>8. CASE WaitEnds
    <2>1. /\ jobj \in ThreadObjects /\ thandle[jobj] \in 1..begun
          /\ trun[thandle[jobj]] = "ended"
          /\ joined' = joined \cup {thandle[jobj]}
          /\ jpc' = "idle" /\ jobj' = NoObject /\ jsrc' = NoObject
          /\ UNCHANGED <<begun, trun, closure, detached>>
      BY <1>8 DEF WaitEnds
    <2>2. CASE jpc = "assign"
      <3>1. /\ jsrc \in ThreadObjects /\ jsrc # jobj
            /\ thandle' = [thandle EXCEPT ![jobj] = thandle[jsrc], ![jsrc] = 0]
        BY <1>8, <2>2 DEF WaitEnds
      <3>2. /\ thandle' \in [ThreadObjects -> 0..begun]
            /\ \A k \in ThreadNumbers : trun[k] = "running" /\ k \notin detached =>
                  \E q \in ThreadObjects : thandle'[q] = k
            /\ \A q, r \in ThreadObjects :
                  thandle'[q] = thandle'[r] /\ thandle'[q] # 0 => q = r
        BY <2>1, <3>1, TakesOver
      <3>3. QED
        BY <2>1, <3>1, <3>2
    <2>3. CASE jpc # "assign"
      <3>1. thandle' = [thandle EXCEPT ![jobj] = 0]
        BY <1>8, <2>3 DEF WaitEnds
      <3>2. /\ thandle' \in [ThreadObjects -> 0..begun]
            /\ \A k \in ThreadNumbers : trun[k] = "running" /\ k \notin detached =>
                  \E q \in ThreadObjects : thandle'[q] = k
            /\ \A q, r \in ThreadObjects :
                  thandle'[q] = thandle'[r] /\ thandle'[q] # 0 => q = r
        BY <2>1, <3>1, LetsGo
      <3>3. QED
        BY <2>1, <3>1, <3>2
    <2>4. QED
      BY <2>2, <2>3
  <1>9. ASSUME NEW o \in ThreadObjects, Detach(o) PROVE JoinableInv'
    <2>1. /\ jpc = "idle" /\ thandle[o] \in 1..begun
          /\ detached' = detached \cup {thandle[o]}
          /\ thandle' = [thandle EXCEPT ![o] = 0]
          /\ UNCHANGED <<begun, trun, closure, jpc, jobj, jsrc, joined>>
      BY <1>9 DEF Detach
    <2>2. /\ thandle' \in [ThreadObjects -> 0..begun]
          /\ \A k \in ThreadNumbers : trun[k] = "running" /\ k \notin detached' =>
                \E q \in ThreadObjects : thandle'[q] = k
          /\ \A q, r \in ThreadObjects : thandle'[q] = thandle'[r] /\ thandle'[q] # 0 => q = r
      BY <2>1, LetsGo
    <2>3. QED
      BY <2>1, <2>2
  <1>10. QED
    BY <1>1, <1>2, <1>3, <1>4, <1>5, <1>6, <1>7, <1>8, <1>9
       DEF JoinableNext, Join, TryJoin, DestroyThread

-----------------------------------------------------------------------------
(* Thread-local objects.                                                     *)

\* No two objects share an index; an object that does not exist has no values; a
\* cell that is not allocated holds what one is made with, and only the class for
\* pointers leaves cells out of the slots.
ThreadLocalInv ==
    /\ TlsTypeOK /\ OwnValueOnly
    /\ \A o, p \in TlsObjects : tlsIndex[o] = tlsIndex[p] /\ tlsIndex[o] # NoIndex => o = p
    /\ \A n \in Cells : n > cells => cell[n] = Default
    /\ \A o \in TlsObjects, t \in Threads :
          /\ orphans[o][t] # {} => pointers
          /\ tlsIndex[o] = NoIndex => stored[o][t] = Unset /\ orphans[o][t] = {}

LEMMA ThreadLocalStart == TlsInit => ThreadLocalInv
  <1> SUFFICES ASSUME TlsInit PROVE ThreadLocalInv
    OBVIOUS
  <1> USE CallersAssumption, ThreadLocalAssumption DEF TlsInit, Empty, Cells
  <1>1. TlsTypeOK
    <2>1. pointers \in BOOLEAN
      OBVIOUS
    <2>2. tlsIndex \in [TlsObjects -> Indexes \cup {NoIndex}] /\ cells \in 0..MaxCells
      OBVIOUS
    <2>3. slot \in [Indexes -> [Threads -> 0..cells]]
      OBVIOUS
    <2>4. cell \in [Cells -> Values \cup {Default}] /\ deleted \subseteq 1..cells
      OBVIOUS
    <2>5. stored \in [TlsObjects -> [Threads -> Values \cup {Default, Unset}]]
      OBVIOUS
    <2>6. orphans \in [TlsObjects -> [Threads -> SUBSET (1..cells)]]
      OBVIOUS
    <2>7. QED
      BY <2>1, <2>2, <2>3, <2>4, <2>5, <2>6 DEF TlsTypeOK
  <1>2. OwnValueOnly
    BY DEF OwnValueOnly
  <1>3. QED
    BY <1>1, <1>2 DEF ThreadLocalInv

\* A new cell is in nobody's slot, nor an orphan.
LEMMA CellsKnown ==
  ASSUME TlsTypeOK, NEW o \in TlsObjects, NEW t \in Threads, tlsIndex[o] # NoIndex
  PROVE  /\ tlsIndex[o] \in Indexes /\ Slot(o, t) \in 0..cells
         /\ Reachable(o, t) \subseteq 1..cells
  BY DEF TlsTypeOK, Slot, Reachable

\* OwnValueOnly speaks of the slots and orphans of objects that exist: a step
\* that leaves those of all others alone, and of one neither what it finds nor
\* what it put there, keeps it.
LEMMA ThreadLocalKeeps == ThreadLocalInv /\ [TlsNext]_tlsVars => ThreadLocalInv'
  <1> SUFFICES ASSUME ThreadLocalInv, [TlsNext]_tlsVars PROVE ThreadLocalInv'
    OBVIOUS
  <1> USE CallersAssumption, ThreadLocalAssumption DEF ThreadLocalInv, TlsTypeOK, Cells
  <1>1. CASE UNCHANGED tlsVars
    BY <1>1 DEF tlsVars, OwnValueOnly, Found, Slot, Reachable
  <1>2. ASSUME NEW o \in TlsObjects, Alloc(o) PROVE ThreadLocalInv'
    <2> PICK i \in Indexes \ {tlsIndex[p] : p \in TlsObjects} :
             /\ tlsIndex' = [tlsIndex EXCEPT ![o] = i]
             /\ slot' = [slot EXCEPT ![i] = Empty]
      BY <1>2, Zenon DEF Alloc
    <2>1. /\ i \in Indexes /\ \A p \in TlsObjects : tlsIndex[p] # i
          /\ tlsIndex' = [tlsIndex EXCEPT ![o] = i]
          /\ slot' = [slot EXCEPT ![i] = Empty]
      OBVIOUS
    <2>2. /\ UNCHANGED <<pointers, cell, cells, deleted, orphans, stored>>
          /\ tlsIndex[o] = NoIndex
      BY <1>2 DEF Alloc
    <2>3. slot' \in [Indexes -> [Threads -> 0..cells']]
      BY <2>1, <2>2 DEF Empty
    <2>4. \A p \in TlsObjects, u \in Threads : p # o /\ tlsIndex[p] # NoIndex =>
             slot'[tlsIndex'[p]][u] = slot[tlsIndex[p]][u]
      BY <2>1
    <2>5. \A u \in Threads : slot'[tlsIndex'[o]][u] = 0
      BY <2>1 DEF Empty
    <2>6. \A u \in Threads : stored[o][u] = Unset /\ orphans[o][u] = {}
      BY <2>2
    <2>7. OwnValueOnly'
      BY <2>1, <2>2, <2>4, <2>5, <2>6 DEF OwnValueOnly, Found, Slot, Reachable
    <2>8. QED
      BY <2>1, <2>2, <2>3, <2>6, <2>7
  <1>3. ASSUME NEW o \in TlsObjects, Free(o) PROVE ThreadLocalInv'
    <2>1. OwnValueOnly'
      BY <1>3 DEF Free, OwnValueOnly, Found, Slot, Reachable
    <2>2. QED
      BY <1>3, <2>1 DEF Free
  <1>4. ASSUME NEW o \in TlsObjects, NEW t \in Threads, GetFirst(o, t)
        PROVE  ThreadLocalInv'
    <2>1. /\ tlsIndex[o] \in Indexes /\ tlsIndex[o] # NoIndex /\ cells < MaxCells
          /\ cells' = cells + 1 /\ Slot(o, t) = 0
          /\ slot' = [slot EXCEPT ![tlsIndex[o]][t] = cells + 1]
          /\ stored' = [stored EXCEPT ![o][t] = IF @ = Unset THEN Default ELSE @]
          /\ UNCHANGED <<pointers, tlsIndex, cell, deleted, orphans>>
      BY <1>4 DEF GetFirst, SetPointer, Puts
    <2>2. /\ cells' \in 0..MaxCells /\ slot' \in [Indexes -> [Threads -> 0..cells']]
          /\ orphans' \in [TlsObjects -> [Threads -> SUBSET (1..cells')]]
      BY <2>1
    <2>3. stored' \in [TlsObjects -> [Threads -> Values \cup {Default, Unset}]]
      BY <2>1
    <2>4. \A p \in TlsObjects, u \in Threads : tlsIndex[p] # NoIndex =>
             /\ slot'[tlsIndex'[p]][u] =
                   IF p = o /\ u = t THEN cells + 1 ELSE slot[tlsIndex[p]][u]
             /\ slot[tlsIndex[p]][u] \in 0..cells
      BY <2>1
    <2>5. cell[cells + 1] = Default /\ cells + 1 \notin deleted
      BY <2>1
    <2>6. \A p \in TlsObjects, u \in Threads :
             stored'[p][u] = IF p = o /\ u = t /\ stored[o][t] = Unset
                             THEN Default ELSE stored[p][u]
      BY <2>1
    <2>7. \A p \in TlsObjects, u \in Threads : tlsIndex[p] # NoIndex =>
             /\ \A n \in Reachable(p, u)' :
                   n \in Reachable(p, u) \/ (n = cells + 1 /\ p = o /\ u = t)
             /\ Reachable(p, u) \subseteq 1..cells
      <3>1. \A p \in TlsObjects, u \in Threads : tlsIndex[p] # NoIndex =>
                 Slot(p, u)' = IF p = o /\ u = t THEN cells + 1 ELSE Slot(p, u)
        BY <2>1, <2>4 DEF Slot
      <3>2. \A p \in TlsObjects, u \in Threads : tlsIndex[p] # NoIndex =>
                 Reachable(p, u) \subseteq 1..cells
        BY CellsKnown
      <3>3. \A p \in TlsObjects, u \in Threads :
                 orphans'[p][u] = orphans[p][u]
        BY <2>1, <2>4
      <3>4. QED
        BY <3>1, <3>2, <3>3 DEF Reachable
    <2>8. \A p \in TlsObjects, u \in Threads : tlsIndex'[p] # NoIndex =>
             /\ Reachable(p, u)' \cap deleted' = {}
             /\ \A q \in TlsObjects, v \in Threads :
                   tlsIndex'[q] # NoIndex /\ (q # p \/ v # u) =>
                       Reachable(p, u)' \cap Reachable(q, v)' = {}
      <3>1. \A p, q \in TlsObjects, u, v \in Threads :
                 tlsIndex[p] # NoIndex /\ tlsIndex[q] # NoIndex /\ (q # p \/ v # u) =>
                     \A n \in Reachable(p, u) : n \notin Reachable(q, v)
        BY DEF OwnValueOnly
      <3>2. \A p \in TlsObjects, u \in Threads : tlsIndex[p] # NoIndex =>
                 \A n \in Reachable(p, u) : n \notin deleted
        BY DEF OwnValueOnly
      <3>3. cells + 1 \notin deleted /\ cells + 1 \notin 1..cells
        OBVIOUS
      <3>4. QED
        BY <2>1, <2>5, <2>7, <3>1, <3>2, <3>3
    <2>9. Found(o, t) = Unset
      BY <2>1 DEF Found
    <2>10. \A p \in TlsObjects, u \in Threads : tlsIndex'[p] # NoIndex =>
              Found(p, u)' = stored'[p][u] \/ (pointers' /\ orphans'[p][u] # {})
      BY <2>1, <2>4, <2>5, <2>6, <2>9 DEF OwnValueOnly, Found, Slot
    <2>11. OwnValueOnly'
      BY <2>8, <2>10 DEF OwnValueOnly
    <2>12. QED
      BY <2>1, <2>2, <2>3, <2>11
  <1>5. ASSUME NEW o \in TlsObjects, NEW t \in Threads, SetFails(o, t)
        PROVE  ThreadLocalInv'
    <2>1. /\ cells < MaxCells /\ cells' = cells + 1
          /\ deleted' = deleted \cup {cells + 1}
          /\ UNCHANGED <<pointers, tlsIndex, slot, cell, orphans, stored>>
      BY <1>5 DEF SetFails
    <2>2. cells' \in 0..MaxCells /\ deleted' \subseteq 1..cells'
      BY <2>1
    <2>3. /\ slot' \in [Indexes -> [Threads -> 0..cells']]
          /\ orphans' \in [TlsObjects -> [Threads -> SUBSET (1..cells')]]
      BY <2>1
    <2>4. \A p \in TlsObjects, u \in Threads : tlsIndex[p] # NoIndex =>
             /\ Found(p, u)' = Found(p, u) /\ Reachable(p, u)' = Reachable(p, u)
             /\ Reachable(p, u) \subseteq 1..cells
      BY <2>1, CellsKnown DEF Found, Slot, Reachable
    <2>5. OwnValueOnly'
      BY <2>1, <2>4 DEF OwnValueOnly
    <2>6. QED
      BY <2>1, <2>2, <2>3, <2>5
  <1>6. ASSUME NEW o \in TlsObjects, NEW t \in Threads, SetUnchecked(o, t)
        PROVE  ThreadLocalInv'
    <2>1. /\ pointers /\ tlsIndex[o] # NoIndex /\ cells < MaxCells /\ cells' = cells + 1
          /\ UNCHANGED <<pointers, tlsIndex, slot, cell, deleted>>
      BY <1>6 DEF SetUnchecked
    <2>2. CASE UNCHANGED <<orphans, stored>>
      <3>1. /\ slot' \in [Indexes -> [Threads -> 0..cells']]
            /\ orphans' \in [TlsObjects -> [Threads -> SUBSET (1..cells')]]
            /\ cells' \in 0..MaxCells /\ deleted' \subseteq 1..cells'
        BY <2>1, <2>2
      <3>2. OwnValueOnly'
        BY <2>1, <2>2 DEF OwnValueOnly, Found, Slot, Reachable
      <3>3. QED
        BY <2>1, <2>2, <3>1, <3>2
    <2>3. CASE /\ orphans' = [orphans EXCEPT ![o][t] = @ \cup {cells'}]
               /\ stored' = [stored EXCEPT ![o][t] = IF @ = Unset THEN Default ELSE @]
      <3>1. /\ slot' \in [Indexes -> [Threads -> 0..cells']]
            /\ orphans' \in [TlsObjects -> [Threads -> SUBSET (1..cells')]]
            /\ cells' \in 0..MaxCells /\ deleted' \subseteq 1..cells'
            /\ stored' \in [TlsObjects -> [Threads -> Values \cup {Default, Unset}]]
        BY <2>1, <2>3
      <3>2. \A p \in TlsObjects, u \in Threads :
               orphans'[p][u] = IF p = o /\ u = t THEN orphans[o][t] \cup {cells + 1}
                                ELSE orphans[p][u]
        BY <2>1, <2>3
      <3>3. \A p \in TlsObjects, u \in Threads : (p # o \/ u # t) =>
               stored'[p][u] = stored[p][u]
        BY <2>3
      <3>4. \A p \in TlsObjects, u \in Threads : tlsIndex[p] # NoIndex =>
               /\ \A n \in Reachable(p, u)' :
                     n \in Reachable(p, u) \/ (n = cells + 1 /\ p = o /\ u = t)
               /\ Reachable(p, u) \subseteq 1..cells
        <4>1. \A p \in TlsObjects, u \in Threads : tlsIndex[p] # NoIndex =>
                   Slot(p, u)' = Slot(p, u)
          BY <2>1, <3>2 DEF Slot
        <4>2. \A p \in TlsObjects, u \in Threads : tlsIndex[p] # NoIndex =>
                   Reachable(p, u) \subseteq 1..cells
          BY CellsKnown
        <4>3. \A p \in TlsObjects, u \in Threads :
                   orphans'[p][u] = IF p = o /\ u = t THEN orphans[o][t] \cup {cells + 1} ELSE orphans[p][u]
          BY <2>1, <3>2
        <4>4. QED
          BY <4>1, <4>2, <4>3 DEF Reachable
      <3>5. \A p \in TlsObjects, u \in Threads : tlsIndex'[p] # NoIndex =>
               /\ Reachable(p, u)' \cap deleted' = {}
               /\ \A q \in TlsObjects, v \in Threads :
                     tlsIndex'[q] # NoIndex /\ (q # p \/ v # u) =>
                         Reachable(p, u)' \cap Reachable(q, v)' = {}
        <4>1. \A p, q \in TlsObjects, u, v \in Threads :
                   tlsIndex[p] # NoIndex /\ tlsIndex[q] # NoIndex /\ (q # p \/ v # u) =>
                       \A n \in Reachable(p, u) : n \notin Reachable(q, v)
          BY DEF OwnValueOnly
        <4>2. \A p \in TlsObjects, u \in Threads : tlsIndex[p] # NoIndex =>
                   \A n \in Reachable(p, u) : n \notin deleted
          BY DEF OwnValueOnly
        <4>3. cells + 1 \notin deleted /\ cells + 1 \notin 1..cells
          OBVIOUS
        <4>4. QED
          BY <2>1, <3>4, <4>1, <4>2, <4>3
      <3>6. \A p \in TlsObjects, u \in Threads : tlsIndex'[p] # NoIndex =>
               Found(p, u)' = stored'[p][u] \/ (pointers' /\ orphans'[p][u] # {})
        <4>1. \A p \in TlsObjects, u \in Threads : Found(p, u)' = Found(p, u)
          BY <2>1 DEF Found, Slot
        <4>2. orphans'[o][t] # {}
          BY <3>2
        <4>3. QED
          <5> SUFFICES ASSUME NEW p \in TlsObjects, NEW u \in Threads, tlsIndex'[p] # NoIndex
                       PROVE  Found(p, u)' = stored'[p][u] \/ (pointers' /\ orphans'[p][u] # {})
            OBVIOUS
          <5>1. CASE p = o /\ u = t
            BY <2>1, <4>2, <5>1
          <5>2. CASE p # o \/ u # t
            <6>1. stored'[p][u] = stored[p][u] /\ orphans'[p][u] = orphans[p][u]
              BY <3>2, <3>3, <5>2
            <6>2. Found(p, u) = stored[p][u] \/ (pointers /\ orphans[p][u] # {})
              BY <2>1 DEF OwnValueOnly
            <6>3. QED
              BY <2>1, <4>1, <6>1, <6>2, Zenon
          <5>3. QED
            BY <5>1, <5>2
      <3>7. OwnValueOnly'
        BY <3>5, <3>6 DEF OwnValueOnly
      <3>8. \A p \in TlsObjects, u \in Threads :
               tlsIndex[p] = NoIndex => stored'[p][u] = Unset /\ orphans'[p][u] = {}
        <4> SUFFICES ASSUME NEW p \in TlsObjects, NEW u \in Threads, tlsIndex[p] = NoIndex
                     PROVE  stored'[p][u] = Unset /\ orphans'[p][u] = {}
          OBVIOUS
        <4>1. p # o
          BY <2>1
        <4>2. stored'[p][u] = stored[p][u] /\ orphans'[p][u] = orphans[p][u]
          BY <3>2, <3>3, <4>1
        <4>3. QED
          BY <4>2
      <3>9. QED
        BY <2>1, <3>1, <3>7, <3>8
    <2>4. QED
      BY <1>6, <2>2, <2>3 DEF SetUnchecked, Puts
  <1>7. ASSUME NEW o \in TlsObjects, NEW t \in Threads, NEW v \in Values, StoreValue(o, t, v)
        PROVE  ThreadLocalInv'
    <2>1. /\ tlsIndex[o] # NoIndex
          /\ stored' = [stored EXCEPT ![o][t] = v]
          /\ UNCHANGED <<pointers, tlsIndex, slot, cells, deleted, orphans>>
      BY <1>7 DEF StoreValue
    <2>2. PICK n \in Reachable(o, t) : cell' = [cell EXCEPT ![n] = v]
      BY <1>7 DEF StoreValue
    <2>3. n \in 1..cells /\ n \in 1..MaxCells
      BY <2>1, CellsKnown
    <2>4. /\ cell' \in [Cells -> Values \cup {Default}]
          /\ stored' \in [TlsObjects -> [Threads -> Values \cup {Default, Unset}]]
      BY <2>1, <2>2
    <2>5. \A p \in TlsObjects, u \in Threads : tlsIndex[p] # NoIndex =>
             /\ Reachable(p, u)' = Reachable(p, u)
             /\ Slot(p, u) \in 0..cells
             /\ Slot(p, u) # 0 => Slot(p, u) \in Reachable(p, u)
      BY <2>1, CellsKnown DEF Reachable, Slot
    <2>6. \A p \in TlsObjects, u \in Threads :
             tlsIndex[p] # NoIndex /\ (p # o \/ u # t) => n \notin Reachable(p, u)
      BY <2>1 DEF OwnValueOnly
    <2>7. \A p \in TlsObjects, u \in Threads :
             tlsIndex[p] # NoIndex /\ (p # o \/ u # t) =>
                 Found(p, u)' = Found(p, u) /\ stored'[p][u] = stored[p][u]
      BY <2>1, <2>2, <2>5, <2>6 DEF Found, Slot
    <2>8. orphans[o][t] = {} => Found(o, t)' = v
      BY <2>1, <2>2, <2>3 DEF Found, Slot, Reachable
    <2>9. OwnValueOnly'
      BY <2>1, <2>5, <2>7, <2>8 DEF OwnValueOnly
    <2>10. QED
      BY <2>1, <2>2, <2>3, <2>4, <2>9
  <1>8. ASSUME NEW t \in Threads, Replace(t) PROVE ThreadLocalInv'
    <2>1. /\ slot' = [i \in Indexes |-> [slot[i] EXCEPT ![t] = 0]]
          /\ orphans' = [o \in TlsObjects |-> [orphans[o] EXCEPT ![t] = {}]]
          /\ stored' = [o \in TlsObjects |-> [stored[o] EXCEPT ![t] = Unset]]
          /\ UNCHANGED <<pointers, tlsIndex, cell, cells, deleted>>
      BY <1>8 DEF Replace
    <2>2. /\ slot' \in [Indexes -> [Threads -> 0..cells']]
          /\ orphans' \in [TlsObjects -> [Threads -> SUBSET (1..cells')]]
      BY <2>1
    <2>3. stored' \in [TlsObjects -> [Threads -> Values \cup {Default, Unset}]]
      BY <2>1
    <2>4. \A p \in TlsObjects, u \in Threads : tlsIndex[p] # NoIndex =>
             slot'[tlsIndex'[p]][u] = IF u = t THEN 0 ELSE slot[tlsIndex[p]][u]
      BY <2>1
    <2>5. \A p \in TlsObjects, u \in Threads :
             /\ stored'[p][u] = IF u = t THEN Unset ELSE stored[p][u]
             /\ orphans'[p][u] = IF u = t THEN {} ELSE orphans[p][u]
      BY <2>1
    <2>6. OwnValueOnly'
      BY <2>1, <2>4, <2>5 DEF OwnValueOnly, Found, Slot, Reachable
    <2>7. QED
      BY <2>1, <2>2, <2>3, <2>5, <2>6
  <1>9. QED
    BY <1>1, <1>2, <1>3, <1>4, <1>5, <1>6, <1>7, <1>8
       DEF TlsNext, ConstructLocal, ConstructPointer, GetLocal, GetPointerSlot

-----------------------------------------------------------------------------
(* The debugging aids.                                                       *)

\* Who is about to report on a lock has it, and nobody else as long as locks are
\* not shared.
DetectorInv ==
    /\ DetectorTypeOK /\ RecordsAgree /\ NeverReports
    /\ \A t \in Threads, l \in Locks :
          reports[t] \in {<<"acquired", l>>, <<"released", l>>} => entered[l][t] > 0
    /\ ~sharing => \A l \in Locks : \A t, u \in Threads :
                      entered[l][t] > 0 /\ entered[l][u] > 0 => t = u

LEMMA DetectorStart == DetectorInit => DetectorInv
  <1> SUFFICES ASSUME DetectorInit PROVE DetectorInv
    OBVIOUS
  <1> USE CallersAssumption, DetectorAssumption DEF DetectorInit, Nothing
  <1>1. enabled \in BOOLEAN /\ reported \in BOOLEAN /\ sharing \in BOOLEAN
    OBVIOUS
  <1>2. DetectorTypeOK
    BY <1>1 DEF DetectorTypeOK
  <1>3. RecordsAgree /\ NeverReports
    BY DEF RecordsAgree, NeverReports, Told
  <1>4. QED
    BY <1>2, <1>3 DEF DetectorInv

LEMMA DetectorKeeps == DetectorInv /\ [DetectorNext]_detectorVars => DetectorInv'
  <1> SUFFICES ASSUME DetectorInv, [DetectorNext]_detectorVars PROVE DetectorInv'
    OBVIOUS
  <1> USE CallersAssumption, DetectorAssumption
      DEF DetectorInv, DetectorTypeOK, RecordsAgree, NeverReports, Nothing
  <1>1. CASE UNCHANGED detectorVars
    BY <1>1 DEF detectorVars, Told
  <1>2. ASSUME NEW on \in BOOLEAN, Enable(on) PROVE DetectorInv'
    BY <1>2 DEF Enable, Told
  <1>3. ASSUME NEW t \in Threads, NEW l \in Locks, Acquire(t, l) PROVE DetectorInv'
    <2>1. /\ reports[t] = <<"nothing">> /\ entered[l][t] < MaxEntries
          /\ entered' = [entered EXCEPT ![l][t] = @ + 1]
          /\ reports' = IF enabled THEN [reports EXCEPT ![t] = <<"acquired", l>>] ELSE reports
          /\ UNCHANGED <<enabled, lockInfo, threadLocks, reported, sharing, toggles,
                         forgotten>>
      BY <1>3 DEF Acquire
    <2>2. ~sharing => \A u \in Threads : entered[l][u] > 0 => u = t
      BY <1>3 DEF Acquire, Holders
    <2>3. DetectorTypeOK'
      BY <2>1
    <2>4. \A k \in Locks, u \in Threads :
             entered'[k][u] = IF k = l /\ u = t THEN entered[l][t] + 1 ELSE entered[k][u]
      BY <2>1
    <2>5. ~sharing' => \A k \in Locks : \A u, v \in Threads :
                          entered'[k][u] > 0 /\ entered'[k][v] > 0 => u = v
      BY <2>1, <2>2, <2>4
    <2>6. \A u \in Threads, k \in Locks :
             reports'[u] \in {<<"acquired", k>>, <<"released", k>>} => entered'[k][u] > 0
      BY <2>1, <2>4
    <2>7. enabled => \A k \in Locks, u \in Threads : Told(u, k)' = Told(u, k)
      BY <2>1, <2>4 DEF Told
    <2>8. RecordsAgree' /\ NeverReports'
      BY <2>1, <2>7
    <2>9. QED
      BY <2>3, <2>5, <2>6, <2>8
  <1>4. ASSUME NEW t \in Threads, NEW l \in Locks, RecordAcquired(t, l) PROVE DetectorInv'
    <2>1. /\ reports[t] = <<"acquired", l>> /\ entered[l][t] > 0
          /\ threadLocks' = [threadLocks EXCEPT ![t] = @ \cup {l}]
          /\ lockInfo' = [lockInfo EXCEPT ![l] = t]
          /\ reports' = [reports EXCEPT ![t] = <<"nothing">>]
          /\ forgotten' = forgotten \ {l}
          /\ UNCHANGED <<enabled, entered, sharing, toggles>>
      BY <1>4 DEF RecordAcquired
    <2>2. NeverReports'
      BY <1>4, <2>1 DEF RecordAcquired, FindsDeadlock
    <2>3. DetectorTypeOK'
      <3>1. reported' \in BOOLEAN
        BY <1>4, Zenon DEF RecordAcquired
      <3>2. QED
        BY <2>1, <3>1
    <2>4. \A k \in Locks, u \in Threads :
             Told(u, k)' = IF k = l /\ u = t THEN entered[l][t] ELSE Told(u, k)
      BY <2>1 DEF Told
    <2>5. ~sharing => \A u \in Threads : u # t => ~(Told(u, l) > 0)
      BY <2>1 DEF Told
    <2>6. RecordsAgree'
      BY <2>1, <2>4, <2>5
    <2>7. QED
      BY <2>1, <2>2, <2>3, <2>6
  <1>5. ASSUME NEW t \in Threads, NEW l \in Locks, Unrecord(t, l) PROVE DetectorInv'
    <2>1. /\ reports[t] = <<"nothing">> /\ entered[l][t] > 0
          /\ UNCHANGED <<enabled, lockInfo, threadLocks, reported, sharing, toggles,
                         forgotten>>
      BY <1>5 DEF Unrecord
    <2>2. CASE enabled /\ reports' = [reports EXCEPT ![t] = <<"released", l>>]
                       /\ UNCHANGED entered
      <3>1. \A k \in Locks, u \in Threads : Told(u, k)' = Told(u, k)
        BY <2>1, <2>2 DEF Told
      <3>2. QED
        BY <2>1, <2>2, <3>1
    <2>3. CASE ~enabled /\ entered' = [entered EXCEPT ![l][t] = @ - 1]
                        /\ UNCHANGED reports
      <3>1. \A u \in Threads, k \in Locks :
               /\ entered'[k][u] = IF k = l /\ u = t THEN entered[l][t] - 1 ELSE entered[k][u]
               /\ reports[t] \notin {<<"acquired", k>>, <<"released", k>>}
        BY <2>1, <2>3
      <3>2. DetectorTypeOK'
        BY <2>1, <2>3
      <3>3. QED
        BY <2>1, <2>3, <3>1, <3>2
    <2>4. QED
      BY <1>5, <2>2, <2>3 DEF Unrecord
  <1>6. ASSUME NEW t \in Threads, NEW l \in Locks, RecordReleased(t, l) PROVE DetectorInv'
    <2>1. /\ reports[t] = <<"released", l>> /\ entered[l][t] > 0
          /\ lockInfo' = [lockInfo EXCEPT ![l] = NoThread]
          /\ threadLocks' = [threadLocks EXCEPT ![t] = @ \ {l}]
          /\ entered' = [entered EXCEPT ![l][t] = @ - 1]
          /\ forgotten' = IF entered[l][t] > 1 THEN forgotten \cup {l} ELSE forgotten \ {l}
          /\ reports' = [reports EXCEPT ![t] = <<"nothing">>]
          /\ UNCHANGED <<enabled, reported, sharing, toggles>>
      BY <1>6 DEF RecordReleased, LeaveLock
    <2>2. \A k \in Locks, u \in Threads :
             /\ entered'[k][u] = IF k = l /\ u = t THEN entered[l][t] - 1 ELSE entered[k][u]
             /\ Told(u, k)' = IF k = l /\ u = t THEN entered[l][t] - 1 ELSE Told(u, k)
      BY <2>1 DEF Told
    <2>3. DetectorTypeOK'
      BY <2>1
    <2>4. ~sharing => \A u \in Threads : u # t => ~(Told(u, l) > 0)
      BY <2>1 DEF Told
    <2>5. RecordsAgree'
      BY <2>1, <2>2, <2>4
    <2>6. QED
      BY <2>1, <2>2, <2>3, <2>5
  <1>7. QED
    BY <1>1, <1>2, <1>3, <1>4, <1>5, <1>6 DEF DetectorNext

\* A counter that does not run has not ended before it started.
StopwatchInv == StopwatchTypeOK /\ (~timing => endTime >= startTime)

LEMMA StopwatchStart == StopwatchInit => StopwatchInv
  <1> SUFFICES ASSUME StopwatchInit PROVE StopwatchInv
    OBVIOUS
  <1>1. timing \in BOOLEAN
    BY DEF StopwatchInit
  <1>2. QED
    BY <1>1, StopwatchAssumption DEF StopwatchInit, StopwatchInv, StopwatchTypeOK

LEMMA StopwatchKeeps == StopwatchInv /\ [StopwatchNext]_stopwatchVars => StopwatchInv'
  <1> SUFFICES ASSUME StopwatchInv, [StopwatchNext]_stopwatchVars PROVE StopwatchInv'
    OBVIOUS
  <1> USE StopwatchAssumption DEF StopwatchInv, StopwatchTypeOK
  <1>1. timing' \in BOOLEAN
    BY DEF StopwatchNext, stopwatchVars, Tick, StartTiming, StopTiming, ResetTiming
  <1>2. CASE UNCHANGED stopwatchVars
    BY <1>1, <1>2 DEF stopwatchVars
  <1>3. CASE Tick
    BY <1>1, <1>3 DEF Tick
  <1>4. CASE StartTiming
    BY <1>1, <1>4 DEF StartTiming
  <1>5. CASE StopTiming
    BY <1>1, <1>5 DEF StopTiming
  <1>6. CASE ResetTiming
    BY <1>1, <1>6 DEF ResetTiming
  <1>7. QED
    BY <1>2, <1>3, <1>4, <1>5, <1>6 DEF StopwatchNext

LEMMA StopwatchExact == StopwatchInv => NeverNegative
  BY DEF StopwatchInv, StopwatchTypeOK, NeverNegative, Elapsed
==============================================================================
