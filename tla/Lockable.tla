------------------------------- MODULE Lockable -------------------------------
(***************************************************************************)
(* The locks with one owner: CriticalSection and Mutex (mutex.cpp), which  *)
(* wrap objects of Windows, and SpinLock (atomic.hpp), an atomic flag.  A  *)
(* behaviour uses one lock, of a class chosen at the start.  A thread may  *)
(* end while it owns the lock.                                             *)
(***************************************************************************)
EXTENDS Callers

CONSTANT MaxDepth  \* bound: how often a thread locks a lock it owns

ASSUME LockableAssumption == MaxDepth \in Nat \ {0}

VARIABLES
    lockClass,  \* which of the three classes
    holder,     \* the owner
    depth,      \* how often the owner has locked it
    abandoned,  \* the last owner of the Mutex ended and left it locked
    inherited,  \* the owner was told so, by an exception of Lock or TryLock
    kpc,        \* where each thread is in Lock
    ktimed,     \* whether it passed a finite timeout
    guards      \* history: the calls each thread saw succeed and has not undone

lockableVars == <<lockClass, holder, depth, abandoned, inherited, kpc, ktimed, guards>>

LockableTypeOK ==
    /\ lockClass \in {"critical", "mutex", "spin"}
    /\ holder \in Threads \cup {NoThread}
    /\ depth \in 0..MaxDepth
    /\ abandoned \in BOOLEAN /\ inherited \in BOOLEAN
    /\ kpc \in [Threads -> {"out", "waiting", "ended"}]
    /\ ktimed \in [Threads -> BOOLEAN]
    /\ guards \in [Threads -> 0..MaxDepth]

\* The constructor of Mutex may make it with the caller as its owner.
LockableInit ==
    /\ lockClass \in {"critical", "mutex", "spin"}
    /\ holder \in IF lockClass = "mutex" THEN Threads \cup {NoThread} ELSE {NoThread}
    /\ depth = IF holder = NoThread THEN 0 ELSE 1
    /\ abandoned = FALSE /\ inherited = FALSE
    /\ kpc = [t \in Threads |-> "out"]
    /\ ktimed = [t \in Threads |-> FALSE]
    /\ guards = [t \in Threads |-> IF t = holder THEN 1 ELSE 0]

-----------------------------------------------------------------------------
(* Who may have the lock.                                                    *)

\* The owner of a critical section may enter it again.
CriticalFree(t) == lockClass = "critical" /\ holder \in {t, NoThread}

\* WaitForSingleObject succeeds for the owner of a Mutex as well.
MutexFree(t) == lockClass = "mutex" /\ holder \in {t, NoThread}

\* test_and_set fails for whoever set the flag, too.
SpinFree == lockClass = "spin" /\ holder = NoThread

LockFreeFor(t) == CriticalFree(t) \/ MutexFree(t) \/ SpinFree

-----------------------------------------------------------------------------
(* The operations.                                                           *)

\* Faulty variant: an abandoned Mutex is taken for a locked one.
TakeUntold(t) ==
    /\ LockFreeFor(t) /\ depth < MaxDepth
    /\ holder' = t
    /\ depth' = depth + 1
    /\ abandoned' = FALSE
    /\ inherited' = inherited
    /\ guards' = IF abandoned THEN guards ELSE [guards EXCEPT ![t] = @ + 1]

\* The wait is over.  On WAIT_ABANDONED the Mutex is the caller's, but Lock and
\* TryLock throw, and a lock_guard over them comes to no unlock.
Take(t) ==
    /\ LockFreeFor(t) /\ depth < MaxDepth
    /\ holder' = t
    /\ depth' = depth + 1
    /\ abandoned' = FALSE
    /\ inherited' = (inherited \/ abandoned)
    /\ guards' = IF abandoned THEN guards ELSE [guards EXCEPT ![t] = @ + 1]

AskForLock(t, withTimeout) ==
    /\ kpc[t] = "out" /\ (withTimeout => lockClass = "mutex")
    /\ kpc' = [kpc EXCEPT ![t] = "waiting"]
    /\ ktimed' = [ktimed EXCEPT ![t] = withTimeout]
    /\ UNCHANGED <<lockClass, holder, depth, abandoned, inherited, guards>>

GetLock(t) ==
    /\ kpc[t] = "waiting"
    /\ Take(t)
    /\ kpc' = [kpc EXCEPT ![t] = "out"]
    /\ UNCHANGED <<lockClass, ktimed>>

\* Mutex::Lock throws, with WAIT_TIMEOUT.
LockTimesOut(t) ==
    /\ kpc[t] = "waiting" /\ ktimed[t]
    /\ kpc' = [kpc EXCEPT ![t] = "out"]
    /\ UNCHANGED <<lockClass, holder, depth, abandoned, inherited, ktimed, guards>>

\* A TryLock that fails changes nothing.
TryLock(t) ==
    /\ kpc[t] = "out"
    /\ Take(t)
    /\ UNCHANGED <<lockClass, kpc, ktimed>>

\* Faulty variant: the owner gives up every level at once.
UnlockAll(t) ==
    /\ kpc[t] = "out" /\ holder = t
    /\ depth' = 0
    /\ guards' = [guards EXCEPT ![t] = IF @ = 0 THEN 0 ELSE @ - 1]
    /\ holder' = NoThread
    /\ inherited' = FALSE
    /\ UNCHANGED <<lockClass, abandoned, kpc, ktimed>>

\* ReleaseMutex fails for others than the owner, and Unlock throws; the other
\* classes are unlocked by their owner only.  An owner that caught the exception
\* may unlock for it.
UnlockOnce(t) ==
    /\ kpc[t] = "out" /\ holder = t
    /\ depth' = depth - 1
    /\ guards' = [guards EXCEPT ![t] = IF @ = 0 THEN 0 ELSE @ - 1]
    /\ holder' = IF depth' = 0 THEN NoThread ELSE t
    /\ inherited' = (inherited /\ depth' # 0)
    /\ UNCHANGED <<lockClass, abandoned, kpc, ktimed>>

\* Windows releases the Mutexes of a thread that ends, and no other lock.
EndThread(t) ==
    /\ kpc[t] = "out"
    /\ kpc' = [kpc EXCEPT ![t] = "ended"]
    /\ IF holder = t /\ lockClass = "mutex"
       THEN /\ holder' = NoThread /\ depth' = 0
            /\ abandoned' = TRUE /\ inherited' = FALSE
            /\ guards' = [guards EXCEPT ![t] = 0]
       ELSE UNCHANGED <<holder, depth, abandoned, inherited, guards>>
    /\ UNCHANGED <<lockClass, ktimed>>

LockableNext == \E t \in Threads :
    \/ \E withTimeout \in BOOLEAN : AskForLock(t, withTimeout)
    \/ GetLock(t) \/ LockTimesOut(t) \/ TryLock(t) \/ UnlockOnce(t) \/ EndThread(t)

LockableSpec == LockableInit /\ [][LockableNext]_lockableVars

-----------------------------------------------------------------------------
(* Properties.                                                               *)

\* Whoever was told that it has the lock has it, through recursive locking,
\* timeouts and owners that end; and the owner holds it once more than it was
\* told exactly if it took it over abandoned (mutex.cpp:86, 99).
HoldersKnow ==
    /\ \A t \in Threads : guards[t] > 0 => holder = t
    /\ holder # NoThread => depth = guards[holder] + (IF inherited THEN 1 ELSE 0)
================================================================================
