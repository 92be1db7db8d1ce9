--------------------------------- MODULE Sync ---------------------------------
(***************************************************************************)
(* The primitives of sync.hpp, and the classes that wrap one object of     *)
(* Windows or one atomic each.  They share no state and call nothing of    *)
(* each other, so a behaviour uses one of them, which is chosen at the     *)
(* start.                                                                  *)
(***************************************************************************)
EXTENDS Barrier, Latch, OnceFlag, Lockable, SharedLock, Signal, Handle, Joinable,
        ThreadLocal, DeadlockDetector, Stopwatch

VARIABLE inUse

vars == <<inUse, barrierVars, latchVars, onceVars, lockableVars, sharedVars, signalVars,
          handleVars, joinableVars, tlsVars, detectorVars, stopwatchVars>>

Parts == {"barrier", "latch", "once", "lock", "rwlock", "signal", "handle", "thread",
          "local", "detector", "stopwatch"}

TypeOK ==
    /\ inUse \in Parts
    /\ BarrierTypeOK /\ LatchTypeOK /\ OnceTypeOK
    /\ LockableTypeOK /\ SharedTypeOK /\ SignalTypeOK
    /\ HandleTypeOK /\ JoinableTypeOK /\ TlsTypeOK
    /\ DetectorTypeOK /\ StopwatchTypeOK

\* The parts that can start in several states start in one unless they are in use.
Init ==
    /\ inUse \in Parts
    /\ BarrierInit /\ LatchInit /\ OnceInit /\ SharedInit /\ JoinableInit /\ StopwatchInit
    /\ LockableInit /\ (inUse # "lock" => lockClass = "spin")
    /\ SignalInit /\ (inUse # "signal" => signalClass = "auto" /\ signals = 0)
    /\ HandleInit /\ (inUse # "handle" => ownerClass = "mutex")
    /\ TlsInit /\ (inUse # "local" => pointers)
    /\ DetectorInit /\ (inUse # "detector" => enabled /\ sharing)

\* The other parts keep their state.
Use(part) ==
    /\ inUse = part /\ UNCHANGED inUse
    /\ IF part # "barrier" THEN UNCHANGED barrierVars ELSE TRUE
    /\ IF part # "latch" THEN UNCHANGED latchVars ELSE TRUE
    /\ IF part # "once" THEN UNCHANGED onceVars ELSE TRUE
    /\ IF part # "lock" THEN UNCHANGED lockableVars ELSE TRUE
    /\ IF part # "rwlock" THEN UNCHANGED sharedVars ELSE TRUE
    /\ IF part # "signal" THEN UNCHANGED signalVars ELSE TRUE
    /\ IF part # "handle" THEN UNCHANGED handleVars ELSE TRUE
    /\ IF part # "thread" THEN UNCHANGED joinableVars ELSE TRUE
    /\ IF part # "local" THEN UNCHANGED tlsVars ELSE TRUE
    /\ IF part # "detector" THEN UNCHANGED detectorVars ELSE TRUE
    /\ IF part # "stopwatch" THEN UNCHANGED stopwatchVars ELSE TRUE

Next ==
    \/ Use("barrier") /\ BarrierNext
    \/ Use("latch") /\ LatchNext
    \/ Use("once") /\ OnceNext
    \/ Use("lock") /\ LockableNext
    \/ Use("rwlock") /\ SharedNext
    \/ Use("signal") /\ SignalNext
    \/ Use("handle") /\ HandleNext
    \/ Use("thread") /\ JoinableNext
    \/ Use("local") /\ TlsNext
    \/ Use("detector") /\ DetectorNext
    \/ Use("stopwatch") /\ StopwatchNext

Spec == Init /\ [][Next]_vars

-----------------------------------------------------------------------------
(* Properties of several parts.                                              *)

\* Nobody sleeps in a generation of a barrier that has ended, nor at an open
\* latch: the step that opens wakes all (sync.cpp:23-29, 65-77).
NobodyLeftAsleep == NoSleeperLeftBehind /\ NoSleeperAtOpenLatch

\* Nobody passes a latch before its count is zero, or a flag before its function
\* has returned, once (sync.cpp:79-95, sync.hpp:62-74).
NobodyPassesEarly == PassedMeansOpen /\ RunsOnce

\* Locks exclude: each thread has what it was told it has, of a lock with one
\* owner and of a reader-writer lock (mutex.cpp, atomic.hpp:55-80, condition.cpp).
LocksExclude == HoldersKnow /\ WriterAlone

\* The debugging aids keep true records: the locks recorded are locks held, those
\* entered twice and released once left out, though no deadlock is ever found in
\* them; and times are not negative.
DebugRecordsTrue == RecordsAgree /\ NeverReports /\ NeverNegative
================================================================================
