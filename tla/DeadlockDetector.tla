--------------------------- MODULE DeadlockDetector ---------------------------
(***************************************************************************)
(* DeadlockDetector (debug.cpp): threads tell it which locks they have     *)
(* acquired, and before they release one.  A thread reads m_enabled before *)
(* it takes m_mutex; what follows is one critical section.                 *)
(***************************************************************************)
EXTENDS Callers

CONSTANTS
    Locks,      \* the locks
    MaxSharers, \* bound: threads that share a lock
    MaxEntries, \* bound: times a thread has a recursive lock
    MaxToggles  \* bound: calls of Enable

ASSUME DetectorAssumption ==
    MaxSharers \in Nat /\ MaxEntries \in Nat /\ MaxToggles \in Nat

VARIABLES
    enabled,      \* m_enabled
    lockInfo,     \* m_locks: the recorded owner of each lock
    threadLocks,  \* m_threadLocks; no use of it depends on order or repetition
    reported,     \* whether m_callback was ever called
    entered,      \* how often each thread has each lock
    reports,      \* what each thread is about to record, and of which lock
    sharing,      \* whether threads share locks
    toggles,      \* history: the calls of Enable
    forgotten     \* history: the locks released, but not for the last time

detectorVars ==
    <<enabled, lockInfo, threadLocks, reported, entered, reports, sharing, toggles,
      forgotten>>

Nothing == <<"nothing">>

DetectorTypeOK ==
    /\ enabled \in BOOLEAN /\ reported \in BOOLEAN /\ sharing \in BOOLEAN
    /\ lockInfo \in [Locks -> Threads \cup {NoThread}]
    /\ threadLocks \in [Threads -> SUBSET Locks]
    /\ entered \in [Locks -> [Threads -> 0..MaxEntries]]
    /\ reports \in [Threads -> {Nothing} \cup ({"acquired", "released"} \X Locks)]
    /\ toggles \in 0..MaxToggles /\ forgotten \subseteq Locks

DetectorInit ==
    /\ enabled \in BOOLEAN /\ sharing \in BOOLEAN
    /\ reported = FALSE /\ toggles = 0 /\ forgotten = {}
    /\ lockInfo = [l \in Locks |-> NoThread]
    /\ threadLocks = [t \in Threads |-> {}]
    /\ entered = [l \in Locks |-> [t \in Threads |-> 0]]
    /\ reports = [t \in Threads |-> Nothing]

-----------------------------------------------------------------------------

Enable(on) ==
    /\ toggles < MaxToggles /\ on # enabled
    /\ enabled' = on
    /\ toggles' = toggles + 1
    /\ UNCHANGED <<lockInfo, threadLocks, reported, entered, reports, sharing, forgotten>>

\* CheckForDeadlock: someone else is recorded as the owner, and has a lock that
\* the caller has, too.
FindsDeadlock(l, t, info, lists) ==
    /\ info[l] \notin {t, NoThread}
    /\ lists[info[l]] \cap lists[t] # {}

Holders(l) == {t \in Threads : entered[l][t] > 0}

\* The thread gets the lock, which it may have already, and enters
\* OnLockAcquired.
Acquire(t, l) ==
    /\ reports[t] = Nothing /\ entered[l][t] < MaxEntries
    /\ sharing \/ Holders(l) \subseteq {t}
    /\ Cardinality(Holders(l) \cup {t}) <= MaxSharers
    /\ entered' = [entered EXCEPT ![l][t] = @ + 1]
    /\ reports' = IF enabled THEN [reports EXCEPT ![t] = <<"acquired", l>>] ELSE reports
    /\ UNCHANGED <<enabled, lockInfo, threadLocks, reported, sharing, toggles, forgotten>>

\* Faulty variant, and what a detector could do: it searches before it records.
RecordAcquiredLate(t, l) ==
    /\ reports[t] = <<"acquired", l>>
    /\ threadLocks' = [threadLocks EXCEPT ![t] = @ \cup {l}]
    /\ reported' = (reported \/ FindsDeadlock(l, t, lockInfo, threadLocks'))
    /\ lockInfo' = [lockInfo EXCEPT ![l] = t]
    /\ reports' = [reports EXCEPT ![t] = Nothing]
    /\ forgotten' = forgotten \ {l}
    /\ UNCHANGED <<enabled, entered, sharing, toggles>>

\* OnLockAcquired records the caller as the owner, and then searches.
RecordAcquired(t, l) ==
    /\ reports[t] = <<"acquired", l>>
    /\ threadLocks' = [threadLocks EXCEPT ![t] = @ \cup {l}]
    /\ lockInfo' = [lockInfo EXCEPT ![l] = t]
    /\ reported' = (reported \/ FindsDeadlock(l, t, lockInfo', threadLocks'))
    /\ reports' = [reports EXCEPT ![t] = Nothing]
    /\ forgotten' = forgotten \ {l}
    /\ UNCHANGED <<enabled, entered, sharing, toggles>>

\* The thread enters OnLockReleased; disabled, it unlocks at once.
Unrecord(t, l) ==
    /\ reports[t] = Nothing /\ entered[l][t] > 0
    /\ IF enabled
       THEN reports' = [reports EXCEPT ![t] = <<"released", l>>] /\ UNCHANGED entered
       ELSE entered' = [entered EXCEPT ![l][t] = @ - 1] /\ UNCHANGED reports
    /\ UNCHANGED <<enabled, lockInfo, threadLocks, reported, sharing, toggles, forgotten>>

\* The thread unlocks, and has the lock still if it was recursive.
LeaveLock(t, l) ==
    /\ entered' = [entered EXCEPT ![l][t] = @ - 1]
    /\ forgotten' = IF entered[l][t] > 1 THEN forgotten \cup {l} ELSE forgotten \ {l}

\* Faulty variant: the record of the lock outlives its entry in the list.
RecordReleasedHalf(t, l) ==
    /\ reports[t] = <<"released", l>>
    /\ threadLocks' = [threadLocks EXCEPT ![t] = @ \ {l}]
    /\ LeaveLock(t, l)
    /\ reports' = [reports EXCEPT ![t] = Nothing]
    /\ UNCHANGED <<enabled, lockInfo, reported, sharing, toggles>>

\* OnLockReleased forgets the record of the lock, whoever is in it, and every
\* entry of the caller's list, whether or not it is the last release; then the
\* thread unlocks.
RecordReleased(t, l) ==
    /\ reports[t] = <<"released", l>>
    /\ lockInfo' = [lockInfo EXCEPT ![l] = NoThread]
    /\ threadLocks' = [threadLocks EXCEPT ![t] = @ \ {l}]
    /\ LeaveLock(t, l)
    /\ reports' = [reports EXCEPT ![t] = Nothing]
    /\ UNCHANGED <<enabled, reported, sharing, toggles>>

DetectorNext ==
    \/ \E on \in BOOLEAN : Enable(on)
    \/ \E t \in Threads, l \in Locks :
          \/ Acquire(t, l) \/ RecordAcquired(t, l)
          \/ Unrecord(t, l) \/ RecordReleased(t, l)

DetectorSpec == DetectorInit /\ [][DetectorNext]_detectorVars

-----------------------------------------------------------------------------
(* Properties.                                                               *)

\* How many of a thread's acquisitions of a lock the detector has been told of.
Told(t, l) == entered[l][t] - (IF reports[t] = <<"acquired", l>> THEN 1 ELSE 0)

\* The recorded owner of a lock has it in its list.  As long as no lock is
\* shared and Enable was not called in between, nobody is recorded who has not
\* the lock; and who has told the detector of a lock is recorded until it
\* releases it, for the first time only: of a recursive lock the record is then
\* lost, though the thread still has it (debug.cpp:28-75).
RecordsAgree ==
    /\ \A l \in Locks : lockInfo[l] # NoThread => l \in threadLocks[lockInfo[l]]
    /\ ~sharing /\ enabled /\ toggles = 0 =>
          \A l \in Locks, t \in Threads :
             (lockInfo[l] = t) <=> (Told(t, l) > 0 /\ l \notin forgotten)

\* The detector reports nothing, whatever the threads do: when CheckForDeadlock
\* looks, the recorded owner is the caller itself (debug.cpp:48-51, 80).
NeverReports == ~reported
================================================================================
