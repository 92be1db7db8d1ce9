------------------------------ MODULE SharedLock ------------------------------
(***************************************************************************)
(* RWLock (mutex.cpp), a slim reader-writer lock of Windows, and the waits *)
(* of ConditionVariable over it (condition.cpp): a thread gives the lock   *)
(* up in the mode it has, sleeps, and gets it back in the mode the flag    *)
(* of the call says.                                                       *)
(***************************************************************************)
EXTENDS Callers

VARIABLES
    readers,  \* the threads the lock is shared by
    writer,   \* the thread that has it to itself
    rpc,      \* where each thread is, and what it takes itself to have
    rmode,    \* what it had when it went to sleep
    rflag     \* the mode in which it asked to get the lock back

sharedVars == <<readers, writer, rpc, rmode, rflag>>

SharedTypeOK ==
    /\ readers \subseteq Threads
    /\ writer \in Threads \cup {NoThread}
    /\ rpc \in [Threads -> {"out", "toRead", "toWrite", "reading", "writing",
                            "asleep", "woken"}]
    /\ rmode \in [Threads -> {"reading", "writing"}]
    /\ rflag \in [Threads -> {"exclusive", "shared"}]

SharedInit ==
    /\ readers = {} /\ writer = NoThread
    /\ rpc = [t \in Threads |-> "out"]
    /\ rmode = [t \in Threads |-> "writing"]
    /\ rflag = [t \in Threads |-> "exclusive"]

-----------------------------------------------------------------------------
(* The lock.  It is not recursive: who has it does not ask for it.           *)

\* Faulty variant: writers keep readers out, but not the other way round.
WritableOverReaders == writer = NoThread

Readable == writer = NoThread

Writable == writer = NoThread /\ readers = {}

AskShared(t) ==
    /\ rpc[t] = "out"
    /\ rpc' = [rpc EXCEPT ![t] = "toRead"]
    /\ UNCHANGED <<readers, writer, rmode, rflag>>

AskExclusive(t) ==
    /\ rpc[t] = "out"
    /\ rpc' = [rpc EXCEPT ![t] = "toWrite"]
    /\ UNCHANGED <<readers, writer, rmode, rflag>>

\* LockRead ends, or TryLockRead succeeds.
GetShared(t) ==
    /\ rpc[t] \in {"out", "toRead"} /\ Readable
    /\ readers' = readers \cup {t}
    /\ rpc' = [rpc EXCEPT ![t] = "reading"]
    /\ UNCHANGED <<writer, rmode, rflag>>

\* LockWrite ends, or TryLockWrite succeeds.
GetExclusive(t) ==
    /\ rpc[t] \in {"out", "toWrite"} /\ Writable
    /\ writer' = t
    /\ rpc' = [rpc EXCEPT ![t] = "writing"]
    /\ UNCHANGED <<readers, rmode, rflag>>

UnlockRead(t) ==
    /\ rpc[t] = "reading"
    /\ readers' = readers \ {t}
    /\ rpc' = [rpc EXCEPT ![t] = "out"]
    /\ UNCHANGED <<writer, rmode, rflag>>

UnlockWrite(t) ==
    /\ rpc[t] = "writing"
    /\ writer' = NoThread
    /\ rpc' = [rpc EXCEPT ![t] = "out"]
    /\ UNCHANGED <<readers, rmode, rflag>>

-----------------------------------------------------------------------------
(* The condition variable.                                                   *)

\* Faulty variant: the flags for the two modes are swapped.
FlagSwapped(exclusive) == IF exclusive THEN "shared" ELSE "exclusive"

\* What Wait hands to SleepConditionVariableSRW.
Flag(exclusive) == IF exclusive THEN "exclusive" ELSE "shared"

\* Callers say which mode they have.
SleepOnLock(t) ==
    /\ rpc[t] \in {"reading", "writing"}
    /\ rmode' = [rmode EXCEPT ![t] = rpc[t]]
    /\ rflag' = [rflag EXCEPT ![t] = Flag(rpc[t] = "writing")]
    /\ rpc' = [rpc EXCEPT ![t] = "asleep"]
    /\ readers' = readers \ {t}
    /\ writer' = IF writer = t THEN NoThread ELSE writer

\* WaitFor sleeps with the timeout INFINITE, whatever its caller asked for.  A
\* sleeper thus wakes when it is notified, or unprompted: no step of its own.
TimedSleepOnLock(t) == SleepOnLock(t)

WakeOneOnLock ==
    /\ \E t \in Threads : rpc[t] = "asleep" /\ rpc' = [rpc EXCEPT ![t] = "woken"]
    /\ UNCHANGED <<readers, writer, rmode, rflag>>

WakeAllOnLock ==
    /\ rpc' = NotifyAll(rpc)
    /\ UNCHANGED <<readers, writer, rmode, rflag>>

\* Wait returns with the lock; its caller goes on as it was before.
GetBack(t) ==
    /\ rpc[t] = "woken"
    /\ \/ /\ rflag[t] = "shared" /\ Readable
          /\ readers' = readers \cup {t} /\ UNCHANGED writer
       \/ /\ rflag[t] = "exclusive" /\ Writable
          /\ writer' = t /\ UNCHANGED readers
    /\ rpc' = [rpc EXCEPT ![t] = rmode[t]]
    /\ UNCHANGED <<rmode, rflag>>

SharedNext ==
    \/ \E t \in Threads :
          \/ AskShared(t) \/ AskExclusive(t) \/ GetShared(t) \/ GetExclusive(t)
          \/ UnlockRead(t) \/ UnlockWrite(t)
          \/ SleepOnLock(t) \/ TimedSleepOnLock(t) \/ GetBack(t)
    \/ WakeOneOnLock \/ WakeAllOnLock

SharedSpec == SharedInit /\ [][SharedNext]_sharedVars

-----------------------------------------------------------------------------
(* Properties.                                                               *)

\* A writer is alone, and a thread has the lock in the mode it takes itself to
\* have it in, before a wait and after it (condition.cpp:37-57).
WriterAlone ==
    /\ \A t \in Threads : rpc[t] = "reading" <=> t \in readers
    /\ \A t \in Threads : rpc[t] = "writing" <=> writer = t
    /\ writer # NoThread => readers = {}
=============================================================================
