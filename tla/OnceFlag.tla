------------------------------- MODULE OnceFlag -------------------------------
(***************************************************************************)
(* ezthread::OnceFlag and CallOnce (sync.hpp): double-checked locking of a *)
(* function that may throw.  The function does not call the same flag.     *)
(***************************************************************************)
EXTENDS Callers

CONSTANT MaxThrows  \* bound: how often the function throws

ASSUME OnceAssumption == MaxThrows \in Nat

VARIABLES
    called,   \* m_called
    owner,    \* the thread that holds m_mutex
    opc,      \* where each thread is in CallOnce
    runs,     \* how often the function has run to its end
    throws,   \* how often it has thrown
    served    \* the threads whose call returned normally

onceVars == <<called, owner, opc, runs, throws, served>>

OnceTypeOK ==
    /\ called \in BOOLEAN
    /\ owner \in Threads \cup {NoThread}
    /\ opc \in [Threads -> {"out", "lock", "run", "store", "unlock"}]
    /\ runs \in Nat
    /\ throws \in 0..MaxThrows
    /\ served \subseteq Threads

OnceInit ==
    /\ called = FALSE
    /\ owner = NoThread
    /\ opc = [t \in Threads |-> "out"]
    /\ runs = 0
    /\ throws = 0
    /\ served = {}

\* The load before the mutex.
FastTest(t) ==
    /\ opc[t] = "out" /\ t \notin served
    /\ IF called
       THEN served' = served \cup {t} /\ UNCHANGED opc
       ELSE opc' = [opc EXCEPT ![t] = "lock"] /\ UNCHANGED served
    /\ UNCHANGED <<called, owner, runs, throws>>

\* Faulty variant: no second load.
LockUnchecked(t) ==
    /\ opc[t] = "lock" /\ owner = NoThread
    /\ owner' = t
    /\ opc' = [opc EXCEPT ![t] = "run"]
    /\ UNCHANGED <<called, runs, throws, served>>

\* The mutex, and the load under it.
Lock(t) ==
    /\ opc[t] = "lock" /\ owner = NoThread
    /\ owner' = t
    /\ opc' = [opc EXCEPT ![t] = IF called THEN "unlock" ELSE "run"]
    /\ UNCHANGED <<called, runs, throws, served>>

Run(t) ==
    /\ opc[t] = "run"
    /\ opc' = [opc EXCEPT ![t] = "store"]
    /\ runs' = runs + 1
    /\ UNCHANGED <<called, owner, throws, served>>

\* The exception releases the mutex and leaves the flag down: the next caller
\* tries again.
Throw(t) ==
    /\ opc[t] = "run" /\ throws < MaxThrows
    /\ opc' = [opc EXCEPT ![t] = "out"]
    /\ owner' = NoThread
    /\ throws' = throws + 1
    /\ UNCHANGED <<called, runs, served>>

Store(t) ==
    /\ opc[t] = "store"
    /\ called' = TRUE
    /\ opc' = [opc EXCEPT ![t] = "unlock"]
    /\ UNCHANGED <<owner, runs, throws, served>>

Unlock(t) ==
    /\ opc[t] = "unlock"
    /\ owner' = NoThread
    /\ opc' = [opc EXCEPT ![t] = "out"]
    /\ served' = served \cup {t}
    /\ UNCHANGED <<called, runs, throws>>

OnceStep(t) == FastTest(t) \/ Lock(t) \/ Run(t) \/ Throw(t) \/ Store(t) \/ Unlock(t)

OnceNext == \E t \in Threads : OnceStep(t)

OnceSpec == OnceInit /\ [][OnceNext]_onceVars

-----------------------------------------------------------------------------
(* Properties.                                                               *)

\* However the callers race and however often the function threw before, it
\* runs to its end once, and no call returns normally before that.
RunsOnce == runs <= 1 /\ (served # {} => runs = 1)
=============================================================================
