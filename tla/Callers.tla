-------------------------------- MODULE Callers --------------------------------
(***************************************************************************)
(* What the primitives of sync.hpp share: the threads that call them and   *)
(* the wait set of a condition variable.  A waiting thread is "asleep"     *)
(* until it is notified, or wakes spuriously; it is "woken" until it has   *)
(* the mutex again.                                                        *)
(***************************************************************************)
EXTENDS Integers, FiniteSets

CONSTANTS
    Threads,    \* the calling threads
    NoThread,   \* the owner of a free lock
    Modulus     \* 2^w, for the width w of size_t

ASSUME CallersAssumption ==
    /\ IsFiniteSet(Threads)
    /\ NoThread \notin Threads
    /\ Modulus \in Nat \ {0}

\* NotifyAll on the condition variable the threads at pc "asleep" wait for.
NotifyAll(pc) == [t \in Threads |-> IF pc[t] = "asleep" THEN "woken" ELSE pc[t]]
================================================================================
