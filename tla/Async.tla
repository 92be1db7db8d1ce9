--------------------------------- MODULE Async ---------------------------------
(***************************************************************************)
(* The parts of async.hpp: two objects that wrap the thread pool of        *)
(* Windows, and the waits for groups of futures.  They share no state: a   *)
(* behaviour uses one of them.                                             *)
(***************************************************************************)
EXTENDS Timer, Work, WaitGroup

VARIABLE inUse

vars == <<inUse, timerVars, workVars, groupVars>>

Parts == {"timer", "work", "group"}

TypeOK == inUse \in Parts /\ TimerTypeOK /\ WorkTypeOK /\ GroupTypeOK

Init == inUse \in Parts /\ TimerInit /\ WorkInit /\ GroupInit

UseTimer == inUse = "timer" /\ TimerNext /\ UNCHANGED <<inUse, workVars, groupVars>>

UseWork == inUse = "work" /\ WorkNext /\ UNCHANGED <<inUse, timerVars, groupVars>>

UseGroup == inUse = "group" /\ GroupNext /\ UNCHANGED <<inUse, timerVars, workVars>>

Next == UseTimer \/ UseWork \/ UseGroup

Spec == Init /\ [][Next]_vars

\* The owner goes on with a call it has begun, and callbacks come to an end.
\* Nothing makes the owner begin one, or a timer fire.
FairSpec ==
    /\ Spec
    /\ WF_vars(UseTimer /\ TimerOwner)
    /\ \A k \in Contexts : WF_vars(UseTimer /\ TimerCallback(k))

-----------------------------------------------------------------------------
(* A property of both objects.                                               *)

\* No callback of a Timer or a Work finds its context freed by Stop or Cancel:
\* they wait first (async.cpp:72-85, 172-185).
ContextsOutliveCallbacks == ContextOutlivesCallbacks /\ WorkContextOutlivesCallback
================================================================================
