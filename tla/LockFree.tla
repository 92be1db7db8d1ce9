------------------------------- MODULE LockFree -------------------------------
(***************************************************************************)
(* The containers of atomic.hpp.  They share no state: a behaviour uses    *)
(* one of them, which is chosen at the start.                              *)
(***************************************************************************)
EXTENDS SPSCQueue, MPMCQueue, LockFreeStack

VARIABLE inUse

vars == <<inUse, spscVars, mpmcVars, stackVars>>

Containers == {"spsc", "mpmc", "stack"}

TypeOK == inUse \in Containers /\ SPSCTypeOK /\ MPMCTypeOK /\ StackTypeOK

Init == inUse \in Containers /\ SPSCInit /\ MPMCInit /\ StackInit

UseSPSC ==
    /\ inUse = "spsc"
    /\ SPSCNext
    /\ UNCHANGED <<inUse, mpmcVars, stackVars>>

UseMPMC ==
    /\ inUse = "mpmc"
    /\ MPMCNext
    /\ UNCHANGED <<inUse, spscVars, stackVars>>

UseStack ==
    /\ inUse = "stack"
    /\ StackNext
    /\ UNCHANGED <<inUse, spscVars, mpmcVars>>

Next == UseSPSC \/ UseMPMC \/ UseStack

Spec == Init /\ [][Next]_vars

-----------------------------------------------------------------------------
(* Properties of several containers.                                         *)

\* The containers own their plain data alone: no two threads are at one cell of
\* the MPMC queue, no node of the stack is linked twice or lost (atomic.hpp:240-257,
\* 290-380).
DataOwnedAlone == NoSharedCell /\ ListIsStack

\* Each container is a buffer that gives up what is put in once, the queues in
\* order (atomic.hpp:82-200, 205-265, 268-414).
ImplementsBuffer == SPSCImplementsQueue /\ MPMCImplementsQueue /\ StackImplementsBuffer
================================================================================
