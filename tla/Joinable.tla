------------------------------- MODULE Joinable -------------------------------
(***************************************************************************)
(* Thread (core.hpp, core.cpp): one thread owns Thread objects, starts     *)
(* threads with them, joins, detaches, moves and destroys them.  Threads   *)
(* are numbered as they are started, and a handle is that number, or 0.    *)
(***************************************************************************)
EXTENDS Naturals, FiniteSets

CONSTANTS
    ThreadObjects,  \* the Thread objects
    NoObject,       \* none of them
    MaxThreads      \* bound: threads started

ASSUME JoinableAssumption == NoObject \notin ThreadObjects /\ MaxThreads \in Nat

VARIABLES
    thandle,   \* m_handle of each object; 0 before its life and after it, too
    begun,     \* how many threads have been started, or failed to start
    trun,      \* where each of them is
    closure,   \* what it runs: the copy of the function on the heap
    jpc,       \* the call the owner waits in
    jobj,      \* the object it waits for
    jsrc,      \* the object whose thread it assigns to it
    joined,    \* history: the threads a wait has ended for
    detached   \* history: the threads let go by Detach

joinableVars == <<thandle, begun, trun, closure, jpc, jobj, jsrc, joined, detached>>

ThreadNumbers == 1..MaxThreads

JoinableTypeOK ==
    /\ begun \in 0..MaxThreads
    /\ thandle \in [ThreadObjects -> 0..begun]
    /\ trun \in [ThreadNumbers -> {"none", "running", "ended"}]
    /\ closure \in [ThreadNumbers -> {"none", "live", "deleted"}]
    /\ jpc \in {"idle", "join", "tryjoin", "assign", "cleanup"}
    /\ jobj \in ThreadObjects \cup {NoObject} /\ jsrc \in ThreadObjects \cup {NoObject}
    /\ joined \subseteq 1..begun /\ detached \subseteq 1..begun

JoinableInit ==
    /\ thandle = [o \in ThreadObjects |-> 0]
    /\ begun = 0
    /\ trun = [k \in ThreadNumbers |-> "none"]
    /\ closure = [k \in ThreadNumbers |-> "none"]
    /\ jpc = "idle" /\ jobj = NoObject /\ jsrc = NoObject
    /\ joined = {} /\ detached = {}

-----------------------------------------------------------------------------
(* The thread: its function returns or throws, and either way its closure is *)
(* deleted before it ends.                                                   *)

StartThread(o) ==
    /\ jpc = "idle" /\ thandle[o] = 0 /\ begun < MaxThreads
    /\ begun' = begun + 1
    /\ thandle' = [thandle EXCEPT ![o] = begun']
    /\ trun' = [trun EXCEPT ![begun'] = "running"]
    /\ closure' = [closure EXCEPT ![begun'] = "live"]
    /\ UNCHANGED <<jpc, jobj, jsrc, joined, detached>>

\* CreateThread fails: the constructor deletes the closure and throws.
StartFails ==
    /\ jpc = "idle" /\ begun < MaxThreads
    /\ begun' = begun + 1
    /\ closure' = [closure EXCEPT ![begun'] = "deleted"]
    /\ UNCHANGED <<thandle, trun, jpc, jobj, jsrc, joined, detached>>

ThreadEnds(k) ==
    /\ trun[k] = "running"
    /\ trun' = [trun EXCEPT ![k] = "ended"]
    /\ closure' = [closure EXCEPT ![k] = "deleted"]
    /\ UNCHANGED <<thandle, begun, jpc, jobj, jsrc, joined, detached>>

-----------------------------------------------------------------------------
(* The owner.  Join, TryJoin and Detach of an object without a thread throw. *)

WaitForThread(call, o) ==
    /\ jpc = "idle" /\ thandle[o] # 0
    /\ jpc' = call /\ jobj' = o
    /\ UNCHANGED <<thandle, begun, trun, closure, joined, detached>>

Join(o) == WaitForThread("join", o) /\ jsrc' = NoObject

TryJoin(o) == WaitForThread("tryjoin", o) /\ jsrc' = NoObject

\* The destructor joins.
DestroyThread(o) == WaitForThread("cleanup", o) /\ jsrc' = NoObject

\* Faulty variant: the thread o had is forgotten, not joined.
AssignThreadUnjoined(o, p) ==
    /\ jpc = "idle" /\ o # p
    /\ thandle' = [thandle EXCEPT ![o] = thandle[p], ![p] = 0]
    /\ UNCHANGED <<begun, trun, closure, jpc, jobj, jsrc, joined, detached>>

\* A move assignment joins the thread o has, and takes over p's when it is over;
\* a move construction is one to an object without a thread.
AssignThread(o, p) ==
    /\ jpc = "idle" /\ o # p
    /\ IF thandle[o] = 0
       THEN /\ thandle' = [thandle EXCEPT ![o] = thandle[p], ![p] = 0]
            /\ UNCHANGED <<begun, trun, closure, jpc, jobj, jsrc, joined, detached>>
       ELSE WaitForThread("assign", o) /\ jsrc' = p

\* Faulty variant: the wait of TryJoin that timed out closes the handle, too.
TryJoinLetsGo ==
    /\ jpc = "tryjoin"
    /\ jpc' = "idle" /\ jobj' = NoObject
    /\ thandle' = [thandle EXCEPT ![jobj] = 0]
    /\ UNCHANGED <<begun, trun, closure, jsrc, joined, detached>>

\* TryJoin answers false, and the object keeps its thread.
TryJoinTimesOut ==
    /\ jpc = "tryjoin"
    /\ jpc' = "idle" /\ jobj' = NoObject
    /\ UNCHANGED <<thandle, begun, trun, closure, jsrc, joined, detached>>

WaitEnds ==
    /\ jpc # "idle" /\ trun[thandle[jobj]] = "ended"
    /\ joined' = joined \cup {thandle[jobj]}
    /\ thandle' = IF jpc = "assign"
                  THEN [thandle EXCEPT ![jobj] = thandle[jsrc], ![jsrc] = 0]
                  ELSE [thandle EXCEPT ![jobj] = 0]
    /\ jpc' = "idle" /\ jobj' = NoObject /\ jsrc' = NoObject
    /\ UNCHANGED <<begun, trun, closure, detached>>

Detach(o) ==
    /\ jpc = "idle" /\ thandle[o] # 0
    /\ detached' = detached \cup {thandle[o]}
    /\ thandle' = [thandle EXCEPT ![o] = 0]
    /\ UNCHANGED <<begun, trun, closure, jpc, jobj, jsrc, joined>>

JoinableNext ==
    \/ \E o \in ThreadObjects :
          \/ StartThread(o) \/ Join(o) \/ TryJoin(o) \/ DestroyThread(o) \/ Detach(o)
          \/ \E p \in ThreadObjects : AssignThread(o, p)
    \/ StartFails \/ TryJoinTimesOut \/ WaitEnds
    \/ \E k \in ThreadNumbers : ThreadEnds(k)

JoinableSpec == JoinableInit /\ [][JoinableNext]_joinableVars

-----------------------------------------------------------------------------
(* Properties.                                                               *)

\* A thread that runs belongs to exactly one object, unless it was detached: no
\* move, failed TryJoin or destructor loses it.  A thread a wait ended for is
\* over, and the closure lives exactly as long as its thread (core.cpp:39-99).
NoThreadLost ==
    /\ \A k \in ThreadNumbers : trun[k] = "running" /\ k \notin detached =>
          \E o \in ThreadObjects : thandle[o] = k
    /\ \A o, p \in ThreadObjects : thandle[o] = thandle[p] /\ thandle[o] # 0 => o = p
    /\ \A k \in joined : trun[k] = "ended"
    /\ \A k \in ThreadNumbers : closure[k] = "live" <=> trun[k] = "running"
================================================================================
