-------------------------------- MODULE Handle --------------------------------
(***************************************************************************)
(* How Mutex, Event and Semaphore own a handle of Windows: construction,   *)
(* OpenExisting, moves and destruction (mutex.cpp, event.cpp,              *)
(* semaphore.cpp).  A behaviour is about the objects of one class, used by *)
(* one thread.  Handles are numbered; 0 is the null handle.                *)
(***************************************************************************)
EXTENDS Naturals

CONSTANTS
    Wrappers,   \* places for objects of the class
    MaxHandles  \* bound: handles opened

ASSUME HandleAssumption == MaxHandles \in Nat

VARIABLES
    ownerClass,  \* which of the three classes
    alive,       \* the objects that exist
    handle,      \* m_handle of each
    opened,      \* the handles that are open
    named,       \* those of them that refer to the named object
    made,        \* how many handles there have been
    leaked       \* history: handles OpenExisting left without an owner

handleVars == <<ownerClass, alive, handle, opened, named, made, leaked>>

Handles == 1..MaxHandles

HandleTypeOK ==
    /\ ownerClass \in {"mutex", "event", "semaphore"}
    /\ alive \subseteq Wrappers
    /\ made \in 0..MaxHandles
    /\ handle \in [Wrappers -> 0..made]
    /\ opened \subseteq 1..made /\ named \subseteq opened /\ leaked \subseteq opened

HandleInit ==
    /\ ownerClass \in {"mutex", "event", "semaphore"}
    /\ alive = {} /\ opened = {} /\ named = {} /\ leaked = {} /\ made = 0
    /\ handle = [w \in Wrappers |-> 0]

-----------------------------------------------------------------------------

\* w comes to life with the handle h.
Born(w, h) ==
    /\ w \notin alive /\ h <= MaxHandles
    /\ alive' = alive \cup {w}
    /\ handle' = [handle EXCEPT ![w] = h]

\* The constructor makes an object of Windows, or opens the one with its name.
Construct(w) ==
    /\ Born(w, made + 1)
    /\ made' = made + 1
    /\ opened' = opened \cup {made'}
    /\ \/ named' = named \cup {made'}
       \/ UNCHANGED named
    /\ UNCHANGED <<ownerClass, leaked>>

\* OpenExisting of Mutex and Event opens the named object, then makes a new one
\* and overwrites its handle.
OpenOver(w) ==
    /\ named # {} /\ made + 2 <= MaxHandles
    /\ Born(w, made + 1)
    /\ made' = made + 2
    /\ opened' = opened \cup {made + 1, made + 2}
    /\ named' = named \cup {made + 1}
    /\ leaked' = leaked \cup {made + 2}
    /\ UNCHANGED ownerClass

OpenMutex(w) == ownerClass = "mutex" /\ OpenOver(w)

OpenEvent(w) == ownerClass = "event" /\ OpenOver(w)

\* Faulty variant: the handle is overwritten, as Mutex and Event do.
OpenSemaphoreOver(w) ==
    /\ ownerClass = "semaphore"
    /\ named # {} /\ made + 2 <= MaxHandles
    /\ Born(w, made + 1)
    /\ made' = made + 2
    /\ opened' = opened \cup {made + 1, made + 2}
    /\ named' = named \cup {made + 1}
    /\ UNCHANGED <<ownerClass, leaked>>

\* Semaphore closes the new handle before it overwrites it.
OpenSemaphore(w) ==
    /\ ownerClass = "semaphore"
    /\ named # {} /\ made + 2 <= MaxHandles
    /\ Born(w, made + 1)
    /\ made' = made + 2
    /\ opened' = opened \cup {made + 1}
    /\ named' = named \cup {made + 1}
    /\ UNCHANGED <<ownerClass, leaked>>

\* The constructor inside OpenExisting throws, and the handle that is open by
\* then belongs to nobody.
OpenThrows ==
    /\ named # {} /\ made < MaxHandles
    /\ made' = made + 1
    /\ opened' = opened \cup {made'}
    /\ named' = named \cup {made'}
    /\ leaked' = leaked \cup {made'}
    /\ UNCHANGED <<ownerClass, alive, handle>>

MoveConstruct(w, v) ==
    /\ w \notin alive /\ v \in alive
    /\ alive' = alive \cup {w}
    /\ handle' = [handle EXCEPT ![w] = handle[v], ![v] = 0]
    /\ UNCHANGED <<ownerClass, opened, named, made, leaked>>

\* What CloseHandle of w's handle leaves open.
CloseHandle(w) ==
    /\ opened' = opened \ {handle[w]}
    /\ named' = named \ {handle[w]}

\* Faulty variant: an object assigned to itself closes its handle and keeps it.
MoveAssignAnyway(w, v) ==
    /\ {w, v} \subseteq alive
    /\ CloseHandle(w)
    /\ handle' = [handle EXCEPT ![v] = 0, ![w] = handle[v]]
    /\ UNCHANGED <<ownerClass, alive, made, leaked>>

MoveAssign(w, v) ==
    /\ {w, v} \subseteq alive /\ w # v
    /\ CloseHandle(w)
    /\ handle' = [handle EXCEPT ![v] = 0, ![w] = handle[v]]
    /\ UNCHANGED <<ownerClass, alive, made, leaked>>

Destroy(w) ==
    /\ w \in alive
    /\ CloseHandle(w)
    /\ alive' = alive \ {w}
    /\ handle' = [handle EXCEPT ![w] = 0]
    /\ UNCHANGED <<ownerClass, made, leaked>>

\* What the three classes do alike, each in a file of its own.
Common(w) ==
    Construct(w) \/ Destroy(w) \/ \E v \in Wrappers : MoveConstruct(w, v) \/ MoveAssign(w, v)

MutexLife(w) == ownerClass = "mutex" /\ Common(w)

EventLife(w) == ownerClass = "event" /\ Common(w)

SemaphoreLife(w) == ownerClass = "semaphore" /\ Common(w)

HandleNext ==
    \/ \E w \in Wrappers :
          \/ MutexLife(w) \/ EventLife(w) \/ SemaphoreLife(w)
          \/ OpenMutex(w) \/ OpenEvent(w) \/ OpenSemaphore(w)
    \/ OpenThrows

HandleSpec == HandleInit /\ [][HandleNext]_handleVars

-----------------------------------------------------------------------------
(* Properties.                                                               *)

\* No handle is closed twice, used after it was closed or owned by two objects,
\* through moves, assignments to oneself and destruction in any order; and none
\* stays open without an owner, but for those OpenExisting leaves behind
\* (mutex.cpp:127, event.cpp:101).
HandlesOwned ==
    /\ \A w \in alive : handle[w] \in opened \cup {0}
    /\ \A w, v \in alive : handle[w] = handle[v] /\ handle[w] # 0 => w = v
    /\ opened = ({handle[w] : w \in alive} \ {0}) \cup leaked
    /\ \A w \in alive : handle[w] \notin leaked
================================================================================
