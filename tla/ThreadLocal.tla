------------------------------ MODULE ThreadLocal ------------------------------
(***************************************************************************)
(* ThreadLocal<T> and its specialization for pointers (tls.cpp), over the  *)
(* slots of Windows: an object owns an index, at which each thread has a   *)
(* slot, which points to a cell on the heap once the thread has called     *)
(* Get.  A behaviour uses one of the two classes.  Cells are numbered as   *)
(* they are allocated; 0 is the null pointer.  A thread uses the           *)
(* references it got from an object as long as both live.                  *)
(***************************************************************************)
EXTENDS Callers

CONSTANTS
    TlsObjects,   \* the ThreadLocal objects
    Indexes,      \* the indexes of Windows, used again when they are freed
    Values,       \* what threads store
    Default,      \* T(), or the null pointer
    Unset,        \* for: the thread has no value
    NoIndex,      \* TLS_OUT_OF_INDEXES
    MaxCells      \* bound: cells allocated

ASSUME ThreadLocalAssumption ==
    /\ MaxCells \in Nat
    /\ NoIndex \notin Indexes
    /\ Default \notin Values /\ Unset \notin Values \cup {Default}

VARIABLES
    pointers,  \* whether this is the class for pointers
    tlsIndex,  \* m_tlsIndex of each object
    slot,      \* the slots of each index
    cell,      \* the contents of the cells
    cells,     \* how many have been allocated
    deleted,   \* those that were deleted again
    orphans,   \* those in no slot of which a thread got a reference
    stored     \* history: what each thread last put in each object

tlsVars == <<pointers, tlsIndex, slot, cell, cells, deleted, orphans, stored>>

Cells == 1..MaxCells

TlsTypeOK ==
    /\ pointers \in BOOLEAN
    /\ tlsIndex \in [TlsObjects -> Indexes \cup {NoIndex}]
    /\ cells \in 0..MaxCells
    /\ slot \in [Indexes -> [Threads -> 0..cells]]
    /\ cell \in [Cells -> Values \cup {Default}]
    /\ deleted \subseteq 1..cells
    /\ orphans \in [TlsObjects -> [Threads -> SUBSET (1..cells)]]
    /\ stored \in [TlsObjects -> [Threads -> Values \cup {Default, Unset}]]

Empty == [t \in Threads |-> 0]

TlsInit ==
    /\ pointers \in BOOLEAN
    /\ tlsIndex = [o \in TlsObjects |-> NoIndex]
    /\ slot = [i \in Indexes |-> Empty]
    /\ cell = [n \in Cells |-> Default]
    /\ cells = 0 /\ deleted = {}
    /\ orphans = [o \in TlsObjects |-> [t \in Threads |-> {}]]
    /\ stored = [o \in TlsObjects |-> [t \in Threads |-> Unset]]

-----------------------------------------------------------------------------

\* TlsAlloc gives an index nobody has, with every slot null.
Alloc(o) ==
    /\ tlsIndex[o] = NoIndex
    /\ \E i \in Indexes \ {tlsIndex[p] : p \in TlsObjects} :
          /\ tlsIndex' = [tlsIndex EXCEPT ![o] = i]
          /\ slot' = [slot EXCEPT ![i] = Empty]
    /\ UNCHANGED <<pointers, cell, cells, deleted, orphans, stored>>

ConstructLocal(o) == ~pointers /\ Alloc(o)

ConstructPointer(o) == pointers /\ Alloc(o)

\* TlsFree.  The cells stay where they are: nothing deletes them.
Free(o) ==
    /\ tlsIndex[o] # NoIndex
    /\ tlsIndex' = [tlsIndex EXCEPT ![o] = NoIndex]
    /\ orphans' = [orphans EXCEPT ![o] = [t \in Threads |-> {}]]
    /\ stored' = [stored EXCEPT ![o] = [t \in Threads |-> Unset]]
    /\ UNCHANGED <<pointers, slot, cell, cells, deleted>>

\* GetPointer.
Slot(o, t) == slot[tlsIndex[o]][t]

\* What the const forms and HasValue find.  For Unset, and a null pointer, the
\* former throw and the latter is false.
Found(o, t) == IF Slot(o, t) = 0 THEN Unset ELSE cell[Slot(o, t)]

\* Faulty variant: the new cell does not get into the slot.
SetPointerForgets(o, t) == UNCHANGED slot

\* SetPointer succeeds.
SetPointer(o, t) == slot' = [slot EXCEPT ![tlsIndex[o]][t] = cells + 1]

\* What the thread has put in the object once it has got a new cell of it.
Puts(o, t) == stored' = [stored EXCEPT ![o][t] = IF @ = Unset THEN Default ELSE @]

\* The first Get of a thread allocates.
GetFirst(o, t) ==
    /\ tlsIndex[o] # NoIndex /\ cells < MaxCells
    /\ Slot(o, t) = 0
    /\ cells' = cells + 1
    /\ SetPointer(o, t)
    /\ Puts(o, t)
    /\ UNCHANGED <<pointers, tlsIndex, cell, deleted, orphans>>

GetLocal(o, t) == ~pointers /\ GetFirst(o, t)

\* Get, and operator*, of the class for pointers.
GetPointerSlot(o, t) == pointers /\ GetFirst(o, t)

\* TlsSetValue fails: the cell is deleted, and Get throws.
SetFails(o, t) ==
    /\ ~pointers
    /\ tlsIndex[o] # NoIndex /\ cells < MaxCells
    /\ Slot(o, t) = 0
    /\ cells' = cells + 1
    /\ deleted' = deleted \cup {cells'}
    /\ UNCHANGED <<pointers, tlsIndex, slot, cell, orphans, stored>>

\* The class for pointers does not look whether TlsSetValue fails.  Get returns
\* the null pointer it has just stored; operator* returns a reference to a cell
\* that is in no slot.
SetUnchecked(o, t) ==
    /\ pointers
    /\ tlsIndex[o] # NoIndex /\ cells < MaxCells
    /\ Slot(o, t) = 0
    /\ cells' = cells + 1
    /\ \/ UNCHANGED <<orphans, stored>>
       \/ orphans' = [orphans EXCEPT ![o][t] = @ \cup {cells'}] /\ Puts(o, t)
    /\ UNCHANGED <<pointers, tlsIndex, slot, cell, deleted>>

\* The cells a thread can store in: its own of the object, and those of earlier
\* calls of operator* that did not get into the slot.
Reachable(o, t) == ({Slot(o, t)} \ {0}) \cup orphans[o][t]

\* A store through what Get or operator* returned, now or in an earlier call.
StoreValue(o, t, v) ==
    /\ tlsIndex[o] # NoIndex
    /\ \E n \in Reachable(o, t) : cell' = [cell EXCEPT ![n] = v]
    /\ stored' = [stored EXCEPT ![o][t] = v]
    /\ UNCHANGED <<pointers, tlsIndex, slot, cells, deleted, orphans>>

\* A thread ends, and another starts in its place.  DestructorCallback would
\* delete its values, but it is registered nowhere.
Replace(t) ==
    /\ slot' = [i \in Indexes |-> [slot[i] EXCEPT ![t] = 0]]
    /\ orphans' = [o \in TlsObjects |-> [orphans[o] EXCEPT ![t] = {}]]
    /\ stored' = [o \in TlsObjects |-> [stored[o] EXCEPT ![t] = Unset]]
    /\ UNCHANGED <<pointers, tlsIndex, cell, cells, deleted>>

TlsNext ==
    \/ \E o \in TlsObjects : ConstructLocal(o) \/ ConstructPointer(o) \/ Free(o)
    \/ \E o \in TlsObjects, t \in Threads :
          \/ GetLocal(o, t) \/ GetPointerSlot(o, t)
          \/ SetFails(o, t) \/ SetUnchecked(o, t)
          \/ \E v \in Values : StoreValue(o, t, v)
    \/ \E t \in Threads : Replace(t)

TlsSpec == TlsInit /\ [][TlsNext]_tlsVars

-----------------------------------------------------------------------------
(* Properties.                                                               *)

\* A thread finds in an object what it put there last, and nothing if it put
\* nothing there, unless it uses the class for pointers and operator* has hidden
\* from it that TlsSetValue failed (tls.cpp:151).  Even then nobody else can
\* store in the cell it finds: not another thread, a thread it took the place of,
\* or a user of an object that had the index before; and no cell is deleted that
\* somebody can still reach.
OwnValueOnly ==
    \A o \in TlsObjects, t \in Threads : tlsIndex[o] # NoIndex =>
        /\ Found(o, t) = stored[o][t] \/ (pointers /\ orphans[o][t] # {})
        /\ Reachable(o, t) \cap deleted = {}
        /\ \A p \in TlsObjects, u \in Threads :
              tlsIndex[p] # NoIndex /\ (p # o \/ u # t) =>
                  Reachable(o, t) \cap Reachable(p, u) = {}
================================================================================
