------------------------------- MODULE MPMCQueue -------------------------------
(***************************************************************************)
(* ezthread::MPMCQueue (atomic.hpp): a ring of cells, each with a sequence *)
(* number that says whose turn it is.  A step is one access to an atomic   *)
(* or to the data of a cell.  Positions do not wrap: size_t outlasts the   *)
(* pushes a behaviour makes, one per item.                                 *)
(***************************************************************************)
EXTENDS Parties, Integers

CONSTANT Capacity

\* The power of two the static_assert wants is what makes & (Capacity-1) a
\* remainder.
ASSUME CapacityAssumption == Capacity \in Nat \ {0}

VARIABLES
    head, tail,   \* m_head, m_tail
    sequence,     \* sequence, by cell
    data,         \* data, by cell
    mpc,          \* where each thread is in Push, Pop or Size
    pos,          \* its local variable, 0 between calls
    mitem,        \* the item it pushes
    mlog,         \* the items in the order in which the tail moved for them
    mreceived     \* the items each consumer has popped

mpmcVars == <<head, tail, sequence, data, mpc, pos, mitem, mlog, mreceived>>

Slots   == 0..(Capacity - 1)
Users   == Producers \cup Consumers
Slot(p) == p % Capacity

MPMCTypeOK ==
    /\ head \in Nat /\ tail \in Nat
    /\ sequence \in [Slots -> Nat]
    /\ data \in [Slots -> Items \cup {NoItem}]
    /\ mpc \in [Users -> {"idle", "load", "look", "claim", "access", "release", "size"}]
    /\ pos \in [Users -> Nat]
    /\ mitem \in [Producers -> Items \cup {NoItem}]
    /\ mlog \in Seq(Items)
    /\ mreceived \in [Consumers -> SUBSET Items]
    /\ head <= tail /\ tail <= head + Capacity /\ tail = Len(mlog)

MPMCInit ==
    /\ head = 0 /\ tail = 0
    /\ sequence = [i \in Slots |-> i]
    /\ data = [i \in Slots |-> NoItem]
    /\ mpc = [t \in Users |-> "idle"]
    /\ pos = [t \in Users |-> 0]
    /\ mitem = [p \in Producers |-> NoItem]
    /\ mlog = <<>>
    /\ mreceived = [c \in Consumers |-> {}]

-----------------------------------------------------------------------------
(* Steps that Push and Pop share.                                            *)

\* The index the thread competes for.
Front(t) == IF t \in Producers THEN tail ELSE head

\* The sequence number that says it is the thread's turn.
Turn(t) == IF t \in Producers THEN pos[t] ELSE pos[t] + 1

Load(t) ==
    /\ mpc[t] = "load"
    /\ pos' = [pos EXCEPT ![t] = Front(t)]
    /\ mpc' = [mpc EXCEPT ![t] = "look"]
    /\ UNCHANGED <<head, tail, sequence, data, mitem, mlog, mreceived>>

\* diff = 0: try to claim the cell; diff < 0: return false; diff > 0: the index
\* has moved on.
Look(t) ==
    /\ mpc[t] = "look"
    /\ LET seq  == sequence[Slot(pos[t])]
           next == IF seq = Turn(t) THEN "claim"
                   ELSE IF seq < Turn(t) THEN "idle" ELSE "load"
       IN  mpc' = [mpc EXCEPT ![t] = next]
    /\ mitem' = [p \in Producers |->
                   IF p = t /\ mpc'[t] = "idle" THEN NoItem ELSE mitem[p]]
    /\ pos' = [pos EXCEPT ![t] = IF mpc'[t] = "idle" THEN 0 ELSE @]
    /\ UNCHANGED <<head, tail, sequence, data, mlog, mreceived>>

\* compare_exchange_weak fails, spuriously or not, and loads the index.
ClaimFails(t) ==
    /\ mpc[t] = "claim"
    /\ pos' = [pos EXCEPT ![t] = Front(t)]
    /\ mpc' = [mpc EXCEPT ![t] = "look"]
    /\ UNCHANGED <<head, tail, sequence, data, mitem, mlog, mreceived>>

-----------------------------------------------------------------------------
(* Push.                                                                     *)

QueuePush(p, x) ==
    /\ mpc[p] = "idle"
    /\ x \notin Logged(mlog) /\ \A q \in Producers : mitem[q] # x
    /\ mitem' = [mitem EXCEPT ![p] = x]
    /\ mpc' = [mpc EXCEPT ![p] = "load"]
    /\ UNCHANGED <<head, tail, sequence, data, pos, mlog, mreceived>>

\* Faulty variant: the index is stored, not compared.
ClaimTailUnchecked(p) ==
    /\ mpc[p] = "claim"
    /\ tail' = pos[p] + 1
    /\ mlog' = Append(mlog, mitem[p])
    /\ mpc' = [mpc EXCEPT ![p] = "access"]
    /\ UNCHANGED <<head, sequence, data, pos, mitem, mreceived>>

\* Faulty variant: the cell is published with the claim, before the data.
ClaimTailPublishes(p) ==
    /\ mpc[p] = "claim" /\ tail = pos[p]
    /\ tail' = tail + 1
    /\ mlog' = Append(mlog, mitem[p])
    /\ sequence' = [sequence EXCEPT ![Slot(pos[p])] = pos[p] + 1]
    /\ mpc' = [mpc EXCEPT ![p] = "access"]
    /\ UNCHANGED <<head, data, pos, mitem, mreceived>>

\* compare_exchange_weak succeeds.
ClaimTail(p) ==
    /\ mpc[p] = "claim" /\ tail = pos[p]
    /\ tail' = tail + 1
    /\ mlog' = Append(mlog, mitem[p])
    /\ mpc' = [mpc EXCEPT ![p] = "access"]
    /\ UNCHANGED <<head, sequence, data, pos, mitem, mreceived>>

Write(p) ==
    /\ mpc[p] = "access"
    /\ data' = [data EXCEPT ![Slot(pos[p])] = mitem[p]]
    /\ mpc' = [mpc EXCEPT ![p] = "release"]
    /\ UNCHANGED <<head, tail, sequence, pos, mitem, mlog, mreceived>>

\* The item is there; Push returns true.
Publish(p) ==
    /\ mpc[p] = "release"
    /\ sequence' = [sequence EXCEPT ![Slot(pos[p])] = pos[p] + 1]
    /\ mpc' = [mpc EXCEPT ![p] = "idle"]
    /\ mitem' = [mitem EXCEPT ![p] = NoItem]
    /\ pos' = [pos EXCEPT ![p] = 0]
    /\ UNCHANGED <<head, tail, data, mlog, mreceived>>

-----------------------------------------------------------------------------
(* Pop.                                                                      *)

QueuePop(c) ==
    /\ mpc[c] = "idle"
    /\ mpc' = [mpc EXCEPT ![c] = "load"]
    /\ UNCHANGED <<head, tail, sequence, data, pos, mitem, mlog, mreceived>>

ClaimHead(c) ==
    /\ mpc[c] = "claim" /\ head = pos[c]
    /\ head' = head + 1
    /\ mpc' = [mpc EXCEPT ![c] = "access"]
    /\ UNCHANGED <<tail, sequence, data, pos, mitem, mlog, mreceived>>

Read(c) ==
    /\ mpc[c] = "access"
    /\ mreceived' = [mreceived EXCEPT ![c] = @ \cup {data[Slot(pos[c])]}]
    /\ mpc' = [mpc EXCEPT ![c] = "release"]
    /\ UNCHANGED <<head, tail, sequence, data, pos, mitem, mlog>>

\* Faulty variant: the cell is passed to the next pop, not to the next push.
RecycleEarly(c) ==
    /\ mpc[c] = "release"
    /\ sequence' = [sequence EXCEPT ![Slot(pos[c])] = pos[c] + 1]
    /\ mpc' = [mpc EXCEPT ![c] = "idle"]
    /\ pos' = [pos EXCEPT ![c] = 0]
    /\ UNCHANGED <<head, tail, data, mitem, mlog, mreceived>>

\* The cell is free for the push one round later; Pop returns true.
Recycle(c) ==
    /\ mpc[c] = "release"
    /\ sequence' = [sequence EXCEPT ![Slot(pos[c])] = pos[c] + Capacity]
    /\ mpc' = [mpc EXCEPT ![c] = "idle"]
    /\ pos' = [pos EXCEPT ![c] = 0]
    /\ UNCHANGED <<head, tail, data, mitem, mlog, mreceived>>

-----------------------------------------------------------------------------
(* Size.  Empty compares the same two loads, in an order C++ leaves open,    *)
(* and changes nothing.                                                      *)

\* Faulty variant: the tail is read first.
SizeTailFirst(t) ==
    /\ mpc[t] = "idle"
    /\ pos' = [pos EXCEPT ![t] = tail]
    /\ mpc' = [mpc EXCEPT ![t] = "size"]
    /\ UNCHANGED <<head, tail, sequence, data, mitem, mlog, mreceived>>

SizeHead(t) ==
    /\ mpc[t] = "idle"
    /\ pos' = [pos EXCEPT ![t] = head]
    /\ mpc' = [mpc EXCEPT ![t] = "size"]
    /\ UNCHANGED <<head, tail, sequence, data, mitem, mlog, mreceived>>

\* The tail is read later, and the answer is what it is ahead of the head.
SizeTail(t) ==
    /\ mpc[t] = "size"
    /\ mpc' = [mpc EXCEPT ![t] = "idle"]
    /\ pos' = [pos EXCEPT ![t] = 0]
    /\ UNCHANGED <<head, tail, sequence, data, mitem, mlog, mreceived>>

-----------------------------------------------------------------------------
MPMCNext ==
    \/ \E t \in Users : Load(t) \/ Look(t) \/ ClaimFails(t) \/ SizeHead(t) \/ SizeTail(t)
    \/ \E p \in Producers :
          (\E x \in Items : QueuePush(p, x)) \/ ClaimTail(p) \/ Write(p) \/ Publish(p)
    \/ \E c \in Consumers : QueuePop(c) \/ ClaimHead(c) \/ Read(c) \/ Recycle(c)

MPMCSpec == MPMCInit /\ [][MPMCNext]_mpmcVars

-----------------------------------------------------------------------------
(* Properties.                                                               *)

\* The threads between the claim of a cell and its release.
Busy(threads) == {t \in threads : mpc[t] \in {"access", "release"}}

\* The data of a cell is a plain object: no two threads are at one cell.
NoSharedCell ==
    \A t, u \in Busy(Users) : t # u => Slot(pos[t]) # Slot(pos[u])

\* Items leave in the order in which the tail moved for them, each once, to the
\* consumer that claimed it, and never more than Capacity are inside.
MPMCBuffer == INSTANCE TakeOnceBuffer WITH
    Fifo <- TRUE,
    Sizes <- 0..Capacity,
    contents <- SubSeq(mlog, head + 1, tail),
    held <- [c \in Consumers |-> IF mpc[c] = "access" THEN mlog[pos[c] + 1] ELSE NoItem],
    received <- mreceived
MPMCImplementsQueue == MPMCBuffer!Spec

\* A call that returns false.
Refused(t) == mpc[t] = "look" /\ mpc'[t] = "idle"

\* Push is refused only by a queue that is full or being popped, Pop only by one
\* that is empty or being pushed: the loops of the test end
\* (test_ezthread.cpp:703-713, 728, 739-748).
RefusalIsHonest ==
    [][/\ (\E p \in Producers : Refused(p)) /\ Busy(Consumers) = {}
             => tail - head = Capacity
       /\ (\E c \in Consumers : Refused(c)) /\ Busy(Producers) = {}
             => tail = head]_mpmcVars

\* The answer of Size counts every item that is inside when it is given: it may
\* be greater than Capacity, but tail - head does not wrap, because the head is
\* loaded first (atomic.hpp:388-393).
SizeCountsAll ==
    [][\A t \in Users : mpc[t] = "size" /\ mpc'[t] = "idle" =>
          tail - pos[t] >= tail - head]_mpmcVars

\* A call that comes back with nothing, or a number, tells the truth.
AnswersAreHonest == RefusalIsHonest /\ SizeCountsAll
================================================================================
