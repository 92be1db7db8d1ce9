------------------------------- MODULE SPSCQueue -------------------------------
(***************************************************************************)
(* ezthread::SPSCQueue (atomic.hpp): one producer and one consumer around  *)
(* a ring that keeps one cell empty.  A step is one access to the other    *)
(* side's index, or to a cell, or the store of the own index.              *)
(***************************************************************************)
EXTENDS Parties

CONSTANTS
    Ring,      \* Capacity
    Producer,  \* the one thread that pushes
    Consumer   \* the one that pops

ASSUME RingAssumption ==
    /\ Ring \in Nat \ {0}
    /\ Producer \in Producers /\ Consumer \in Consumers

VARIABLES
    readPos, writePos,  \* m_readPos, m_writePos
    buffer,             \* m_buffer
    ppc, qpc,           \* where the producer is in Push, the consumer in Pop
    pitem,              \* the item it pushes
    slog,               \* the items in the order of the stores of m_writePos
    staken,             \* how many of them Pop has committed itself to
    sreceived           \* the items popped

spscVars == <<readPos, writePos, buffer, ppc, qpc, pitem, slog, staken, sreceived>>

RingSlots == 0..(Ring - 1)

SPSCTypeOK ==
    /\ readPos \in RingSlots /\ writePos \in RingSlots
    /\ buffer \in [RingSlots -> Items \cup {NoItem}]
    /\ ppc \in {"idle", "access", "store"} /\ qpc \in {"idle", "access", "store"}
    /\ pitem \in Items \cup {NoItem}
    /\ slog \in Seq(Items)
    /\ staken \in 0..Len(slog)
    /\ sreceived \in [Consumers -> SUBSET Items]

SPSCInit ==
    /\ readPos = 0 /\ writePos = 0
    /\ buffer = [i \in RingSlots |-> NoItem]
    /\ ppc = "idle" /\ qpc = "idle"
    /\ pitem = NoItem
    /\ slog = <<>> /\ staken = 0
    /\ sreceived = [c \in Consumers |-> {}]

\* Faulty variant: no mask.
StepOff(i) == i + 1

StepOn(i) == (i + 1) % Ring

\* Faulty variant: the consumer's index is not tested.
NeverFull == FALSE

Full == StepOn(writePos) = readPos

\* The test of the consumer's index; a full ring refuses the item.
TryPush(x) ==
    /\ ppc = "idle"
    /\ x \notin Logged(slog)
    /\ ~Full
    /\ pitem' = x
    /\ ppc' = "access"
    /\ UNCHANGED <<readPos, writePos, buffer, qpc, slog, staken, sreceived>>

PushItem ==
    /\ ppc = "access"
    /\ buffer' = [buffer EXCEPT ![writePos] = pitem]
    /\ ppc' = "store"
    /\ UNCHANGED <<readPos, writePos, qpc, pitem, slog, staken, sreceived>>

PushStore ==
    /\ ppc = "store"
    /\ writePos' = StepOn(writePos)
    /\ slog' = Append(slog, pitem)
    /\ pitem' = NoItem
    /\ ppc' = "idle"
    /\ UNCHANGED <<readPos, buffer, qpc, staken, sreceived>>

\* The test of the producer's index; an empty ring refuses.
TryPop ==
    /\ qpc = "idle"
    /\ readPos # writePos
    /\ staken' = staken + 1
    /\ qpc' = "access"
    /\ UNCHANGED <<readPos, writePos, buffer, ppc, pitem, slog, sreceived>>

PopItem ==
    /\ qpc = "access"
    /\ sreceived' = [sreceived EXCEPT ![Consumer] = @ \cup {buffer[readPos]}]
    /\ qpc' = "store"
    /\ UNCHANGED <<readPos, writePos, buffer, ppc, pitem, slog, staken>>

PopStore ==
    /\ qpc = "store"
    /\ readPos' = StepOn(readPos)
    /\ qpc' = "idle"
    /\ UNCHANGED <<writePos, buffer, ppc, pitem, slog, staken, sreceived>>

SPSCNext ==
    \/ \E x \in Items : TryPush(x)
    \/ PushItem \/ PushStore \/ TryPop \/ PopItem \/ PopStore

SPSCSpec == SPSCInit /\ [][SPSCNext]_spscVars

-----------------------------------------------------------------------------
(* Properties.                                                               *)

\* First in, first out, each item once, and at most Ring - 1 of them inside.
SPSCBuffer == INSTANCE TakeOnceBuffer WITH
    Fifo <- TRUE,
    Sizes <- 0..(Ring - 1),
    contents <- SubSeq(slog, staken + 1, Len(slog)),
    held <- [c \in Consumers |->
               IF c = Consumer /\ qpc = "access" THEN slog[staken] ELSE NoItem],
    received <- sreceived
SPSCImplementsQueue == SPSCBuffer!Spec
================================================================================
