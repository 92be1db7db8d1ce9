----------------------------- MODULE LockFreeStack -----------------------------
(***************************************************************************)
(* ezthread::LockFreeStack (atomic.hpp).  A node is named by the item it   *)
(* carries: Push allocates it and Pop never frees it, so no address comes  *)
(* back.  A step is one access to m_head or to the next field of a node    *)
(* that is on the stack.                                                   *)
(***************************************************************************)
EXTENDS Parties

VARIABLES
    top,        \* m_head, NoItem for the null pointer
    nextOf,     \* next, by node
    kpc,        \* where each thread is in Push or Pop
    node,       \* newNode of a producer
    seen,       \* oldHead of a producer, current of a consumer
    seenNext,   \* current->next, as a consumer has read it
    stack,      \* the items between top and the bottom
    kpushed,    \* the items that have been on the stack
    kreceived   \* the items each consumer has popped

stackVars == <<top, nextOf, kpc, node, seen, seenNext, stack, kpushed, kreceived>>

Threads == Producers \cup Consumers

StackTypeOK ==
    /\ top \in Items \cup {NoItem}
    /\ nextOf \in [Items -> Items \cup {NoItem}]
    /\ kpc \in [Threads -> {"idle", "link", "swap", "follow", "move"}]
    /\ node \in [Producers -> Items \cup {NoItem}]
    /\ seen \in [Threads -> Items \cup {NoItem}]
    /\ seenNext \in [Consumers -> Items \cup {NoItem}]
    /\ stack \in Seq(Items)
    /\ kpushed \subseteq Items
    /\ kreceived \in [Consumers -> SUBSET Items]

StackInit ==
    /\ top = NoItem
    /\ nextOf = [x \in Items |-> NoItem]
    /\ kpc = [t \in Threads |-> "idle"]
    /\ node = [p \in Producers |-> NoItem]
    /\ seen = [t \in Threads |-> NoItem]
    /\ seenNext = [c \in Consumers |-> NoItem]
    /\ stack = <<>> /\ kpushed = {}
    /\ kreceived = [c \in Consumers |-> {}]

\* new Node, and the first load of m_head.
StackPush(p, x) ==
    /\ kpc[p] = "idle"
    /\ x \notin kpushed /\ \A q \in Producers : node[q] # x
    /\ node' = [node EXCEPT ![p] = x]
    /\ seen' = [seen EXCEPT ![p] = top]
    /\ kpc' = [kpc EXCEPT ![p] = "link"]
    /\ UNCHANGED <<top, nextOf, seenNext, stack, kpushed, kreceived>>

Link(p) ==
    /\ kpc[p] = "link"
    /\ nextOf' = [nextOf EXCEPT ![node[p]] = seen[p]]
    /\ kpc' = [kpc EXCEPT ![p] = "swap"]
    /\ UNCHANGED <<top, node, seen, seenNext, stack, kpushed, kreceived>>

\* compare_exchange_weak succeeds.
PushSwap(p) ==
    /\ kpc[p] = "swap" /\ top = seen[p]
    /\ top' = node[p]
    /\ stack' = <<node[p]>> \o stack
    /\ kpushed' = kpushed \cup {node[p]}
    /\ node' = [node EXCEPT ![p] = NoItem]
    /\ kpc' = [kpc EXCEPT ![p] = "idle"]
    /\ UNCHANGED <<nextOf, seen, seenNext, kreceived>>

\* Faulty variant: the node is not linked again after the exchange failed.
SwapFailsNoRelink(t) ==
    /\ kpc[t] = "swap"
    /\ seen' = [seen EXCEPT ![t] = top]
    /\ UNCHANGED <<top, nextOf, kpc, node, seenNext, stack, kpushed, kreceived>>

\* It fails, spuriously or not, and loads m_head.
SwapFails(t) ==
    /\ kpc[t] = "swap"
    /\ seen' = [seen EXCEPT ![t] = top]
    /\ kpc' = [kpc EXCEPT ![t] = IF t \in Producers THEN "link"
                                 ELSE IF top = NoItem THEN "idle" ELSE "follow"]
    /\ UNCHANGED <<top, nextOf, node, seenNext, stack, kpushed, kreceived>>

\* The first load of m_head; an empty stack refuses.
StackPop(c) ==
    /\ kpc[c] = "idle" /\ top # NoItem
    /\ seen' = [seen EXCEPT ![c] = top]
    /\ kpc' = [kpc EXCEPT ![c] = "follow"]
    /\ UNCHANGED <<top, nextOf, node, seenNext, stack, kpushed, kreceived>>

\* current->next, of a node that another consumer may have taken meanwhile.
Follow(c) ==
    /\ kpc[c] = "follow"
    /\ seenNext' = [seenNext EXCEPT ![c] = nextOf[seen[c]]]
    /\ kpc' = [kpc EXCEPT ![c] = "swap"]
    /\ UNCHANGED <<top, nextOf, node, seen, stack, kpushed, kreceived>>

\* Faulty variant: m_head is stored, not exchanged.
PopSwapUnchecked(c) ==
    /\ kpc[c] = "swap" /\ stack # <<>>
    /\ top' = seenNext[c]
    /\ stack' = Tail(stack)
    /\ kpc' = [kpc EXCEPT ![c] = "move"]
    /\ UNCHANGED <<nextOf, node, seen, seenNext, kpushed, kreceived>>

PopSwap(c) ==
    /\ kpc[c] = "swap" /\ top = seen[c]
    /\ top' = seenNext[c]
    /\ stack' = Tail(stack)
    /\ kpc' = [kpc EXCEPT ![c] = "move"]
    /\ UNCHANGED <<nextOf, node, seen, seenNext, kpushed, kreceived>>

\* The data leaves the node; the node stays allocated.
MoveOut(c) ==
    /\ kpc[c] = "move"
    /\ kreceived' = [kreceived EXCEPT ![c] = @ \cup {seen[c]}]
    /\ kpc' = [kpc EXCEPT ![c] = "idle"]
    /\ UNCHANGED <<top, nextOf, node, seen, seenNext, stack, kpushed>>

StackNext ==
    \/ \E p \in Producers : (\E x \in Items : StackPush(p, x)) \/ Link(p) \/ PushSwap(p)
    \/ \E c \in Consumers : StackPop(c) \/ Follow(c) \/ PopSwap(c) \/ MoveOut(c)
    \/ \E t \in Threads : SwapFails(t)

StackSpec == StackInit /\ [][StackNext]_stackVars

-----------------------------------------------------------------------------
(* Properties.                                                               *)

\* The list in memory is the stack: m_head is its first node, each node's next
\* is the one below it, the last one's is null.
ListIsStack ==
    /\ top = IF stack = <<>> THEN NoItem ELSE Head(stack)
    /\ \A i \in DOMAIN stack :
          nextOf[stack[i]] = IF i = Len(stack) THEN NoItem ELSE stack[i + 1]

\* Last in, first out, each item once, to one consumer.
StackBuffer == INSTANCE TakeOnceBuffer WITH
    Fifo <- FALSE,
    Sizes <- Nat,
    contents <- stack,
    held <- [c \in Consumers |-> IF kpc[c] = "move" THEN seen[c] ELSE NoItem],
    received <- kreceived
StackImplementsBuffer == StackBuffer!Spec
================================================================================
