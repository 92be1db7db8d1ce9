----------------------------- MODULE TakeOnceBuffer -----------------------------
(***************************************************************************)
(* What a concurrent queue or stack promises: an item goes in at one end,  *)
(* comes out once, in order, and is delivered to the consumer that took    *)
(* it; the number of items inside stays in Sizes.                          *)
(***************************************************************************)
EXTENDS Naturals, Sequences

CONSTANTS Consumers, Items, NoItem,
          Fifo,   \* in at the back, or at the front
          Sizes   \* how many items may be inside

VARIABLES
    contents,  \* the items inside, the next one out first
    held,      \* the item each consumer has taken and not yet returned
    received   \* the items each consumer has returned

vars == <<contents, held, received>>

Init ==
    /\ contents = <<>>
    /\ held = [c \in Consumers |-> NoItem]
    /\ received = [c \in Consumers |-> {}]

Put(x) ==
    /\ Len(contents) + 1 \in Sizes
    /\ contents' = IF Fifo THEN Append(contents, x) ELSE <<x>> \o contents
    /\ UNCHANGED <<held, received>>

Take(c) ==
    /\ contents # <<>>
    /\ held[c] = NoItem
    /\ held' = [held EXCEPT ![c] = Head(contents)]
    /\ contents' = Tail(contents)
    /\ UNCHANGED received

Deliver(c) ==
    /\ held[c] # NoItem
    /\ received' = [received EXCEPT ![c] = @ \cup {held[c]}]
    /\ held' = [held EXCEPT ![c] = NoItem]
    /\ UNCHANGED contents

Next ==
    \/ \E x \in Items : Put(x)
    \/ \E c \in Consumers : Take(c) \/ Deliver(c)

Spec == Init /\ [][Next]_vars
================================================================================
