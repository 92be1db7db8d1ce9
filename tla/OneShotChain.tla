----------------------------- MODULE OneShotChain -----------------------------
(***************************************************************************)
(* What promises, futures and continuations amount to: cells that are      *)
(* filled once, and derived cells that are filled only after the cell they *)
(* were attached to, with its exception if it holds one.                   *)
(***************************************************************************)
CONSTANTS Roots, Derived, Values, Exceptions, Empty, NoCell

VARIABLES content, parent

vars == <<content, parent>>

Cells    == Roots \cup Derived
Outcomes == Values \cup Exceptions

Init ==
    /\ content = [c \in Cells |-> Empty]
    /\ parent = [d \in Derived |-> NoCell]

Attached(c) == c \in Derived => parent[c] # NoCell

Attach(d, c) ==
    /\ ~Attached(d) /\ Attached(c)
    /\ parent' = [parent EXCEPT ![d] = c]
    /\ UNCHANGED content

Fill(c, o) ==
    /\ content[c] = Empty
    /\ content' = [content EXCEPT ![c] = o]
    /\ UNCHANGED parent

\* A continuation runs on a value; it returns a value or throws.
Derive(d, o) ==
    /\ Attached(d)
    /\ LET p == content[parent[d]]
       IN  p # Empty /\ (p \in Exceptions => o = p)
    /\ Fill(d, o)

Next ==
    \/ \E d \in Derived, c \in Cells : Attach(d, c)
    \/ \E c \in Roots, o \in Outcomes : Fill(c, o)
    \/ \E d \in Derived, o \in Outcomes : Derive(d, o)

Spec == Init /\ [][Next]_vars
=============================================================================
