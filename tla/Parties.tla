-------------------------------- MODULE Parties --------------------------------
(* Who uses the containers of atomic.hpp, and what they put in.              *)
EXTENDS Naturals, Sequences

CONSTANTS
    Producers,  \* the threads that push
    Consumers,  \* the threads that pop
    Items,      \* what they push, each once if the push succeeds
    NoItem      \* a cell or a variable that holds none of them

ASSUME PartiesAssumption ==
    /\ Producers \cap Consumers = {}
    /\ NoItem \notin Items

\* The items of a log.
Logged(log) == {log[i] : i \in DOMAIN log}
================================================================================
