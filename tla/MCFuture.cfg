\* A promise two threads try to satisfy, a waiter, a chain (or a fork) of
\* two continuations, and condition variables that may wake unprompted.
CONSTANTS
    Roots = {p}
    Derived = {d1, d2}
    Setters = {s1, s2}
    Waiters = {w1}
    Values = {v1}
    Exceptions = {e1}
    Empty = Empty
    NoCell = NoCell
    SpuriousWakeups = TRUE
SPECIFICATION FairSpec
\* Each thread makes one call.
CHECK_DEADLOCK FALSE
INVARIANTS
    TypeOK
    OutcomesAreHonest
    NoSleeperForgotten
PROPERTIES
    ImplementsChain
    SatisfiedReachesAll
