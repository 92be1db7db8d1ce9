\* A timed wait on a condition variable that may wake unprompted.
CONSTANTS
    Roots = {p}
    Derived = {d1, d2}
    Setters = {s1, s2}
    Waiters = {w1}
    Values = {v1}
    Exceptions = {e1}
    Empty = Empty
    NoCell = NoCell
    SpuriousWakeups = TRUE
SPECIFICATION Spec
\* Each thread makes one call.
CHECK_DEADLOCK FALSE
INVARIANT TimedTrueMeansReady
