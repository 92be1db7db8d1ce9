\* Two calls at a time, of up to three chunks each, on two workers.
CONSTANTS
    Modulus = 16
    Workers = {w1, w2}
    Callers = {c1, c2}
    NoTask = NoTask
    Ranges <- MCRanges
    MaxThreads = 3
    SortMin = 4
    Grain = 2
    Initial <- MCInitial
    Key <- MCKey
SPECIFICATION FairSpec
\* A call on a stopped pool, or one nobody resumes, waits for ever.
CHECK_DEADLOCK FALSE
INVARIANTS
    TypeOK
    ResultIsSequential
    NoChunkOutlivesCall
PROPERTY
    CallReturns
