\* Two Timers that are started three times in all and moved at will, whose
\* callbacks overlap; two Works submitted twice in all, with two threads waiting;
\* groups of up to three futures, with a clock that passes the width of a DWORD.
CONSTANTS
    Timers = {a, b}
    NoTimer = NoTimer
    MaxStarts = 3
    MaxOverlap = 2
    Observers = {v1, v2}
    Works = {x, y}
    NoWork = NoWork
    MaxSubmits = 2
    MaxFutures = 3
    Limits = {0, 1, 3}
    TickModulus = 4
    MaxTime = 6
SPECIFICATION FairSpec
INVARIANTS
    TypeOK
    ContextsOutliveCallbacks
    NotRunningMeansQuiet
    CompleteMeansFinished
    NoObserverForgotten
    VerdictsAreHonest
PROPERTY
    StopTerminates
