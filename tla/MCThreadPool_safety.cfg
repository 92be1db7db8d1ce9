\* Two workers, two calling threads, three tasks.
CONSTANTS
    Workers = {w1, w2}
    Clients = {c1, c2}
    Tasks = {t1, t2, t3}
    NoTask = NoTask
    NoThread = NoThread
SPECIFICATION Spec
SYMMETRY Symmetry
\* A pool whose constructor threw is gone: nothing more can happen.
CHECK_DEADLOCK FALSE
INVARIANTS
    TypeOK
    TaskAccounting
    PendingMatchesQueue
    WaitedStopRunsAccepted
    PauseOvershoot
    ThrowsOnlyBeforeFirstWorker
    NoWakeupLost
PROPERTY
    ImplementsExecutor
