\* Two workers, two calling threads, two tasks, with fairness.
CONSTANTS
    Workers = {w1, w2}
    Clients = {c1, c2}
    Tasks = {t1, t2}
    NoTask = NoTask
    NoThread = NoThread
SPECIFICATION FairSpec
CHECK_DEADLOCK FALSE
PROPERTIES
    QueuedTaskServed
    UnwaitedStopReturns
