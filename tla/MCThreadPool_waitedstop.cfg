CONSTANTS
    Workers = {w1}
    Clients = {c1}
    Tasks = {t1, t2}
    NoTask = NoTask
    NoThread = NoThread
SPECIFICATION FairSpec
CHECK_DEADLOCK FALSE
PROPERTY WaitedStopReturns
