\* One Timer, started once.
CONSTANTS
    Timers = {a}
    NoTimer = NoTimer
    MaxStarts = 1
    MaxOverlap = 1
    Observers = {}
    Works = {x}
    NoWork = NoWork
    MaxSubmits = 0
    MaxFutures = 0
    Limits = {0}
    TickModulus = 1
    MaxTime = 0
SPECIFICATION Spec
\* A timer that is done stays as it is.
INVARIANT DoneOneShotNotRunning
