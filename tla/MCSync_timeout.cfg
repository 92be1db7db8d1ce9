\* Three threads at a barrier for two, one of whose timeouts expires late.
CONSTANTS
    Threads = {a, b, c}
    NoThread = NoThread
    Modulus = 16
    Count = 2
    Rounds = 2
    TimedCalls = TRUE
    Initial = 1
    MaxStep = 1
    MaxThrows = 1
    MaxDepth = 1
    MaxCount = 1
    MaxRelease = 1
    MaxGiven = 1
    Wrappers = {x}
    MaxHandles = 1
    ThreadObjects = {x}
    NoObject = NoObject
    MaxThreads = 1
    TlsObjects = {x}
    Indexes = {i}
    Values = {v}
    Default = Default
    Unset = Unset
    NoIndex = NoIndex
    MaxCells = 1
    Locks = {l}
    MaxSharers = 1
    MaxEntries = 1
    MaxToggles = 1
    MaxTicks = 1
SPECIFICATION Spec
CHECK_DEADLOCK FALSE
INVARIANT NeverHoldsCount
