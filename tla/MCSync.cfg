\* Four threads at a barrier for three, twice each, with and without timeouts; at
\* a latch of three; at a flag whose function may throw twice; at each kind of
\* lock, event and semaphore.  Three wrappers of a handle, three Thread objects,
\* two thread-local objects at two indexes.
CONSTANTS
    Threads = {a, b, c, d}
    NoThread = NoThread
    Modulus = 16
    Count = 3
    Rounds = 2
    TimedCalls = TRUE
    Initial = 3
    MaxStep = 2
    MaxThrows = 2
    MaxDepth = 2
    MaxCount = 2
    MaxRelease = 2
    MaxGiven = 4
    Wrappers = {x, y, z}
    MaxHandles = 4
    ThreadObjects = {x, y, z}
    NoObject = NoObject
    MaxThreads = 3
    TlsObjects = {x, y}
    Indexes = {i, j}
    Values = {v}
    Default = Default
    Unset = Unset
    NoIndex = NoIndex
    MaxCells = 3
    Locks = {l, m}
    MaxSharers = 2
    MaxEntries = 2
    MaxToggles = 1
    MaxTicks = 6
SPECIFICATION Spec
SYMMETRY Symmetry
\* Threads are left at a barrier, or at a latch nobody counts down.
CHECK_DEADLOCK FALSE
INVARIANTS
    TypeOK
    NobodyLeftAsleep
    NobodyPassesEarly
    LocksExclude
    SignalsConserved
    HandlesOwned
    NoThreadLost
    OwnValueOnly
    DebugRecordsTrue
PROPERTY
    OpensOnlyForCount
