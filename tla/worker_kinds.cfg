SPECIFICATION Spec
CONSTANTS
    Task = {1, 2, 3}
    Worker = {w1}
    NoWorker = NoWorker
    MaxConcurrent = 2
    Adapter <- Mixed
    Checkpoints = 1
    DrainSeconds = 2
    Stoppable = {w1}
    MaxFaults = 1
    MaxCalls = 1
INVARIANTS
    TypeOK
    Capacity
    OrphanNeedsFailure
    HelpersStopped
    CancelCause
    CancelSticks
    DrainCancelsAll
PROPERTIES
    Lifecycle
