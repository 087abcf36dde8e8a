SPECIFICATION Spec
CONSTANTS
    Task = {1}
    Worker = {w1}
    NoWorker = NoWorker
    MaxConcurrent = 1
    Adapter <- OneGood
    Checkpoints = 1
    DrainSeconds = 2
    Stoppable = {}
    MaxFaults = 0
    MaxCalls = 1
INVARIANTS
    CanceledMeansCanceled
CHECK_DEADLOCK FALSE
