SPECIFICATION FairSpec
CONSTANTS
    Task = {1, 2}
    Worker = {w1}
    NoWorker = NoWorker
    MaxConcurrent = 1
    Adapter <- AllGood
    Checkpoints = 1
    DrainSeconds = 2
    Stoppable = {}
    MaxFaults = 0
    MaxCalls = 0
PROPERTIES
    PendingIsClaimed
CHECK_DEADLOCK FALSE
