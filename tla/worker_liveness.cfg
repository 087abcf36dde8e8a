SPECIFICATION FairSpec
CONSTANTS
    Task = {1, 2}
    Worker = {w1}
    NoWorker = NoWorker
    MaxConcurrent = 2
    Adapter <- HangingFailing
    Checkpoints = 2
    DrainSeconds = 2
    Stoppable = {w1}
    MaxFaults = 0
    MaxCalls = 0
PROPERTIES
    RunningFinishes
    ShutdownReturns
