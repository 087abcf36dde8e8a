SPECIFICATION Spec
CONSTANTS
    Task = {1, 2}
    Worker = {w1, w2}
    NoWorker = NoWorker
    MaxConcurrent = 1
    Adapter <- GoodFailing
    Checkpoints = 1
    DrainSeconds = 2
    Stoppable = {}
    MaxFaults = 1
    MaxCalls = 0
INVARIANTS
    Exclusive
    SucceededMeansCompleted
