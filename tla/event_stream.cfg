SPECIFICATION FairSpec
CONSTANTS
    BatchSize = 3
    MaxRetries = 1
    PageSize = 2
    Clock = {1, 2}
    MaxFaults = 2
    MaxForeign = 1
    MaxTrims = 2
INVARIANTS
    TypeOK
    ReaderSkipsNothing
    PublishedInOrder
    LossIsDetected
PROPERTIES
    LagIsBacklog
    ReadAllIsComplete
    TailCatchesUp
CHECK_DEADLOCK FALSE
