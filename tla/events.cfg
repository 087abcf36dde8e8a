SPECIFICATION FairSpec
CONSTANTS
    Task = {t1, t2}
    t1 = t1
    t2 = t2
    MaxEvents <- ThreeAndTwo
    MaxFaults = 1
INVARIANTS
    LossLeavesGap
    SeqIsUnique
    ChainWhenAlone
PROPERTIES
    EventsArrive
CHECK_DEADLOCK FALSE
