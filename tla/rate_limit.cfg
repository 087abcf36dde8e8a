SPECIFICATION Spec
CONSTANTS
    Handler = {h1, h2}
    trial = trial
    pro = pro
    Plan = {trial, pro}
    Capacity <- SmallCapacity
    Rate <- SmallRate
    Unit = 2
    Ttl = 4
    MaxLag = 1
    MaxAhead = 1
    MaxTime = 5
    MaxCalls = 4
    MaxChanges = 1
SYMMETRY Handlers
INVARIANTS
    TypeOK
    WindowBound
    RetryAfterSuffices
    BucketsAgree
CHECK_DEADLOCK FALSE
