SPECIFICATION Spec
CONSTANTS
    Appender = {a1, a2, a3}
    text = text
    exponent = exponent
    Payload = {text, exponent}
    Jsonb <- ToInteger
    MaxAppends = 4
    MaxDeletes = 2
    MaxFaults = 1
INVARIANTS
    TypeOK
    ChainVerifies
    NumbersWithoutGap
    AnsweredIsStored
CHECK_DEADLOCK FALSE
