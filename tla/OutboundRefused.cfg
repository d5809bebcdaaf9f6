SPECIFICATION Spec
CONSTANTS
    r1 = r1
    r2 = r2
    r3 = r3
    Requests = {r1}
    KindOf <- MCQos1
    Refusable = {r1}
    MaxPacketId = 2
    MaxAttempts = 1
    MaxResends = 0
INVARIANTS
    NoFalseSuccess
CHECK_DEADLOCK FALSE
