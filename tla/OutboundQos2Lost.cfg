SPECIFICATION Spec
CONSTANTS
    r1 = r1
    r2 = r2
    r3 = r3
    Requests = {r1}
    KindOf <- MCQos2
    Refusable = {}
    MaxPacketId = 2
    MaxAttempts = 3
    MaxResends = 0
INVARIANTS
    HeldUntilFinished
CHECK_DEADLOCK FALSE
