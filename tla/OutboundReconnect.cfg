SPECIFICATION FairSpec
CONSTANTS
    r1 = r1
    r2 = r2
    r3 = r3
    Requests = {r1, r2}
    KindOf <- MCReconnect
    Refusable = {}
    MaxPacketId = 2
    MaxAttempts = 2
    MaxResends = 0
INVARIANTS
    HeldUntilFinished
PROPERTIES
    EveryRequestAnswered
CHECK_DEADLOCK FALSE
