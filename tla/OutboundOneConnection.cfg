SPECIFICATION Spec
CONSTANTS
    r1 = r1
    r2 = r2
    r3 = r3
    Requests = {r1, r2, r3}
    KindOf <- MCOneConnection
    Refusable = {r2, r3}
    MaxPacketId = 2
    MaxAttempts = 1
    MaxResends = 1
INVARIANTS
    TypeOK
    IdsConserved
    ExactlyOnce
    NotifiedOnce
    NoFalseSuccess
CHECK_DEADLOCK FALSE
