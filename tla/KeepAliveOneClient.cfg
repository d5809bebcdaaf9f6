SPECIFICATION Spec
CONSTANTS
    c1 = c1
    c2 = c2
    Clients = {c1}
    MaxTimers = 4
    MaxPings = 2
INVARIANTS
    TypeOK
    PingToCome
    OneTimerCounts
CHECK_DEADLOCK FALSE
