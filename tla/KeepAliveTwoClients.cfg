SPECIFICATION Spec
CONSTANTS
    c1 = c1
    c2 = c2
    Clients = {c1, c2}
    MaxTimers = 3
    MaxPings = 1
INVARIANTS
    PingToCome
CHECK_DEADLOCK FALSE
