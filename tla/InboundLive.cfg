SPECIFICATION FairSpec
CONSTANTS
    m0 = m0
    m1 = m1
    m2 = m2
    m3 = m3
    Messages = {m0, m1, m2}
    QosOf <- MCEach
    MaxBrokerId = 2
    MaxLosses = 0
    MaxResends = 1
INVARIANTS
    TypeOK
PROPERTIES
    EveryMessageDelivered
    EveryHandshakeEnds
CHECK_DEADLOCK FALSE
