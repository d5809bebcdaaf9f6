SPECIFICATION Spec
CONSTANTS
    m0 = m0
    m1 = m1
    m2 = m2
    m3 = m3
    Messages = {m1, m2, m3}
    QosOf <- MCAcknowledged
    MaxBrokerId = 2
    MaxLosses = 2
    MaxResends = 1
INVARIANTS
    AcknowledgedIsNotLost
    DeliveredAtMostOnce
    DeliveredAfterRelease
PROPERTIES
    ImplementsDelivery
CHECK_DEADLOCK FALSE
