SPECIFICATION FairSpec
CONSTANTS
    m0 = m0
    m1 = m1
    m2 = m2
    m3 = m3
    Messages = {m2}
    QosOf <- MCQos2
    MaxBrokerId = 1
    MaxLosses = 1
    MaxResends = 0
PROPERTIES
    EveryMessageDelivered
CHECK_DEADLOCK FALSE
