SPECIFICATION Spec
CONSTANTS
    r1 = r1
    r2 = r2
    r3 = r3
    Requests = {r1, r2}
    KindOf <- MCQos2AndQos0
    Refusable = {r1}
    MaxPacketId = 2
    MaxAttempts = 3
    MaxResends = 0
INVARIANTS
    IdsConserved
    AnsweredByBroker
    AnsweredOncePerConnection
    EntryAttended
CHECK_DEADLOCK FALSE
