SPECIFICATION FairSpec
CONSTANTS
    Lengths <- MCLengths
    FirstFrames <- MCFirstFrames
    LaterFrames <- MCLaterFrames
    MaxFrames = 2
    Outgoing <- MCOutgoing
INVARIANTS
    TypeOK
    HeadersReadBack
    OutgoingLengthsTrue
PROPERTIES
    FailsForAReason
    ImplementsPacketStream
    EverythingDispatched
CHECK_DEADLOCK FALSE
