SPECIFICATION FairSpec
CONSTANTS
    MaxNetworks = 3
    MaxFailures = 2
    MaxPings = 1
INVARIANTS
    TypeOK
    OneNetwork
    ConnectedMeansNetwork
    NothingLeftOpenWhenCalm
PROPERTIES
    DisconnectObeyed
    Recovers
CHECK_DEADLOCK FALSE
