SPECIFICATION PeerSpec
CONSTANTS
    AclMax = 2
    MaxPkt = 2
    Half = 2
    PduLen <- MCPduLen
    MaxPdus = 3
    MaxConns = 2
    MaxLost = 2
    MaxEarly = 2
INVARIANTS
    CreditsAccounted
    ControllerNotOverrun
    NeverIdle
    QueuedPdusCounted
    PdusWhole
PROPERTIES
    ChannelSpec
    QueueDrains
CHECK_DEADLOCK FALSE
