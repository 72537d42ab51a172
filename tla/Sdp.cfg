SPECIFICATION FairSpec
CONSTANTS
    Tables <- MCTables
    Mtu = 23
    MaxHdl = 8
    ByteMax = 64
    MaxConns = 2
INVARIANTS
    FoundIsReal
    FoundComplete
    ValuesRight
    AnswersAllowed
PROPERTIES
    BrowsingEnds
CHECK_DEADLOCK FALSE
