SPECIFICATION FairSpec
CONSTANTS
    BufNum = 3
    Reserve = 3
    MaxSessions = 2
    MaxReads <- MCMaxReads
INVARIANTS
    SessionsOrdered
    NothingLost
PROPERTIES
    RingIsQueue
    RestartEnds
    ErrorReported
CHECK_DEADLOCK FALSE
