SPECIFICATION FairSpec
CONSTANTS
    BufNum = 4
    MaxCmds = 6
    MaxNops = 1
    MaxInits = 1
    MaxLost = 1
INVARIANTS
    OneOutstanding
    HandedInOrder
    NeverStuck
    RightAnswer
PROPERTIES
    EncryptServed
CHECK_DEADLOCK FALSE
