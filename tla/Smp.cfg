SPECIFICATION FairSpec
CONSTANT
    MaxLinks = 3
INVARIANTS
    AnswerExpected
    KeyOfThisPairing
    RevealedAsConfirmed
    FlagTruthful
PROPERTIES
    PairingCompletes
CHECK_DEADLOCK FALSE
