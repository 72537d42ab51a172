SPECIFICATION FairSpec
CONSTANTS
    Size <- MCSize
    SendLen = 2
    Prn = 2
    StartPkgs = 3
    Pace = 2
    Half = 8
    QueueCap = 9
    Resumable = FALSE
    MaxStarts = 2
    MaxLost = 1
    MaxErrors = 1
    MaxAnswers = 1
INVARIANTS
    ExecutesTheFile
    SuccessIsComplete
    EndsOnce
    PaceKept
PROPERTIES
    UpdateSucceeds
CHECK_DEADLOCK FALSE
