SPECIFICATION Spec
CONSTANTS
    Size <- MCLong
    SendLen = 1
    Prn = 5
    StartPkgs = 3
    Pace = 2
    Half = 8
    QueueCap = 4
    Resumable = FALSE
    MaxStarts = 1
    MaxLost = 0
    MaxErrors = 0
    MaxAnswers = 1
INVARIANTS
    QueueHasRoom
CHECK_DEADLOCK FALSE
