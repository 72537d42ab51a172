SPECIFICATION Spec
CONSTANTS
    Size <- MCSize
    SendLen = 2
    Prn = 2
    StartPkgs = 3
    Pace = 2
    Half = 8
    QueueCap = 9
    Resumable = TRUE
    MaxStarts = 1
    MaxLost = 0
    MaxErrors = 0
    MaxAnswers = 0
PROPERTIES
    ContinuesAtOffset
CHECK_DEADLOCK FALSE
