SPECIFICATION Spec
CONSTANTS
    Size <- MCSize
    SendLen = 2
    Prn = 2
    StartPkgs = 3
    Pace = 2
    Half = 8
    QueueCap = 9
    Resumable = FALSE
    MaxStarts = 1
    MaxLost = 1
    MaxErrors = 0
    MaxAnswers = 0
PROPERTIES
    ShortChecksumIgnored
CHECK_DEADLOCK FALSE
