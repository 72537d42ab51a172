SPECIFICATION FairSpec
CONSTANTS
    s1 = s1
    s2 = s2
    s3 = s3
    v = v
    x = x
    y = y
    p = p
    q = q
    NoValue = NoValue
    Script <- MCScript
    Name <- MCName
    Programs <- MCPrograms
    MaxFaults = 1

    
PROPERTIES
    ScriptsEnd
CHECK_DEADLOCK FALSE
