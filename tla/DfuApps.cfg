SPECIFICATION FairSpec
CONSTANTS
    d1 = d1
    d2 = d2
    NoDev = NoDev
    NoImage = NoImage
    Dev <- MCDev
    Lists <- MCLists
    Zips <- MCZips
    MaxDevs = 1
    MaxFaults = 2
INVARIANTS
    
    StagesInOrder
PROPERTIES
    
    AskedAgain
CHECK_DEADLOCK FALSE
