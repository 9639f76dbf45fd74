SPECIFICATION Spec
CONSTANTS
    NumBlocks = 5
    SkipNone = 4
    Off2 = 4
    Size1 = 3
    Size2 = 1
    Len1 = 1
    Len2 = 1
    Parts <- PartsDef
    MaxBad = 1
    MaxFaults = 0
    Versions = {1}
PROPERTY
    EraseStaysInRange
CHECK_DEADLOCK FALSE
