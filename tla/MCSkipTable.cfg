SPECIFICATION Spec
CONSTANTS
    NumBlocks = 8
    SkipNone = 3
    Off2 = 4
    Size1 = 3
    Size2 = 2
    Len1 = 2
    Len2 = 1
    Parts <- PartsDef
    MaxBad = 4
    MaxFaults = 1
    Versions = {1}
INVARIANTS
    MapsGoodBlocksInOrder
    ImageReadsBack
CHECK_DEADLOCK FALSE
