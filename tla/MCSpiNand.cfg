SPECIFICATION Spec
CONSTANTS
    Cs = {0, 1}
    Dies = {0, 1}
    BlocksPerDie = 2
    PagesPerBlock = 2
    TwoPlanes = TRUE
    OdeProbe = TRUE
    OdeRest = FALSE
    Data = {"d"}
    Blank = "blank"
    Junk = "junk"
    MaxOps = 2
    MaxTried = 1
    MaxFaults = 1
    MaxResets = 1
INVARIANTS
    ChipReadyForFrame
    DiesSetUp
PROPERTIES
    ImplementsPageFlash
    OperationsEnd
CHECK_DEADLOCK FALSE
