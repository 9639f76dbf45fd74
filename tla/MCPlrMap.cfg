SPECIFICATION Spec
CONSTANTS
    NumSectors = 1
    PageSize = 2
    HdrSize = 1
    PagesPerBlock = 3
    NumFl = 1
    NumRest = 3
    Copies = 3
    NumPages = 16
    TableSize = 5
    ChunksPerPage = 2
    MaxFaults = 1
INVARIANTS
    TypeOK
    ReadyMeansMapped
    NoSpuriousFailure
    ReadsAreExact
PROPERTY
    InitReturns
CHECK_DEADLOCK FALSE
