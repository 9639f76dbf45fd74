SPECIFICATION Spec
CONSTANTS
    FileUnits = 7
    PktUnits = 2
    PageUnits = 3
    PagesPerBlock = 1
    EraseBlocks = 2
    NumBlocks = 6
    SeqMod = 4
    MAXRETRANS = 2
    MaxRetry = 2
    Lines = {{"loss"}}
    MaxFaults = 1
PROPERTY
    RepeatsEnd
CHECK_DEADLOCK FALSE
