SPECIFICATION Spec
CONSTANTS
    FileUnits = 21
    PktUnits = 2
    PageUnits = 3
    PagesPerBlock = 2
    EraseBlocks = 2
    NumBlocks = 6
    SeqMod = 4
    MAXRETRANS = 2
    MaxRetry = 2
    Lines = {{"loss", "damage", "cancel", "write"},
             {"loss", "damage", "headless", "early", "cancel", "write"}}
    MaxFaults = 3
INVARIANTS
    FlashIsPrefix
    LookupsInTable
    SuccessMeansWritten
PROPERTY
    TransferEnds
CHECK_DEADLOCK FALSE
