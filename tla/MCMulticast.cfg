SPECIFICATION McastSpec
CONSTANTS
    Images <- MixedImages
    FWSIZE = 4
    Builds = {TRUE, FALSE}
    TimeoutMax = 2
    Environments <- Retrying
    TryMax = 3
INVARIANTS
    SuccessMeansReceived
    OnlyWholeImageInstalled
PROPERTY
    DeviceBoots
CHECK_DEADLOCK FALSE
