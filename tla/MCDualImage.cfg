SPECIFICATION Spec
CONSTANTS
    Versions = {"v1", "v2", "v3"}
    Good = {"v1", "v2"}
    VerLen <- SomeLengths
    FwuVerSize = 3
    Uploads <- SomeUploads
    Layouts <- SomeLayouts
    MaxInstalls = 3
    MaxCrashes = 1
    WriteFaults = TRUE
INVARIANTS
    ActiveIsRunning
    TrialIsNotRepeated
    SomeImageWhole
    DoneMeansInstalled
PROPERTY
    EndsUpWorking
CHECK_DEADLOCK FALSE
