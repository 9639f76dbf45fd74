SPECIFICATION Spec
CONSTANTS
    NumFrames = 3
    NumVa = 4
    VmPages = 8
    NumTlb = 4
    NumAsid = 4
    Programs <- MCPrograms
INVARIANTS
    TlbAgrees
    AccessReadsItsPage
    HandlerReturns
    ListsIntact
PROPERTIES
    LoadForcesRefill
    InstructionCompletes
CHECK_DEADLOCK FALSE
