SPECIFICATION Spec
CONSTANTS
    RX_DESC_NUM = 4
    TX_DESC_NUM = 2
    Data = {"a", "b"}
    Empty = "empty"
INVARIANTS
    NothingStaleSent
PROPERTIES
    ImplementsFifo
    ReceivesAgain
    QueuedIsSent
CHECK_DEADLOCK FALSE
