SPECIFICATION FairSpec
CONSTANTS
    Writers = {"at", "rx", "zboss"}
    LineLen <- MCLineLen
    CallEnd <- MCCallEnd
    MaxLines = 2
    TxBufSize = 3
    TxMayFail = TRUE
INVARIANTS
    OneTransfer
PROPERTIES
    PrintIsAtomic
    LinesGoOut
CHECK_DEADLOCK FALSE
