SPECIFICATION FairSpec
CONSTANTS
    RX_BUF_SIZE = 2
    RX_BUF_COUNT = 3
    RX_EVENT_COUNT = 3
    StopInWindow = FALSE
    MaxBytes = 10
    MaxErrors = 2
INVARIANTS ReportsIntact NoBlockLost
PROPERTY RxRecovers
CHECK_DEADLOCK FALSE
