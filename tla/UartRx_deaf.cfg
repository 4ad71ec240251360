SPECIFICATION FairSpec
CONSTANTS
    RX_BUF_SIZE = 2
    RX_BUF_COUNT = 3
    RX_EVENT_COUNT = 3
    StopInWindow = TRUE
    MaxBytes = 4
    MaxErrors = 2
PROPERTY RxRecovers
