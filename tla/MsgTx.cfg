SPECIFICATION FairSpec
CONSTANTS
    TX_SLOTS = 2
    UCAST_IN_FLIGHT = 2
    Bufs = {b1, b2}
    Shown <- MCShown
    Quiets = {FALSE}
    MaxUnicasts = 3
    MaxBroadcasts = 1
INVARIANTS Tracked NothingLeaks
PROPERTIES DeliveryImplemented TooManyIsTrue EveryUnicastReported
CHECK_DEADLOCK FALSE
