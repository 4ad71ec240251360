SPECIFICATION FairSpec
CONSTANTS
    Callers <- MCCallers
    EventThread = "ev"
    Ops <- MCOps
    Unasked <- MCUnasked
    LINE_Q_DEPTH = 1
    MaxCalls = 2
    MaxBins = 1
    MaxPrompts = 1
INVARIANTS
    OwnAnswer
    OwnData
    EventsDelivered
PROPERTIES
    ReportNotMissed
    CallsEnd
CHECK_DEADLOCK FALSE
