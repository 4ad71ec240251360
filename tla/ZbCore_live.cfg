SPECIFICATION FairSpec
CONSTANTS
    JoinRoles = {"ZR", "ZED"}
    Cmds = {"EN", "JN", "DASSL", "F", "Z"}
    LineQDepth = 1
    MaxSignals = 2
    PowerCuts = FALSE
    HostWaits = TRUE
PROPERTIES
    CommandEnds
    RemovedNodeRestarts
    DeferredCommandRuns
