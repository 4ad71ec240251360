SPECIFICATION Spec
CONSTANTS
    JoinRoles = {"ZR"}
    Cmds = {"JN", "DASSL", "F", "Z"}
    LineQDepth = 1
    MaxSignals = 2
    PowerCuts = FALSE
    HostWaits = TRUE
INVARIANT LeaveForgetsNetwork
