SPECIFICATION Spec
CONSTANTS
    JoinRoles = {"ZR", "ZED"}
    Cmds = {"EN", "JN", "DASSL", "F", "Z"}
    LineQDepth = 1
    MaxSignals = 2
    PowerCuts = TRUE
    HostWaits = FALSE
INVARIANTS
    WaitedOpAnswered
    NoStaleCompletion
    RoleMatchesNetwork
    FlashMirrorsRam
PROPERTIES
    MembershipKept
