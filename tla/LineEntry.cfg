SPECIFICATION FairSpec
CONSTANTS
    AT_LINE_MAX = 3
    LINE_Q_DEPTH = 2
    Keys = {"b", "t"}
    BinKey = "b"
    Lens = {1, 2}
    MaxBytes = 8
INVARIANTS EntryIntact
PROPERTIES TimeoutIsTrue WrittenWhileAsked LinesAsTyped LinesAnswered
CHECK_DEADLOCK FALSE
