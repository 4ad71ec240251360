SPECIFICATION Spec
CONSTANTS
    Nodes = {n1, n2}
    DISCOVERY_ATTEMPTS = 3
    SREG_MAX_CLUSTERS = 2
    Lines <- MCLines
    MaxResolves = 2
    MaxMatches = 2
INVARIANTS AnswerIsForAsked LastMatchStands
PROPERTIES UnreachableIsTrue
CHECK_DEADLOCK FALSE
