CONSTANTS
    a = a
    b = b
    c = c
    None = None
    Ids = {a, b, c}
    Bodies <- MCBodies
    Replies <- MCReplies
    MaxDepth = 3
    MaxNodes = 5
    MaxItems = 2
    Ttl = 2
    MaxSize = 2
    FlagAt = 30
    Enforce = FALSE
    MaxClock = 3
SPECIFICATION Spec
INVARIANTS NothingDropped IssuedIsKnown
PROPERTIES EveryWalkEnds
CHECK_DEADLOCK FALSE
