SPECIFICATION Spec
CONSTANTS
    c1 = c1
    c2 = c2
    c3 = c3
    i1 = i1
    i2 = i2
    i3 = i3
    None = None
    Ids <- MCIds
    Supplied <- MCIds
    Calls <- MCCalls
    Cap = 2
    MemoCap = 2
    HandlerFaults = TRUE
    MaxEvents = 2
    MaxUnprotects = 1
SYMMETRY MCSymmetry
INVARIANTS
    TypeOK
    IndexConsistent
    FlowsApart
    SeqOrder
    NoLeak
CHECK_DEADLOCK FALSE
