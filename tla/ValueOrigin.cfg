CONSTANTS
    x = x
    y = y
    k = k
    None = None
    Auths = {x, y}
    Grams = {k}
    Threads = {main, helper}
    main = main
    helper = helper
    Inputs <- MCInputs
    Reads <- MCReads
    Args <- MCArgs
    Designations <- MCDesignations
    MaxEntries = 2
    MaxLeaves = 2
    MaxRequests = 2
    MaxForks = 1
SPECIFICATION OriginSpec
SYMMETRY Symmetry
INVARIANTS PerRequest TrustHasARoot VerdictsAreEarned
CHECK_DEADLOCK FALSE
