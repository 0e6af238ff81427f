SPECIFICATION FairSpec
CONSTANTS
    t1 = t1
    t2 = t2
    Never = Never
    Callers <- MCCallers
    Counters <- MCCounters
    Threshold <- MCThreshold
    Window <- MCWindow
    RetainedCap = 3
    Modes <- MCModes
    Cooldowns <- MCCooldowns
INVARIANTS
    OnTripOncePerTrip
    ClosedBelowThreshold
    HaltsScans
PROPERTIES
    CooldownNotExtended
    Recovers
