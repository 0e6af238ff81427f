SPECIFICATION Spec
CONSTANTS
    m1 = m1  m2 = m2  s1 = s1  s2 = s2  tracer = tracer  mock = mock
    NONE = NONE
    Manifests <- MCManifests
    Sensors <- MCSensors
    Others <- MCOthers
    Reach <- MCReach
    Wraps <- MCWraps
    Missing <- MCMissing
    Inherited <- MCInherited
    Imports <- MCImports
    Late <- MCLate
    MaxCalls = 2
    MaxOps = 3
SYMMETRY Symmetry
INVARIANT SkippedWereScanned
CHECK_DEADLOCK FALSE
