SPECIFICATION Spec
CONSTANTS
    m1 = m1  m2 = m2  s1 = s1  s2 = s2  tracer = tracer  mock = mock
    NONE = NONE
    Manifests <- MCManifests
    Sensors <- MCSensors
    Others <- MCOthers
    Reach <- MCReach
    Wraps <- MCWraps
    Missing <- MCMissing
    Inherited <- MCInherited
    Imports <- MCImports
    Late <- MCLate
    MaxCalls = 1
    MaxOps = 3
SYMMETRY Symmetry
INVARIANTS TypeOK Accounted WrappedOnce
PROPERTIES UndoIsExact
CHECK_DEADLOCK FALSE
