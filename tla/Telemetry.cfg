SPECIFICATION FairSpec
CONSTANTS
    e1 = e1
    e2 = e2
    p1 = p1
    p2 = p2
    d1 = d1
    w1 = w1
    w2 = w2
    Exiter = exiter
    NoThread = NoThread
    Stop = Stop
    Events <- TwoEvents
    Producers <- TwoProducers
    Drainers <- OneDrainer
    Workers <- TwoWorkers
    QueueCap = 1
    BatchSize = 2
    DrainKinds <- FlushOnly
    MaxDrains = 2
INVARIANTS
    ExactlyOnce
    DrainReportsAll
PROPERTIES
    Settles
CHECK_DEADLOCK FALSE
