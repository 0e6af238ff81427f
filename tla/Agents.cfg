SPECIFICATION Spec
CONSTANTS
    t1 = t1
    t2 = t2
    Threads <- CrewThreads
    MaxTurns = 2
    MaxCalls = 2
    MaxAgentSteps = 2
INVARIANTS HaltedGoesNowhere CallsSettled HonestEnd OwnWordsOnly
CHECK_DEADLOCK FALSE
