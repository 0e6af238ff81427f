SPECIFICATION Spec
CONSTANTS
    Ext = 2
    Links = 2
    Configs <- MCConfigs
    Decisions <- MCDecisions
INVARIANTS
    AnswersAreRecorded
    BlockedNeverRuns
    DecidedUnderAPolicy
    SkippedIsTold
PROPERTIES
    KeepsPromise
    EveryCallAnswered
