SPECIFICATION Spec
CONSTANTS
    NONE = NONE
    Classes <- MCClasses
    Combos <- MCCombos
    MaxSegments = 2
    MaxDepth = 1
    SqlRule <- MCSqlRule
    MaxStatements = 1
    UrlRule <- MCUrlRule
    Spellings <- MCSpellings
    BAD = BAD
    Byte = 4
    Rows <- MCRows
    Fields <- MCFields
    Values <- MCValues
    Flag = 20
    Block = 60
    Threats <- MCThreats
    Secrets <- MCSecrets
    Intents <- MCIntents
    Composites <- MCComposites
    Phrases <- MCPhrases
    Probabilities <- MCProbabilities
    Dangers <- MCDangers
    MaxFound = 2
    MaxWindows = 3
    Impacts <- MCImpacts
    Shapes <- MCShapes
    Documents <- MCDocuments
    Requests <- MCRequests
    Extensions <- MCExtensions
    MaxParts = 3
    MaxTerms = 2
INVARIANTS NothingPassesUnread PolicyMeansWhatItSays ForcedVerdictsStand
PROPERTIES InspectionOnlyRaises
