SPECIFICATION Spec
CONSTANTS
    Paras = {"p"}
    Original <- ThreeOriginal
    Imported <- ThreeImported
    Files <- Nothing
    Queries <- Nothing
    Keywords <- Nothing
    MinScores <- Nothing
    TopN = 2
    PoolLimit = 4
    Edits <- MCEdits
    OwnTargets <- Nothing
    MaxLooks = 1
    MaxCalls = 3
    MaxCards = 0
    MaxFailures = 1
    MaxEdits = 0
PROPERTIES
    RestoresOwnSentence
CHECK_DEADLOCK FALSE
