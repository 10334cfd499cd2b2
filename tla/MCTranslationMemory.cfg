SPECIFICATION Spec
CONSTANTS
    Paras = {"p"}
    Original <- MCOriginal
    Imported <- MCImported
    Files <- MCFiles
    Queries <- Nothing
    Keywords <- MCKeywords
    MinScores = {100}
    TopN = 2
    PoolLimit = 4
    Edits <- MCEdits
    OwnTargets <- MCOwnTargets
    MaxLooks = 2
    MaxCalls = 3
    MaxCards = 1
    MaxFailures = 1
    MaxEdits = 1

    
    
PROPERTIES
    RestoresOwnSentence
CHECK_DEADLOCK FALSE
