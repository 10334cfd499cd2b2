SPECIFICATION FairSpec
CONSTANTS
    Texts <- MCTexts
    Hash <- MCHash
    MaxParas = 2
    MaxAttempts = 2
    MaxRetries = 2
    MaxEvents = 3
VIEW MCView
INVARIANTS
    ClientIsSound
PROPERTIES
    ComesToRest
    RecordedWhenSent
    
CHECK_DEADLOCK FALSE
