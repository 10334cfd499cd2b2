SPECIFICATION FairSpec
CONSTANTS
    Texts <- MCTexts
    Normal <- MCNormal
    Suggested <- MCSuggested
    Width = 2
    MaxParas = 2
    MaxEvents = 3
VIEW MCView
PROPERTIES
    OnlyTheAsked
    
    NoGuess
    Reconnects
CHECK_DEADLOCK FALSE
