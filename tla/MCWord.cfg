\* Two commands and a user on one paragraph; a Word.run is not interrupted.
CONSTANTS
    c1 = c1
    c2 = c2
    Commands = {c1, c2}
    Base <- MCBase
    Hunks <- TwoCommands
    Typed = {"u"}
    MaxParagraphs = 1
    MaxDeletions = 1
    MaxHostErrors = 1
    CallsInterleave = FALSE
    RangeSubstring = FALSE
SPECIFICATION FairSpec
INVARIANTS
    TransactionIsSound
    
    
PROPERTIES
    EveryCommandGetsAResult
