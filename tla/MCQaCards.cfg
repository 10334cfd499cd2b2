\* Safety of the cards with either editor: two issues, two cards, two commands
\* and one event out of the usual.
CONSTANTS
    NumIssues = 2
    Editors = {"word", "InDesign"}
    MaxCards = 2
    MaxCommands = 2
    MaxExtras = 1
CHECK_DEADLOCK FALSE
SPECIFICATION Spec

    
PROPERTIES
    
    RecordedAsWritten
