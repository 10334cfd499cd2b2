SPECIFICATION FairSpec
CONSTANTS
    Sources <- MCSources
    Drafts <- MCDrafts
    Memory <- MCMemory
    Hosts = {"Word", "InDesign"}
    MaxParas = 2
    MaxScans = 2
    MaxGenerations = 1
    MaxEvents = 2

    
PROPERTIES
    EditsSurvive
    ScanEnds
CHECK_DEADLOCK FALSE
