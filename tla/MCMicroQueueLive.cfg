\* Liveness and refinement of the worker queue.
CONSTANTS
    Paragraphs = {p1, p2}
    NoParagraph = NoParagraph
    MaxJobs = 3
    MaxSwitches = 0
SPECIFICATION FairSpec
PROPERTIES
    EveryJobIsAnswered
    ShutdownReturns
    ImplementsBoard
