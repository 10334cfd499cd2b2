\* Safety of the worker queue: two paragraphs, three jobs, one model switch.
CONSTANTS
    Paragraphs = {p1, p2}
    NoParagraph = NoParagraph
    MaxJobs = 3
    MaxSwitches = 1
SPECIFICATION Spec
SYMMETRY ParagraphSymmetry
INVARIANTS
    AccountsAreTrue
    NoLostJob
    NoLostWakeup
    NewestWaits
    SupersededIsSignalled
    ShutdownLeavesNobodyWaiting
