\* Progress: a generation and a command across a socket and a REST handshake.
CONSTANTS
    s1 = s1
    s2 = s2
    h1 = h1
    h2 = h2
    word = word
    indesign = indesign
    r1 = r1
    r2 = r2
    Nobody = Nobody
    Word = word
    Editors = {word, indesign}
    EditorOf <- MCEditorOf
    Policies <- MCPolicies
    Sockets = {s1}
    RestCalls = {h1}
    Requests = {r1, r2}
    Kind <- GenerationAndCommand
    MaxSwitches = 0
    MaxProgress = 1
    StrayAnswers = FALSE
CHECK_DEADLOCK FALSE
SPECIFICATION FairSpec
INVARIANTS
    CallTableIsTrue
PROPERTIES
    CallsEnd
    DeadSessionIsFreed
    HandshakesAreAnswered
