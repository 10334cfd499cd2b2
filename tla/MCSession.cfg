\* Handshakes, an evicting one of each editor, and a call across two sockets and a switch, with answers on either socket.
CONSTANTS
    s1 = s1
    s2 = s2
    h1 = h1
    h2 = h2
    word = word
    indesign = indesign
    r1 = r1
    r2 = r2
    Nobody = Nobody
    Word = word
    Editors = {word, indesign}
    EditorOf <- MCEditorOf
    Policies <- MCPolicies
    Sockets = {s1, s2}
    RestCalls = {h1, h2}
    Requests = {r1}
    Kind <- OneCall
    MaxSwitches = 1
    MaxProgress = 0
    StrayAnswers = TRUE
CHECK_DEADLOCK FALSE
SPECIFICATION Spec
INVARIANTS
    
    AnswersAreOwn
PROPERTIES
    EvictsOwnEditorOnly
