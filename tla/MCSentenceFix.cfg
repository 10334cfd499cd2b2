SPECIFICATION Spec
CONSTANTS
    Letters = {" ", "a", "b"}
    SingleLength = 2
    PairSuggestions <- MCPairSuggestions
    Characters <- MCCharacters
    Paragraphs <- MCParagraphs
    Inputs <- MCInputs
INVARIANTS
    FixesAreExact
    FewestWords
    RichFollowsPlain
CHECK_DEADLOCK FALSE
