\* Two organizations, two tokens, one poll after the first.
SPECIFICATION ConsoleFairSpec
CONSTANTS
    Orgs = {"a", "b"}
    MaxTokens = 2
    MaxPolls = 1
INVARIANTS TabIsOfItsSession OneRun
PROPERTY SuccessSettles
CHECK_DEADLOCK FALSE
