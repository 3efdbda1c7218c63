SPECIFICATION Spec
CONSTANTS
    Handlers = {h1, h2}
    Requests <- MCRequests
    Serves <- MCServes
    Alias = "al"
    Canonical = "m2"
    ModelMax <- MCModelMax
    DefaultMaxTokens = 6
    MaxRequests = 2
    MaxEdits = 1
    MaxFlushes = 1
    MaxFaults = 1
INVARIANTS AnswersRight RequestKept FlushClears
SYMMETRY HandlerSymmetry
CHECK_DEADLOCK FALSE
