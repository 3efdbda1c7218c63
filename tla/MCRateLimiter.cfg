\* Two requests and three tokens per three ticks; the run ends with the clock.
SPECIFICATION LimiterSpec
SYMMETRY Symmetry
CHECK_DEADLOCK FALSE
CONSTANTS
    Ids = {i1, i2, i3, i4}
    Window = 3
    RpmLimit = 2
    TpmLimit = 3
    TokenChoices = {0, 1, 2}
    BurstEnabled = TRUE
    BurstWindow = 3
    BurstLimit = 2
    Grace = 1
    MaxSkew = 1
    MaxTime = 7
    MaxResends = 1
INVARIANTS
    RpmHolds
    TpmHolds
