\* Three candidates and the two left after a failover, every strategy.
SPECIFICATION Spec
CHECK_DEADLOCK FALSE
CONSTANTS
    p1 = p1
    p2 = p2
    p3 = p3
    Providers <- Three
    CandidateSets <- Sets
    Strategies <- Four
    Weights = {0, 1, 2}
    MaxCounter = 4
    Samples = {0}
    Penalty = 2
    DefaultEma = 1
    Epsilon = 1
    MaxPicks = 6
    MaxEdits = 1
    MaxCalls = 1
INVARIANTS
    RotationEven
    WrrShare
PROPERTY DrainedIdle
