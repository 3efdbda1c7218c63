\* Two requests, two candidates, least-connections, one fault; in some
\* behaviours `steady' never fails.
SPECIFICATION Spec
SYMMETRY Symmetry
CONSTANTS
    flaky = flaky
    steady = steady
    None = None
    Providers <- Both
    Rank <- RankBoth
    Reliable = {steady}
    MaxFaults = 1
    Requests = {r1, r2}
    ConnTtl = 1
    FailureThreshold = 1
    SuccessThreshold = 1
    Timeout = 1
    Window = 1
    MaxProbes = 1
    MaxSkew = 0
INVARIANTS
    GaugeExact
    SlotsAccounted
    VerdictsComplete
    ReliableServes
