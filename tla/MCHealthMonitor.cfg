\* A probed provider and one without a URL, two ticks, two failed queries.
SPECIFICATION FairSpec
CHECK_DEADLOCK FALSE
CONSTANTS
    Providers = {p1, p2}
    NoUrl = {p2}
    MaxTicks = 2
    MaxFaults = 2
INVARIANTS
    StopWaits
    RowsCurrent
PROPERTY StopReturns
