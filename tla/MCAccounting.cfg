SPECIFICATION FairSpec
CONSTANTS
    Requests = {r1, r2}
    Budget = 1
    MaxCost = 1
    MaxPending = 1
    Months = 2
    MaxStarts = 3
    MaxFaults = 1
INVARIANTS TypeOK OvershootBounded CleanShutdown
PROPERTIES ShutdownEnds InterruptedIsBooked
