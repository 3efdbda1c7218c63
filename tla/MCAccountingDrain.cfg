SPECIFICATION FairSpec
CONSTANTS
    Requests = {r1}
    Budget = 1
    MaxCost = 1
    MaxPending = 1
    Months = 1
    MaxStarts = 1
    MaxFaults = 0
PROPERTY InterruptedIsLogged
