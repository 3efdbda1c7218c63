\* Two requests, two administrators here, changes elsewhere, two failed queries.
SPECIFICATION FairSpec
CONSTANTS
    Requests = {r1, r2}
    Admins = {a1, a2}
    NoOne = NoOne
    Ttl = 3
    Retry = 2
    MaxChanges = 3
    MaxFaults = 2
INVARIANTS
    SingleFlight
PROPERTIES
    ReloadSeesChange
    BackoffHolds
    Converges
