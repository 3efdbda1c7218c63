\* Two requests, two updates of the key, one failed Redis call.
SPECIFICATION Spec
SYMMETRY Symmetry
CONSTANTS
    Requests = {r1, r2}
    MaxUpdates = 2
    Ttl = 2
    MaxFaults = 1
INVARIANTS
    ExpiryEnforced
    ValidKeyAccepted
    CacheCurrent
