\* No fault: a database read that straddles the revocation is enough.
SPECIFICATION FairSpec
CONSTANTS
    Requests = {r1, r2}
    MaxUpdates = 0
    Ttl = 2
    MaxFaults = 0
PROPERTY StopsWorkingClaim
