\* Three requests, clocks one tick apart, two probe slots and a fault.
SPECIFICATION TimeSpec
CONSTANTS
    Callers = {c1, c2, c3}
    FailureThreshold = 2
    SuccessThreshold = 2
    Timeout = 2
    Window = 2
    MaxProbes = 2
    MaxSkew = 1
    MaxFaults = 1
INVARIANTS
    TypeOK
    KeysAgree
    ProbesBounded
PROPERTIES
    TripsOnlyOnStreak
    OpenPeriod
    ClosesOnProbeEvidence
    NeverWedged
    Recovers
