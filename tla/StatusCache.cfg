SPECIFICATION Spec
CONSTANTS
    r1 = r1
    r2 = r2
    w1 = w1
    None = None
    Idle = Idle
    Requests <- MCRequests
    Workers <- MCWorkers
    Alerting <- MCWorkers
    TTL = 2
    MaxFetch = 2
    MaxEpoch = 2
SYMMETRY Symmetric
INVARIANT
    TypeOK
PROPERTIES
    ServesRecentState
    QuietSaveIsSeen
    NullOnlyAcrossSave
