SPECIFICATION Spec
CONSTANTS
    t1 = t1
    t2 = t2
    w1 = w1
    w2 = w2
    e1 = e1
    k1 = k1
    p1 = p1
    h1 = h1
    Threads <- MCThreads
    Workers <- MCWorkers
    Edits <- MCEdits
    Keys <- MCKeys
    Blank = Blank
    Passkeys <- MCPasskeys
    Hosts <- MCHosts
    Requests <- FewRequests
    FirstFiles <- OnlyExample
    None = None
    Missing = Missing
    Garbled = Garbled
    Idle = Idle
    MaxSecrets = 2
    MaxCount = 1
SYMMETRY Symmetric
INVARIANT
    WorkersShareSecret
