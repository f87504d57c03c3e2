SPECIFICATION FairSpec
CONSTANTS
    d1 = d1
    d2 = d2
    m1 = m1
    None = None
    Empty = Empty
    Idle = Idle
    Deployments <- MCDeployments
    Machines <- MCMachines
    Panels <- MCPanels
    HostName <- MCHostName
    MaxSecrets = 2
INVARIANTS
    TypeOK
    RememberedDecrypts
PROPERTIES
    ToldOkIsTrue
    NameKept
    EveryStreamEnds
