SPECIFICATION Spec
CONSTANTS
    a1 = a1
    None = None
    Off = Off
    Agents <- MCAgents
    Interval = 2
    MaxRound = 1
    Refresh = 3
    Ahead = 1
    Behind = 1
    Stale = 5
    Retention = 6
    MaxReports = 2
INVARIANTS
    TypeOK
    NewestIsShown
    ReportingIsListed
    CardHangsTogether
PROPERTIES
    FactsMoveForward
