SPECIFICATION Spec
CONSTANTS
    p1 = p1
    a1 = a1
    data = data
    NoDetail = NoDetail
    Unreadable = Unreadable
    Panels <- MCPanels
    Rank <- MCRank
    Agents <- MCAgents
    Mounts <- MCMounts
    PanelStates <- MCPanelStates
    AgentStates <- MCAgentStates
    Settings <- MCSettings
    DefaultCooldown = 2
    LeastCooldown = 1
    MostCooldown = 2
INVARIANT
    TypeOK
PROPERTIES
    OnceWhileSeen
    ForgottenOnlyWhenAbsent
    FollowsLifecycle
    LastingProblemAnnounced
    SolvedProblemForgotten
