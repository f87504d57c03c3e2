SPECIFICATION Spec
CONSTANTS
    k1 = k1
    k2 = k2
    good = good
    bare = bare
    h1 = h1
    h2 = h2
    text = text
    strict = strict
    Names <- MCNames
    Urls <- MCUrls
    Keys <- MCKeys
    Sections <- MCSections
    Texts <- MCTexts
    Limits <- MCLimits
    Default = Default
    Addresses <- MCAddresses
    HostOf <- MCHostOf
    StatusCards <- MCStatusCards
    AgentNames <- MCAgentNames
    Reports <- MCReports
    PanelLists <- MCPanelLists
    Blank = Blank
    None = None
    t1 = t1
    t2 = t2
    c1 = c1
    c2 = c2
    Tabs <- MCTabs
    Credentials <- MCCredentials
    MaxChallenges = 3
    MaxUses = 2
    Nobody = Nobody
SYMMETRY Symmetric
INVARIANTS
    SettingsTypeOK
    NeverHalfConfigured
    SavesWhatWasEdited
    AgentsOnTheirCards
    PageIsDetermined
    PasskeysTypeOK
    LogoutLasts
PROPERTIES
    UndisturbedSucceeds
