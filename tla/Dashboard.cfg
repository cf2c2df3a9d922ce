SPECIFICATION Spec
CONSTANTS
    First = "shop"
    VersionsOf <- MCVersionsOf
    Current <- MCCurrent
    ActivePhase <- MCActivePhase
    PhasesOf <- MCPhasesOf
    MaxEvents = 3
    MaxEdits <- MCMaxEdits
    None = None
    All = "all"
INVARIANTS
    PanelsFollow
    ListsKeepUp
CHECK_DEADLOCK FALSE
