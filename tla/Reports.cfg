SPECIFICATION Spec
CONSTANTS
    p1 = p1
    p2 = p2
    r1 = r1
    r2 = r2
    s1 = s1
    s2 = s2
    c1 = c1
    c2 = c2
    b = b
    None = None
    Lost = Lost
    Absent = Absent
    Reqs = {r1, r2}
    Stories = {s1, s2}
    Scenarios = {c1, c2}
    MayRetire = {r2}
    Times = {1, 2}
    MaxEvents = 2
    Malformed = {c2}
    Mrs = {1, 2}
    Branches = {b}
    RefChoices = {{s1}}
    Delivered = {p1}
    PhaseOrder <- MCPhaseOrder
    PhaseChoices <- MCPhaseChoices
    LinkChoices <- MCLinkChoices
    TagChoices <- MCTagChoices
    DiskTags <- MCDiskTags
CHECK_DEADLOCK FALSE
INVARIANTS
    LatestWins
    GapsExplain
    ChainIsWhole
    SurfacesAgree
PROPERTIES
    RunsStayInPhase
    MigrationIsWhole
