SPECIFICATION ScreensSpec
CONSTANTS
    s1 = s1
    s2 = s2
    t1 = t1
    t2 = t2
    a = a
    b = b
    m2 = m2
    m3 = m3
    p1 = p1
    p2 = p2
    web = web
    mobile = mobile
    None = None
    Absent = Absent
    Stories = {t1, t2}
    Screens = {s1, s2}
    Mockups = {m2, m3}
    Clients = {a, b}
    Shared = {}
    MaxRev <- MCMaxRev
    MaxRequests = 3
    LinkLists <- MCLinkLists
    UseLists <- MCUseLists
    Embeds <- MCEmbeds
    PhaseOrder <- MCPhaseOrder
    PhaseOf <- MCPhaseOf
    StoryPhases <- MCStoryPhases
    Wanted <- MCWanted
    Shows <- MCShows
SYMMETRY Symmetric
CHECK_DEADLOCK FALSE
INVARIANTS
    DriftShows
    ResolvedOnce
    OkEverywhere
