\* Two calls in one request or in two, over two projects.
SPECIFICATION Spec
CONSTANTS
    p = p
    q = q
    Projects = {p, q}
    Requests = {r1, r2}
    Calls = {c1, c2}
    Versions = {1}
    Global = Global
    Grantable <- MCGrantable
    Databases <- MCDatabases
    Tools = {"set_active_phase", "init_project"}
    Routes <- MCRoutes
    MaxEvents = 2
    None = None
SYMMETRY MCSymmetry
INVARIANTS
    RanWithLeave
    OneRowEach
CHECK_DEADLOCK FALSE
