\* One client with every tool, requests cut short anywhere, and a lock that
\* comes and goes at any moment.  Screens are to a phase what requirements are.
SPECIFICATION Spec
CONSTANTS
    Phases = {p1, p2}
    Reqs = {r1, r2}
    Stories = {s1}
    Screens = {}
    Adrs = {a1}
    NoPhase = NoPhase
    Clients = {c1}
    Tools = {"create", "update", "delete_requirement", "delete_phase", "set_active_phase",
             "assign_requirements_to_phase", "import_adrs_from_files", "delete_document"}
    Stops = TRUE
INVARIANTS
    StoriesTraced
    NothingDangles
    ActivePhaseLive
SYMMETRY Symmetric
CHECK_DEADLOCK FALSE
