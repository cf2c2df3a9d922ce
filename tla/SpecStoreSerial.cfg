\* One client and every MCP tool: requests never overlap.  A process may start.
SPECIFICATION Spec
CONSTANTS
    Versions = {1, 2}
    Ids = {1, 2}
    Specs = {0, 1}
    Progs = {0, 1}
    PureSpec = {1}
    Clients = {c1}
    Tools = {"edit", "create", "create_with_id", "delete", "create_version", "lock_version", "unlock_version",
             "set_active_version", "init_project"}
    Faults = {"boot"}
INVARIANTS
    TypeOK
    OneDraft
    PointersKnown
PROPERTIES
    KeepsPromise
    AllocatedIdsFresh
CHECK_DEADLOCK FALSE
