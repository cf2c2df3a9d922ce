\* Two clients whose requests interleave query by query, with queries that
\* fail and processes that stop; fair, so without symmetry.
SPECIFICATION FairSpec
CONSTANTS
    Versions = {1, 2}
    Ids = {1}
    Specs = {0, 1}
    Progs = {0}
    PureSpec = {1}
    Clients = {c1, c2}
    Tools = {"edit", "create", "create_version", "lock_version", "web_init"}
    Faults = {"error", "crash"}
INVARIANTS
    ParentOlder
PROPERTIES
    SettledStaysFrozen
    LockTakesHold
CHECK_DEADLOCK FALSE
