SPECIFICATION Spec
CONSTANTS
    Clients = {c1, c2}
    Versions = {"1.0.0", "1.1.0"}
    Ids = {"requirement", "story"}
    Registry = "version"
    Misread <- MCEdited
    HangUps <- MCEdited
    None = None
    Payload <- MCPayload
    Exports <- MCExports
    Data <- MCData
    Order <- MCOrder
    Needs <- MCNeeds
    Edited <- MCEdited
    Contents = {"a"}
    MaxCalls = 2
    Present <- MCPresent
SYMMETRY MCSymmetry
INVARIANTS
    BaselinesShut
    Replays
CHECK_DEADLOCK FALSE
