SPECIFICATION Spec
CONSTANTS
    Users = {u1}
    Ips = {}
    NoIp = NoIp
    MaxAttempts = 2
    MaxLockout = 2
    IdleTime = 2
    SweepAt = 1
    FailureCap = 4
    Requests = {r1}
    Sessions = {s1}
    Secrets = {x1, x2}
    Codes = {c1, c2}
    CodeCount = 1
    Drift = 1
    Overlap = FALSE
    Happens = {"mistake", "expiry", "stop"}
    None = None
INVARIANTS
    NoUnprotectedSession
    RecoveryCodesTrack
    SpentIsCovered
PROPERTIES
    Reopens
