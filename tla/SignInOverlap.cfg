SPECIFICATION Spec
CONSTANTS
    Users = {u1}
    Ips = {}
    NoIp = NoIp
    MaxAttempts = 2
    MaxLockout = 1
    IdleTime = 1
    SweepAt = 1
    FailureCap = 2
    Requests = {r1, r2}
    Sessions = {s1}
    Secrets = {x1, x2, x3}
    Codes = {}
    CodeCount = 0
    Drift = 1
    Overlap = TRUE
    Happens = {"stop"}
    None = None
INVARIANTS
    ConfirmedIsHeld
    OwedFactorProven
    EndedStaysEnded
PROPERTIES
    WatermarkAdvances
SYMMETRY Symmetric
