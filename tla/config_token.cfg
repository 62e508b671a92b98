SPECIFICATION Spec
CONSTANTS
    Role = {"controlplane", "worker", "pool", "mismatch"}
    Token = {t1, t2, t3, u}
    UserToken = {u}
    TTL = 4
    MaxDelay = 1
    MaxClock = 8
    MaxFaults = 2
    PatchFaults = FALSE
    MayPivot = TRUE
    FreshReads = TRUE
    None = None
    t1 = t1
    t2 = t2
    t3 = t3
    u = u
SYMMETRY TokenSymmetry
INVARIANTS
    TypeOK
    TokenAlive
PROPERTIES
    ImplementsContract
CHECK_DEADLOCK FALSE
