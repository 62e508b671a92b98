SPECIFICATION FairSpec
CONSTANTS
    Role = {"controlplane", "worker", "pool", "mismatch"}
    Token = {t1, t2, t3, u}
    UserToken = {u}
    TTL = 2
    MaxDelay = 0
    MaxClock = 4
    MaxFaults = 1
    PatchFaults = TRUE
    MayPivot = FALSE
    FreshReads = TRUE
    None = None
    t1 = t1
    t2 = t2
    t3 = t3
    u = u
PROPERTIES
    BecomesReady
CHECK_DEADLOCK FALSE
