SPECIFICATION BootstrapSpec
CONSTANTS
    Role = {"worker", "pool"}
    Token = {t1, t2}
    UserToken = {}
    TTL = 2
    MaxDelay = 0
    MaxClock = 1
    MaxFaults = 1
    PatchFaults = TRUE
    MayPivot = FALSE
    FreshReads = TRUE
    Mode = {"managed", "standalone"}
    None = None
    t1 = t1
    t2 = t2
INVARIANTS
    EndpointInData
    WorkerFollows
PROPERTIES
    EveryoneJoins
CHECK_DEADLOCK FALSE
