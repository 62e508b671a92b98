SPECIFICATION FairSpec
CONSTANTS
    Caller = {p1, p2}
    Info = {w1}
    CacheId = {c1, c2}
    Threshold = 2
    MaxChanges = 2
    Reconciler = Reconciler
    None = None
    p1 = p1
    p2 = p2
    w1 = w1
    c1 = c1
    c2 = c2
INVARIANTS
    TypeOK
    RecordedWatchesAlive
PROPERTIES
    UnhealthyForgotten
CHECK_DEADLOCK FALSE
