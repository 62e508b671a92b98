SPECIFICATION Spec
CONSTANTS
    MachineId = {m1, m2, m3}
    WorkerId = {}
    Hash = {1, 2}
    FirstHash = 1
    BadConfig = {}
    Domains = {d1, d2}
    MaxReplicas = 1
    MaxFaults = 1
    FaultKinds = {"rejected"}
    MaxEdits = 2
    MaxBreaks = 0
    NodeFaults = {}
    MayDelete = TRUE
    MayDeleteMachines = FALSE
    Orphan = {}
    OrphanHash = {}
    FreshReads = TRUE
    NoMachine = NoMachine
    NoFD = NoFD
    m1 = m1
    m2 = m2
    m3 = m3
    d1 = d1
    d2 = d2
SYMMETRY MachineSymmetry
INVARIANTS
    NothingDangles
PROPERTIES
    FinalizerGuardsMachines
CHECK_DEADLOCK FALSE
