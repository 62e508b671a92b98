SPECIFICATION Spec
CONSTANTS
    MachineId = {m1, m2}
    WorkerId = {}
    Hash = {1, 2}
    FirstHash = 1
    BadConfig = {}
    Domains = {}
    MaxReplicas = 1
    MaxFaults = 1
    FaultKinds = {"rejected", "lost", "crash"}
    MaxEdits = 0
    MaxBreaks = 0
    NodeFaults = {}
    MayDelete = FALSE
    MayDeleteMachines = FALSE
    Orphan = {m1}
    OrphanHash = {1, 2}
    FreshReads = FALSE
    NoMachine = NoMachine
    NoFD = NoFD
    m1 = m1
    m2 = m2
SYMMETRY MachineSymmetry
PROPERTIES
    InitializedOnce
    ActsOnOwned
CHECK_DEADLOCK FALSE
