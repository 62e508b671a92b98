SPECIFICATION Spec
CONSTANTS
    MachineId = {m1, m2, m3}
    WorkerId = {}
    Hash = {1, 2}
    FirstHash = 1
    BadConfig = {}
    Domains = {}
    MaxReplicas = 1
    MaxFaults = 0
    FaultKinds = {}
    MaxEdits = 1
    MaxBreaks = 0
    NodeFaults = {}
    MayDelete = FALSE
    MayDeleteMachines = FALSE
    Orphan = {}
    OrphanHash = {}
    FreshReads = FALSE
    NoMachine = NoMachine
    NoFD = NoFD
    m1 = m1
    m2 = m2
    m3 = m3
SYMMETRY MachineSymmetry
PROPERTIES
    ScaleUpWaits
CHECK_DEADLOCK FALSE
