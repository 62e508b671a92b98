SPECIFICATION Spec
CONSTANTS
    MachineId = {m1, m2, m3, m4}
    WorkerId = {}
    Hash = {1, 2, 3}
    FirstHash = 1
    BadConfig = {3}
    Domains = {}
    MaxReplicas = 2
    MaxFaults = 0
    FaultKinds = {}
    MaxEdits = 1
    MaxBreaks = 1
    NodeFaults = {"unreachable"}
    MayDelete = FALSE
    MayDeleteMachines = FALSE
    Orphan = {}
    OrphanHash = {}
    FreshReads = TRUE
    NoMachine = NoMachine
    NoFD = NoFD
    m1 = m1
    m2 = m2
    m3 = m3
    m4 = m4
SYMMETRY MachineSymmetry
INVARIANTS
    TypeOK
    MachinesHaveFinalizer
PROPERTIES
    ScaleUpWaits
    ScaleDownKeepsReplicas
CHECK_DEADLOCK FALSE
