SPECIFICATION FairSpec
CONSTANTS
    MachineId = {m1, m2, m3}
    WorkerId = {}
    Hash = {1}
    FirstHash = 1
    BadConfig = {}
    Domains = {}
    MaxReplicas = 2
    MaxFaults = 1
    FaultKinds = {"rejected"}
    MaxEdits = 0
    MaxBreaks = 0
    NodeFaults = {}
    MayDelete = FALSE
    MayDeleteMachines = FALSE
    Orphan = {}
    OrphanHash = {}
    FreshReads = TRUE
    NoMachine = NoMachine
    NoFD = NoFD
    m1 = m1
    m2 = m2
    m3 = m3
PROPERTIES
    InitializationCompletes
CHECK_DEADLOCK FALSE
