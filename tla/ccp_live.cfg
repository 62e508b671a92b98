SPECIFICATION FairSpec
CONSTANTS
    MachineId = {m1, m2, m3}
    WorkerId = {w}
    Hash = {1, 2}
    FirstHash = 1
    BadConfig = {}
    Domains = {}
    MaxReplicas = 1
    MaxFaults = 0
    FaultKinds = {}
    MaxEdits = 1
    MaxBreaks = 0
    NodeFaults = {}
    MayDelete = TRUE
    MayDeleteMachines = TRUE
    Orphan = {m1}
    OrphanHash = {1}
    FreshReads = TRUE
    NoMachine = NoMachine
    NoFD = NoFD
    m1 = m1
    m2 = m2
    m3 = m3
    w = w
PROPERTIES
    UpgradeCompletes
    DeletionCompletes
CHECK_DEADLOCK FALSE
