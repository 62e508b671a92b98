SPECIFICATION Spec
CONSTANTS
    MachineId = {m1, m2, m3, m4, m5, m6}
    Domain = {d1, d2}
    Hash = {h1, h2}
    Replicas = 3
    MaxUpgrades = 2
    MaxChanges = 1
    NoFD = NoFD
    NoHash = NoHash
    m1 = m1
    m2 = m2
    m3 = m3
    m4 = m4
    m5 = m5
    m6 = m6
    d1 = d1
    d2 = d2
    h1 = h1
    h2 = h2
SYMMETRY PlacementSymmetry
INVARIANTS
    TypeOK
    SizeBounded
    StaysSpread
    Evacuated
    AlwaysPicks
CHECK_DEADLOCK FALSE
