SPECIFICATION FairSpec
CONSTANTS
    Config = {a, b}
    Worker = {w}
    CCP = CCP
    MaxKeys = 6
    Modes = {"managed", "standalone"}
    DeleteModes = {"managed"}
    MaxFaults = 1
    None = None
    Purposes <- MCPurposes
    a = a
    b = b
    w = w
INVARIANTS
    TypeOK
    OneIdentity
PROPERTIES
    ImplementsIdentity
    EveryConfigReady
CHECK_DEADLOCK FALSE
