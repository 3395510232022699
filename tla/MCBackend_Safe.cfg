SPECIFICATION MCSpec
CONSTANTS
    Templates <- AllInsns
    Programs <- SafetyPrograms
    MaxInsns = 4
    Width = 2
    RetireSize = 2
    RobSize = 4
    IssueQSize = 3
    LdqSize = 2
    StqSize = 2
    LoadUnits = 1
    L1LoadPorts = 1
    L1StorePorts = 1
INVARIANTS
    WithinLimits
    PreciseRetirement
    LoadsSeeStores
    AcceleratorInOrder
