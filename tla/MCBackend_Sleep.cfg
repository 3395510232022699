SPECIFICATION MCSpec
CONSTANTS
    Templates <- AllInsns
    Programs <- MemPrograms
    MaxInsns = 4
    Width = 2
    RetireSize = 2
    RobSize = 3
    IssueQSize = 3
    LdqSize = 2
    StqSize = 2
    LoadUnits = 1
    L1LoadPorts = 1
    L1StorePorts = 1
INVARIANTS
    OperandsFinished
