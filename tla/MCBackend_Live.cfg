SPECIFICATION MCFairSpec
CONSTANTS
    Templates <- AllInsns
    Programs <- MixedPrograms
    MaxInsns = 3
    Width = 2
    RetireSize = 2
    RobSize = 3
    IssueQSize = 3
    LdqSize = 2
    StqSize = 1
    LoadUnits = 1
    L1LoadPorts = 1
    L1StorePorts = 1
PROPERTIES
    EventuallyRetired
