SPECIFICATION MCFairSpec
CONSTANTS
    Templates <- AllTemplates
    MaxCmds = 3
    Dataflow = "OS"
    InstCap = 2
    QueueCap <- SmallQueues
    ContlrCap <- SmallQueues
    RobCap = 2
    CommitWidth = 1
    MaxDma = 1
INVARIANTS
    TypeOK
    DependenceOrder
    UnitOrder
    FenceBarrier
    CommandsTracked
PROPERTIES
    EventuallyCommitted
