SPECIFICATION FairSpec
CONSTANTS
    BlockShapes <- Shapes
    MaxOps = 6
    NInst = 2
    FetchWidth = 2
    DecodeWidth = 2
    FlushPenalty = 2
INVARIANTS
    FetchInOrder
PROPERTIES
    EventuallyDispatched
