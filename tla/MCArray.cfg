SPECIFICATION MCSpec
CONSTANTS
    Dim = 3
    TileM = {2, 3}
    TileN = {1, 3}
    MaxPreload = 2
    MaxMul = 3
    Side = 3
    TileK = {3, 4}
    MaxLoad = 1
    MaxProd = 4
    MsSize = 16
    BusLines = 2
    Waves = 2
    Plans <- TreePlans
    Lates <- SlowSets
    NumMs = 8
    ReadPorts = 2
    Mappings <- FlexMappings
    Delays <- SumDelays
    DIM = 2
    MAX_BLOCK_LEN = 2
    MAX_BLOCK_LEN_ACC = 1
    ACC_ROWS = 16
    SpadRows = 48
    Quarter = 64
    Jobs <- MatJobs
    Convs <- ConvJobs
    Networks <- FittingNetworks
    elem_t = "f32"
INVARIANTS
    ExactProducts
    ExactSums
    TreeSumsExact
    LayerExact
    TilingCorrect
    ConvExact
    NetworkComputed
PROPERTIES
    SignalsSpec
    OutputArrayQuiesces
    TreeDrains
    LayerFinishes
