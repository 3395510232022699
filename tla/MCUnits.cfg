SPECIFICATION MCSpec
CONSTANTS
    PortFUs <- ThreePorts
    NotPipelined = {"DIV"}
    Templates <- AllTemplates
    NaiveModes = {TRUE, FALSE}
    IssueQSize = 3
    MaxOps = 3
    Source <- Loops
    Entry = "main"
    Chunk = 6
    Intervals = {0, 1, 2}
    Limits = {4, 9, 14, 17}
    MaxDepth = 2
    NumberedFirst = FALSE
    Tables <- ThreeTables
    ctrBits = 2
    uBitPeriod = 4
    pathHistBits = 4
    MaxHistLen = 5
    BaseEntries = 4
    GhrBits = 2
    InFlight = 2
    Patterns <- RepeatedBranches
    W = 6
    latency = 1
    Peak_BW = 1
    core_clockspeed = 1000
    bytes_per_req = 2
    epoch_length = 4
    MaxPerCycle = 2
    MaxPending = 4
    NUM_RANKS = 2
    NUM_BANKS = 2
    Timing <- ShortTiming
    RefreshCycles = 40
    CMD_QUEUE_DEPTH = 4
    TRANS_QUEUE_DEPTH = 1
    TOTAL_ROW_ACCESSES = 1
    Options <- FourSchemes
    Bursts <- ShortBursts
    BusBytes = 2
    BL = 2
    Geometries <- SmallMemories
    Speeds <- ClockRatios
    Codes = {13, 18, 32}
    windowSize = 2
    retireSize = 3
    RobSize = 3
    MaxCycles = 4
INVARIANTS
    OneUserAtATime
    FollowsProgram
    ProfiledChunk
    TrainsOnItsOwnPast
    SplitIsExact
    ServedInTime
    ProtocolKept
    ChannelsInStep
    ReportConsistent
PROPERTIES
    EventuallyIssued
    EveryTransactionDone
