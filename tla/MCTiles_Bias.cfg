SPECIFICATION TilingSpec
CONSTANTS
    DIM = 2
    MAX_BLOCK_LEN = 2
    MAX_BLOCK_LEN_ACC = 1
    ACC_ROWS = 16
    SpadRows = 48
    Quarter = 64
    Jobs <- BiasedJobs
CHECK_DEADLOCK FALSE
INVARIANT
    BiasLoadedFirst
