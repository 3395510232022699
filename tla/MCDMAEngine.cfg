SPECIFICATION FairSpec
CONSTANTS
    c1 = c1
    c2 = c2
    Cmds <- TwoCmds
    Sizes = {0, 1, 3}
    L2Modes = {TRUE, FALSE}
    MaxInFlight = 2
    BaseLatency = 3
    Delay = 2
INVARIANTS
    TransfersAccountedFor
PROPERTIES
    InterfaceSpec
    EveryTransferEnds
