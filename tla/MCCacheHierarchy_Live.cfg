SPECIFICATION FairSpec
CONSTANTS
    Lines <- TwoLines
    Requests <- MixedRequests
    MaxRequests = 3
    Sets <- One
    Ways <- One
    Latency <- Slow
    MshrSize <- One
    LoadPorts <- TwoInL1D
    StorePorts <- One
    ReadPorts = 1
    WritePorts = 1
    MayRefuse = FALSE
PROPERTIES
    EveryRequestAnswered
