SPECIFICATION Spec
CONSTANTS
    Lines <- ThreeLines
    Requests <- MixedRequests
    MaxRequests = 3
    Sets <- One
    Ways <- TwoInL2
    Latency <- One
    MshrSize <- TwoInL2
    LoadPorts <- TwoInL1D
    StorePorts <- TwoInL1D
    ReadPorts = 1
    WritePorts = 1
    MayRefuse = TRUE
INVARIANTS
    RequestsKept
