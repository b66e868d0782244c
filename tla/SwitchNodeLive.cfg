SPECIFICATION FairSpec
CONSTANTS
    Ports = {1, 2}
    Queues = {1, 2}
    PacketSizes = {1}
    BufferSize = 3
    Reserve = 0
    Headroom <- MCHeadroomOne
    PfcDivisor <- MCPfcDivisorOne
    ResumeOffset = 1
    UintRange = 64
    QCnt = 3
    DataRoutes <- Forward
    Detours = {}
    ControlRoutes <- Back
    EcnEnabled = TRUE
    Kmin <- MCKmin
    Kmax <- MCKmax
    ControlSize = 1
    MaxControl = 0
    Downable = {}
    PeersObey = TRUE
    LossyLinks = FALSE
    MaxPfc = 1
PROPERTIES
    EventuallyResumed
CHECK_DEADLOCK FALSE
