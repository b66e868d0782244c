SPECIFICATION Spec
CONSTANTS
    Ports = {1, 2}
    Queues = {1, 2}
    PacketSizes = {1}
    BufferSize = 4
    Reserve = 0
    Headroom <- MCHeadroomOne
    PfcDivisor <- MCPfcDivisor
    ResumeOffset = 1
    UintRange = 64
    QCnt = 3
    DataRoutes <- ForwardOrBack
    Detours <- BackAgain
    ControlRoutes <- Back
    EcnEnabled = FALSE
    Kmin <- MCKmin
    Kmax <- MCKmax
    ControlSize = 1
    MaxControl = 1
    Downable = {2}
    PeersObey = FALSE
    LossyLinks = TRUE
    MaxPfc = 1
INVARIANTS
    TypeOK
    WorkConserving
    NeighbourAgrees
    ReadyUnlessHairpin
PROPERTIES
    MmuRefinement
CHECK_DEADLOCK FALSE
