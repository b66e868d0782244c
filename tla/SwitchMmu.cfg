SPECIFICATION Spec
CONSTANTS
    Ports = {1, 2}
    Queues = {3}
    PacketSizes = {1, 2}
    BufferSize = 14
    Reserve = 1
    Headroom <- MCHeadroom
    PfcDivisor <- MCPfcDivisor
    ResumeOffset = 3
    UintRange = 64
INVARIANTS
    TypeOK
    IngressConserved
    EgressConserved
    HeadroomBound
    PausedHoldsBytes
    SharedExact
    OccupancyWithinBuffer
CHECK_DEADLOCK FALSE
