SPECIFICATION FairSpec
CONSTANTS
    Hosts = {1, 2}
    Switches = {3, 4, 5}
    AllLinks <- MCLinks
INVARIANTS
    RoutesAreShortest
    QpsOnLiveNics
    PacketsReachDst
PROPERTIES
    NoPacketCircles
CHECK_DEADLOCK FALSE
