SPECIFICATION FairSpec
CONSTANTS
    Flows = {1, 2}
    Classes = {1, 2}
    Size <- MCSizeTwo
    Pg <- MCPgByFlow
    Win <- MCWinOne
    Mtu = 1
    AckInterval = 1
    Chunk = 4
    BackTo0 = FALSE
    SeqRange = 32
    CounterRange = 64
    MaxLoss = 0
    MaxPause = 1
INVARIANTS
    OnTheFlyBounded
PROPERTIES
    AllComplete
CHECK_DEADLOCK FALSE
