SPECIFICATION Spec
CONSTANTS
    Flows = {1, 2}
    Classes = {3}
    Size <- MCSizeThree
    Pg <- MCPgSame
    Win <- MCWinThree
    Mtu = 1
    AckInterval = 1
    Chunk = 4
    BackTo0 = FALSE
    SeqRange = 32
    CounterRange = 64
    MaxLoss = 1
    MaxPause = 0
INVARIANTS
    OnTheFlyBounded
CHECK_DEADLOCK FALSE
