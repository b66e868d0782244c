SPECIFICATION Spec
CONSTANTS
    Flows = {1, 2}
    Classes = {3}
    Size <- MCSizeUneven
    Pg <- MCPgSame
    Win <- MCWinUneven
    Mtu = 2
    AckInterval = 1
    Chunk = 4
    BackTo0 = FALSE
    SeqRange = 32
    CounterRange = 64
    MaxLoss = 2
    MaxPause = 1
INVARIANTS
    TypeOK
    AckedIsReceived
    PickInRange
    NoSpuriousRetransmission
    CompletionIsFinal
CHECK_DEADLOCK FALSE
