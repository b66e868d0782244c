SPECIFICATION FairSpec
CONSTANTS
    Flows = {1, 2, 3}
    Pg <- MCPg
    Started <- MCStarted
    MinCnpInterval = 1
    EntryTimeout = 2
    InitialCnpOffset = 2
    LineRate = 6
    ParameterSets <- MCParameterSets
    PlusActiveStep = 1
    PlusHyperStep = 2
    RpgThreshold = 1
    ClampTgtRate = FALSE
    MaxBack = 1
    MaxLate = 1
INVARIANTS
    TypeOK
    SchedulerConsistent
    TimersEndWithQp
PROPERTIES
    MarksAnswered
    RateRecovers
CHECK_DEADLOCK FALSE
