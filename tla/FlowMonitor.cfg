SPECIFICATION FairSpec
CONSTANTS
    FlowNum = 3
    Size <- MCSize
    Start <- MCStart
    Slot <- MCSlot
    Chunk = 2
    Threshold = 2
    MaxReports = 3
INVARIANTS
    TypeOK
    ReportIsCurrent
    FinalReportedOnce
    LatestReportCounted
    EndedByFlows
PROPERTIES
    StopsWhenAllFlowsFinish
CHECK_DEADLOCK FALSE
