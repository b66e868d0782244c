SPECIFICATION PfcSpec
CONSTANTS
    l1 = l1
    l2 = l2
    Links = {l1, l2}
    Period = 2
    Window = 2
    MaxTime = 5
    MaxRows = 3
    MaxReads = 3
INVARIANTS
    CarriedIsReplay
    CountIsExact
SYMMETRY Symmetry
CHECK_DEADLOCK FALSE
