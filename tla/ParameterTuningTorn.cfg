SPECIFICATION Spec
CONSTANTS
    Threads = {t1, t2}
    Ratios <- MCRatios
    Utilities = {0, 1}
    Rounds = 1
    MaxTime = 5
INVARIANTS
    OneSetInForce
SYMMETRY Slots
CHECK_DEADLOCK FALSE
