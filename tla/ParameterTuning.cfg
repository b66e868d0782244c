SPECIFICATION Spec
CONSTANTS
    Threads = {t1, t2}
    Ratios <- MCRatios
    Utilities = {0, 1}
    Rounds = 2
    MaxTime = 5
INVARIANTS
    OneTuner
    FlagIsHonest
    EndsWithBest
SYMMETRY Slots
CHECK_DEADLOCK FALSE
