CONSTANTS
    Msgs = {m1}
    Foreign = {}
    Timed = {}
    Confirmers = {t1, t2}
    MaxFaults = 1
    MaxNacks = 3
    Prefetch = 2
    MaxCrashes = 1
    MaxScans = 1
SYMMETRY Symmetry
SPECIFICATION Spec
CHECK_DEADLOCK FALSE
INVARIANT FailQueueAfterLimit
