CONSTANTS
    Msgs = {m1}
    Foreign = {}
    Timed = {}
    Confirmers = {t1}
    MaxFaults = 2
    MaxNacks = 0
    Prefetch = 2
    MaxCrashes = 0
    MaxScans = 0
SPECIFICATION Spec
CHECK_DEADLOCK FALSE
INVARIANT NackReachesFailQueue
