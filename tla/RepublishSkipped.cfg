CONSTANTS
    Msgs = {m1}
    Foreign = {}
    Timed = {}
    Confirmers = {t1}
    MaxFaults = 0
    MaxNacks = 1
    Prefetch = 2
    MaxCrashes = 0
    MaxScans = 0
SPECIFICATION Spec
CHECK_DEADLOCK FALSE
INVARIANT RetryAckMeansPushed
