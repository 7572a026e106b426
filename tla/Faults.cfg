CONSTANTS
    Msgs = {m1, m2}
    Foreign = {m2}
    Timed = {m1}
    Confirmers = {t1}
    MaxFaults = 2
    MaxNacks = 1
    Prefetch = 3
    MaxCrashes = 1
    MaxScans = 0
SPECIFICATION FairSpec
CHECK_DEADLOCK FALSE
INVARIANTS
    TypeOK
    KnownMessages
    SuccessMeansPushed
    AckLeavesACopy
    SingleCopy
    DuplicatesHaveACause
    NothingLost
PROPERTIES
    KeepsPromise
    QueuesDrain
    EventuallySettled
