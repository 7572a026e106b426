CONSTANTS
    Threads = {t1}
    NoThread = NoThread
    SequenceSize = 2
    Nodes = 2
    Node = 0
    MaxTime = 3
    MaxSetBacks = 0
SPECIFICATION FairSpec
CHECK_DEADLOCK FALSE
PROPERTY NextMillisReturns
