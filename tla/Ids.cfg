CONSTANTS
    Threads = {t1, t2}
    NoThread = NoThread
    SequenceSize = 2
    Nodes = 2
    Node = 0
    MaxTime = 3
    MaxSetBacks = 2
SYMMETRY Symmetry
SPECIFICATION Spec
CHECK_DEADLOCK FALSE
INVARIANTS
    TypeOK
    IdsIncrease
