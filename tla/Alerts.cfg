CONSTANTS
    Alerts = {a1, a2}
    Pushers = {p1, p2}
    Sessions = {s1, s2}
    MaxFaults = 1
SPECIFICATION Spec
SYMMETRY Symmetry
CHECK_DEADLOCK FALSE
INVARIANTS
    TypeOK
    LostHasACause
    CachedOnce
    WaitingHasACause
