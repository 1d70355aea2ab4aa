SPECIFICATION Spec
CONSTANTS
    t1 = t1
    t2 = t2
    t3 = t3
    Threads = {t1, t2, t3}
    Faults <- AllFaults
    None = None
INVARIANTS
    DestroyedLast
CHECK_DEADLOCK FALSE
