SPECIFICATION Spec
CONSTANTS
    t1 = t1
    t2 = t2
    t3 = t3
    Threads = {t1, t2, t3}
    Faults <- AllFaults
    None = None
INVARIANTS
    IInv
    HandleOwnsPjsua
    RefusedForAReason
PROPERTIES
    DestroyedForGood
    KeepsPromise
CHECK_DEADLOCK FALSE
