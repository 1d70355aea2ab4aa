SPECIFICATION Spec
CONSTANTS
    c1 = c1
    c2 = c2
    Calls = {c1, c2}
    s1 = s1
    Slots = {s1}
    a1 = a1
    a2 = a2
    Accounts = {a1, a2}
    IncomingCap = 1
    StateCap = 3
    Faults <- AllFaults
    None = None
    Idle = Idle
SYMMETRY Symmetry
INVARIANTS
    OwnEvents
    Released
    NoCallOutlivesHandle
PROPERTIES
    FullQueueIsStale
    KeepsPromise
    CallsKeepPorts
    UndefinedHasCause
CHECK_DEADLOCK FALSE
