SPECIFICATION Spec
CONSTANTS
    c1 = c1
    Calls = {c1}
    s1 = s1
    Slots = {s1}
    a1 = a1
    Accounts = {a1}
    IncomingCap = 1
    StateCap = 3
    Faults <- NoFaults
    None = None
    Idle = Idle
INVARIANTS
    MediaDataAlwaysReceived
CHECK_DEADLOCK FALSE
