SPECIFICATION Spec
CONSTANTS
    c1 = c1
    c2 = c2
    Calls = {c1, c2}
    s1 = s1
    Slots = {s1}
    a1 = a1
    Accounts = {a1}
    IncomingCap = 2
    StateCap = 3
    Faults <- NoFaults
    None = None
    Idle = Idle
INVARIANTS
    HangsUpOwnCall
CHECK_DEADLOCK FALSE
