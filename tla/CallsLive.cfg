SPECIFICATION LiveSpec
CONSTANTS
    c1 = c1
    c2 = c2
    Calls = {c1, c2}
    s1 = s1
    Slots = {s1}
    a1 = a1
    a2 = a2
    Accounts = {a1, a2}
    IncomingCap = 2
    StateCap = 3
    Faults <- NoFaults
    None = None
    Idle = Idle
PROPERTIES
    AddReturns
    HangupSeen
CHECK_DEADLOCK FALSE
