SPECIFICATION Spec
CONSTANTS
    c1 = c1
    c2 = c2
    Calls = {c1, c2}
    s1 = s1
    s2 = s2
    Slots = {s1, s2}
    a1 = a1
    Accounts = {a1}
    IncomingCap = 2
    StateCap = 3
    Faults <- NoFaults
    None = None
    Idle = Idle
SYMMETRY Symmetry
INVARIANTS
    IInv
    StateChannelSuffices
    ActiveCallDataLive
    NobodyWaitsInVain
    MediaReady
    EventsOrdered
    OthersOnlyWhenOver
    ConnectFailsInDropOnly
CHECK_DEADLOCK FALSE
