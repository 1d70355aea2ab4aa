SPECIFICATION SoftphoneSpec
CONSTANTS
    t1 = t1
    t2 = t2
    Threads = {t1, t2}
    Faults <- AllFaults
    None = None
    w1 = w1
    w2 = w2
    Workers = {w1, w2}
    j1 = j1
    j2 = j2
    Jobs = {j1, j2}
    NoWorker = NoWorker
INVARIANTS
    SoftphoneInv
    CallsFromRegisteredThreads
    OnlyStraysMissPjsua
CHECK_DEADLOCK FALSE
