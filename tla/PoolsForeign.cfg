CONSTANTS
    w1 = w1
    w2 = w2
    t1 = t1
    t2 = t2
    t3 = t3
    s1 = s1
    p1 = p1
    p2 = p2
    Threads = {w1, w2}
    TxOwners = {t1, t2, t3}
    RxOwners = {}
    Config <- Configs
    Paths = {p1, p2}
    NoPath = NoPath
    MaxAlign = 4
    NoOwner = NoOwner
SPECIFICATION FairSpec
CHECK_DEADLOCK FALSE
INVARIANTS
    SlotsAreReturned
