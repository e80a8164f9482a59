CONSTANTS
    Conns = {c2, c3}
    NoConn = NoConn
    MaxThreads = 3
    ThreadNum = 1
    QueueLen = 1
    MinIdle = 1
    GrowBy = 1
    Sends <- Both
    Stalling = {}
    Shutdowns = TRUE
    c1 = c1
    c2 = c2
    c3 = c3
SPECIFICATION Spec
INVARIANTS
    TypeOK
    OneOwner
    PoolAccounting
    WorkConserving
PROPERTIES
    ImplementsService
