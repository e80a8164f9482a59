CONSTANTS
    Conns = {c1, c2, c3}
    NoConn = NoConn
    MaxThreads = 2
    ThreadNum = 1
    QueueLen = 0
    MinIdle = 0
    GrowBy = 1
    Sends <- OneStatus
    Stalling = {c2, c3}
    Shutdowns = FALSE
    c1 = c1
    c2 = c2
    c3 = c3
SPECIFICATION FairSpec
PROPERTIES
    StatusServed
    AllServed
