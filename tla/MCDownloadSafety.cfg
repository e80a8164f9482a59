CONSTANTS
    NBlocks = 4
    Workers = {w1, w2}
    Depots = {d1, d2}
    Mappings = {m1, m2, m3}
    NoMapping = NoMapping
    PreBuf = 2
    Cache = 0
    MaxThdsPerDepot <- Unset
    ThdsPerJob = 2
    ProgressN = 1
    Flaky = {d1}
    Deadline = TRUE
    WriteErrors = TRUE
    Cand <- Striped
    DepotOf <- MCDepotOf
    d1 = d1
    d2 = d2
    m1 = m1
    m2 = m2
    m3 = m3
SPECIFICATION Spec
INVARIANTS
    TypeOK
    ThreadAccounting
    SlotAccounting
    ReplicaTriedOnce
    FailedExhausted
    OutputBookkeeping
    NoSilentTruncation
PROPERTIES
    ImplementsStream
CHECK_DEADLOCK FALSE
