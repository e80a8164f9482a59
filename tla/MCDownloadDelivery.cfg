CONSTANTS
    NBlocks = 3
    Workers = {w1, w2}
    Depots = {d1, d2}
    Mappings = {m1, m2, m3}
    NoMapping = NoMapping
    PreBuf = 2
    Cache = 1
    MaxThdsPerDepot = 1
    ThdsPerJob = 2
    ProgressN = 1
    Flaky = {d1}
    Deadline = FALSE
    WriteErrors = FALSE
    Cand <- Mirrored
    DepotOf <- MCDepotOf
    d1 = d1
    d2 = d2
    m1 = m1
    m2 = m2
    m3 = m3
SPECIFICATION FairSpec
INVARIANTS
    ThreadCaps
PROPERTIES
    Returns
    Delivers
