SPECIFICATION FairSpec
CONSTANTS
    d1 = d1
    d2 = d2
    NoDepot = NoDepot
    Depots = {d1, d2}
    Pool <- TwoDepots
    ListLen = 2
    NJobs = 2
    NThreads = 2
    MaxTried = 1
    Flaky = {d1, d2}
    RetryOpts = {TRUE, FALSE}
    Deadlines = {TRUE, FALSE}
INVARIANTS
    TypeOK
    OneWorkerPerJob
    MappingsFull
    ReturnsTruth
PROPERTIES
    Returns
