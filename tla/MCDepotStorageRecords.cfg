CONSTANTS
    a1 = a1
    a2 = a2
    t1 = t1
    t2 = t2
    Arrays = {a1, a2}
    NoArray = NoArray
    Threads = {t1, t2}
    Does <- TwoAllocators
    Sizes = {1}
    NewSizes = {}
    StableStorage = 2
    VolStorage = 2
    Lifetime = 1
    MaxNow = 0
    MaxRequests = 3
    MaxCrashes = 1
    CrashInRecovery = FALSE
SPECIFICATION Spec
INVARIANTS
    Durable
