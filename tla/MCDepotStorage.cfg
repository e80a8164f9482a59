CONSTANTS
    a1 = a1
    a2 = a2
    t1 = t1
    t2 = t2
    Arrays = {a1, a2}
    NoArray = NoArray
    Threads = {t1, t2}
    Does <- Mixed
    Sizes = {1}
    NewSizes = {1, 2}
    StableStorage = 2
    VolStorage = 3
    Lifetime = 0
    MaxNow = 1
    MaxRequests = 5
    MaxCrashes = 1
    CrashInRecovery = FALSE
SPECIFICATION Spec
SYMMETRY AnyName
ACTION_CONSTRAINT CrashInOrder
INVARIANTS
    TypeOK
    SpaceAccounted
    OvershootBounded
    OneWriter
    FlagHasOwner
    NoResurrection
    Durable
