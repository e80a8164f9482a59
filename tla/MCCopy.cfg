\* One depot in use, a spare one, and another that never fails; two sources at most.
CONSTANTS
    d1 = d1
    d2 = d2
    d3 = d3
    Depots = {d1, d2, d3}
    ListLen = 1
    Flaky = {d1, d2}
    Length = 3
    BlockSize = 2
    Cuts <- MCCuts
    Copies = 2
    NThreads = 2
    MaxTried = 1
    SourceCounts = {0, 1, 2}
    Deadlines = {TRUE, FALSE}
SPECIFICATION Spec
INVARIANTS
    TypeOK
    CopyTrue
    NothingOnError
