\* One worker, two blocks: the copy of the first one fails.
CONSTANTS
    d1 = d1
    d2 = d2
    d3 = d3
    Depots = {d1}
    ListLen = 1
    Flaky = {}
    Length = 3
    BlockSize = 2
    Cuts <- MCCuts
    Copies = 1
    NThreads = 1
    MaxTried = 1
    SourceCounts = {1}
    Deadlines = {FALSE}
SPECIFICATION Spec
INVARIANTS
    CopySuccess
