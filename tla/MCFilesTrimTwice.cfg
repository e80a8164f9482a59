\* Two updates of one mapping, nothing fails.
CONSTANTS
    FileLen = 7
    BufSize = 6
    BlockSize = 3
    Reads = {3, 6}
    Ranges <- MCRanges
    MaxUpdates = 2
    MaxTrims = 0
    MaxFailures = 0
    MaxCrashes = 0
SPECIFICATION Spec
INVARIANTS
    MappingsTrue
