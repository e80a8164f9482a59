\* A part of two blocks and a short one, two updates, one lors_trim, and a failure
\* and a kill anywhere.
CONSTANTS
    FileLen = 7
    BufSize = 6
    BlockSize = 3
    Reads = {3, 6}
    Ranges <- MCRanges
    MaxUpdates = 2
    MaxTrims = 1
    MaxFailures = 1
    MaxCrashes = 1
SPECIFICATION Spec
INVARIANTS
    TypeOK
    FileWhole
    DataTrue
    NamedAlive
