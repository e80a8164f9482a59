\* Three runs of the tool, two failures and two kills.
CONSTANTS
    Exnodes <- MCExnodes
    Args <- MCArgs
    BlockSize = 2
    MaxRuns = 3
    MaxFailures = 2
    MaxKills = 2
SPECIFICATION Spec
INVARIANTS
    TypeOK
    OutputTrue
    SuccessWhole
