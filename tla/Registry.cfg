SPECIFICATION FairRegistry
CONSTANTS
    N = 3
INVARIANTS
    IndexIsCurrent
PROPERTIES
    IndexCatchesUp
