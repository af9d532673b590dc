SPECIFICATION FairSpec
CONSTANTS
    Blocks = {b1, b2}
    MaxLoops = 2
    MaxVersion = 2
INVARIANTS
    WatchInv
PROPERTIES
    NothingOlderIsShown
    VisibleCatchesUp
