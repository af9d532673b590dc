SPECIFICATION FairSpec
CONSTANTS
    Roles = {"calendar", "commits"}
    Interval = 2
    Budget <- Shared
    TTL = 1
    InitialBackoff = 1
    MaxBackoff = 3
    MaxStep = 2
    MaxJumps = 1
    Longest = 3
INVARIANTS
    ActivityInv
    NeverFrozen
PROPERTIES
    ImplementsRateBudget
    AskedAgain
    RecoversForGood
