SPECIFICATION FairSpec
CONSTANTS
    Publisher = {p1, p2, p3}
    MaxMain = 2
    Stray = stray
    Absent = absent
    Unsaid = unsaid
    Attempts = 3
    MaxFaults = 1
    MaxHands = 1
INVARIANTS
    BadgesInv
PROPERTIES
    NeverOlder
    NewestStands
CHECK_DEADLOCK FALSE
