CONSTANTS
    p1 = p1
    p2 = p2
    d1 = d1
    d2 = d2
    e1 = e1
    Proc = {p1}
    Docs <- TwinDocs
    InstantOf <- DocInstant
    CapturedOf <- DocCaptured
    Absent = Absent
    Untrusted = Untrusted
    Free = Free
    Bad = Bad
    EmbeddedInstants = {0, 1}
    BootStatus = "stale"
    FutureSkew = 0
    Grace = 1
    MaxClock = 3
    MaxFaults = 1
SPECIFICATION FairSpec
INVARIANTS
    OkMatchesSource
PROPERTIES
    ServedNeverGoesBack
    OkIsFresh
    ImplementsFloorStore
    NewestIsServed
    NewestIsOk
