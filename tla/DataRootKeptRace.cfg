CONSTANTS
    p1 = p1
    p2 = p2
    d1 = d1
    d2 = d2
    e1 = e1
    Proc = {p1, p2}
    Docs <- PairDocs
    InstantOf <- DocInstant
    CapturedOf <- DocCaptured
    Absent = Absent
    Untrusted = Untrusted
    Free = Free
    Bad = Bad
    EmbeddedInstants = {0}
    BootStatus = "stale"
    FutureSkew = 2
    Grace = 1
    MaxClock = 0
    MaxFaults = 0
SPECIFICATION LoopSpec
INVARIANTS
    KeptIsNamed
