CONSTANTS
    p1 = p1
    p2 = p2
    d1 = d1
    d2 = d2
    e2 = e2
    Proc = {p1, p2}
    Docs <- MCDocs
    InstantOf <- MCInstantOf
    Absent = Absent
    Untrusted = Untrusted
    Free = Free
    MaxFaults = 3
SPECIFICATION StoreSpec
INVARIANTS
    AckedIsDurable
PROPERTIES
    FloorNeverDrops
    ImplementsReplayFloor
