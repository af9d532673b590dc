SPECIFICATION Spec
CONSTANTS
    MaxTime = 4
    NotifyAfter = 1
    MaxBack = 2
    MaxFaults = 1
INVARIANTS
    NotifiedInTime
PROPERTIES
    ServedIsTrue
    ServingIsFound
