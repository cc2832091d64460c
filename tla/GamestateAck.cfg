CONSTANTS
    Sizes = {"small", "large"}
    MaxSequence = 6
    MaxChanges = 3
    MaxMaps = 2
    MaxInFlight = 2
SPECIFICATION Spec
INVARIANTS
    TypeOK
    AckedSameMap
    UpToDateUnlessQueued
CHECK_DEADLOCK FALSE
