CONSTANTS
    Sizes = {"small", "large"}
    MaxSequence = 8
    MaxChanges = 3
    MaxMaps = 1
    MaxInFlight = 2
SPECIFICATION Spec
INVARIANT
    ActiveUpToDate
CHECK_DEADLOCK FALSE
