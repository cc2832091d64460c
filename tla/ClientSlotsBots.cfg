CONSTANTS
    maxclients = 2
    MAX_RELIABLE_COMMANDS = 3
    BotsAllowed = TRUE
    MaxOutstanding = 6
SPECIFICATION Spec
INVARIANT
    LiveWithinRing
CHECK_DEADLOCK FALSE
