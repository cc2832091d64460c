CONSTANTS
    maxclients = 2
    MAX_RELIABLE_COMMANDS = 3
    BotsAllowed = FALSE
    MaxOutstanding = 6
SPECIFICATION Spec
INVARIANT
    DisconnectsOnce
CHECK_DEADLOCK FALSE
