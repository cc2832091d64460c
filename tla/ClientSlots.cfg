CONSTANTS
    maxclients = 2
    MAX_RELIABLE_COMMANDS = 3
    BotsAllowed = TRUE
    MaxOutstanding = 6
SPECIFICATION Spec
INVARIANTS
    TypeOK
    PlayersWithinRing
    GameKnowsConnected
PROPERTIES
    ToldLast
    DropsNested
CHECK_DEADLOCK FALSE
