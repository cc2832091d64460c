CONSTANTS
    MAX_RELIABLE_COMMANDS = 2
    MAX_PACKET_USERCMDS = 2
    cl_packetdup = 1
    MaxCommands = 3
    Userinfos = {2}
    MaxMoves = 3
    MaxInFlight = 1
SPECIFICATION FairSpec
CHECK_DEADLOCK FALSE
INVARIANTS
    TypeOK
    NothingGivenUp
PROPERTIES
    ImplementsClientRequests
    MovesCarriedOver
    RingDrains
