CONSTANTS
    Sizes = {"small", "large"}
    MaxSequence = 8
    MaxInFlight = 1
    NUM_SNAPSHOT_FRAMES = 2
    numSnapshotEntities = 3
    MAX_GENTITIES = 2
    PACKET_BACKUP = 6
    MAX_SNAPSHOT_ENTITIES = 2
    Entities <- MCEntities
SPECIFICATION Spec
CHECK_DEADLOCK FALSE
INVARIANTS
    TypeOK
    StorageSound
    
    DeltasUsable
