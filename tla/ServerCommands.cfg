CONSTANTS
    MAX_RELIABLE_COMMANDS = 3
    MaxCommands = 6
    MaxInFlight = 2
SPECIFICATION FairSpec
INVARIANTS
    TypeOK
    PendingKept
    ExecutedAsIssued
    SnapshotAfterCommands
    NothingGivenUp
    AcknowledgedReceived
PROPERTIES
    AcknowledgeMonotone
    EventuallyExecuted
CHECK_DEADLOCK FALSE
