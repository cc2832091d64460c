CONSTANTS
    RETRANSMIT_TIMEOUT = 3
    sv_reconnectlimit = 3
    Window = 16
    JustConnectedTime = 4
    Burst = 10
    MaxDelay = 1
    MaxCopies = 2
    StartTime = 13
    MaxTime = 31
    MaxAttempts = 2
SPECIFICATION ConnectionSpec
INVARIANTS
    ConnectionTypeOK
    DropsForgiven
    ConnectsInTime
PROPERTIES
    EstablishedKept
CHECK_DEADLOCK FALSE
