CONSTANTS
    MAX_CMD_BUFFER = 12
    Command = {2, 3}
    MaxWait = 2
    MaxCalls = 4
SPECIFICATION Spec
INVARIANTS
    TypeOK
PROPERTIES
    ImplementsCommandStream
