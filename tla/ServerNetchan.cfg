CONSTANTS
    FRAGMENT_SIZE <- MCFragmentSize
    MAX_MSGLEN <- MCMaxMsgLen
    MaxFragments <- MCMaxFragments
    Lengths <- MCLengths
    MaxMessages = 4
SPECIFICATION FairSpec
INVARIANTS
    TypeOK
    DeliveredIntact
    DeliveredInOrder
    SentInOrder
    SentCompletely
    ShortReadable
PROPERTIES
    ImplementsLossyChannel
    QueueDrains
    FragmentsFinish
