CONSTANTS
    FRAGMENT_SIZE <- MCFragmentSize
    MAX_MSGLEN <- MCMaxMsgLen
    MaxFragments <- MCMaxFragments
    Lengths <- MCLongLengths
    MaxMessages = 1
SPECIFICATION Spec
INVARIANT
    ReadableWhenComplete
