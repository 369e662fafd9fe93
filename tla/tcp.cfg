SPECIFICATION FairSpec
CONSTANTS
    SND_BUF = 3
    LENGTHS <- MCLengths
    SEGMENTS <- MCSegments
    READS <- MCReads
    MAX_WRITTEN = 4
    MAX_RECEIVED = 3
    MAX_CONNECTIONS = 2
INVARIANTS TypeOK Usable AvailableIsUnread
PROPERTIES ReadInOrder ReadsAsStream SendInOrder WrittenIsGiven
