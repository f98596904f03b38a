SPECIFICATION FairSpec
CONSTANTS
    Length = 14
    HeaderSize = 2
    BufSize = 3
    Layouts <- MCLayouts
INVARIANTS
    FramingKept
PROPERTIES
    ImplementsStream
    AllDelivered
CHECK_DEADLOCK FALSE
