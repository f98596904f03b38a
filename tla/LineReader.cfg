SPECIFICATION FairSpec
CONSTANTS
    Length = 7
    MaxLine = 4
    Layouts <- MCAllLayouts
INVARIANTS
    FittingEndsAtClose
PROPERTIES
    ImplementsStream
    AllDelivered
CHECK_DEADLOCK FALSE
