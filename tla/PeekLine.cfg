SPECIFICATION PLFairSpec
CONSTANTS
    Length = 6
    MaxLine = 4
    Layouts <- MCAllLayouts
PROPERTIES
    EndsWithTheLine
    WholeLinesDelivered
    PLAllDelivered
CHECK_DEADLOCK FALSE
