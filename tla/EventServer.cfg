SPECIFICATION FairSpec
CONSTANTS
    c1 = c1
    c2 = c2
    Conns <- MCTwoConns
    Listen = Listen
    NoConn = NoConn
    Servers <- MCServers
    MaxLines = 2
    Window = 1
INVARIANTS
    PoolSound
    NreadyExact
    NeverWaitsForOne
    FailsOnResetOnly
PROPERTY
    Answered
CHECK_DEADLOCK FALSE
