SPECIFICATION FairSpec
CONSTANTS
    c1 = c1
    c2 = c2
    f1 = f1
    Conns <- MCTwoConns
    Failures <- MCOneFailure
    Parent = Parent
    Listen = Listen
    Stdin = Stdin
    NoSession = NoSession
    MaxRequests <- MCRequests
    Window = 1
INVARIANTS
    NoStrayDescriptor
    ZombieNoticed
    PortFreed
PROPERTIES
    ClosedIsReleased
    ReplyGivenUp
CHECK_DEADLOCK FALSE
