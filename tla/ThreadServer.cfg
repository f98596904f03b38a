SPECIFICATION FairSpec
CONSTANTS
    k1 = k1
    k2 = k2
    j1 = j1
    j2 = j2
    Clients <- MCClients
    Junk <- MCJunk
    MaxFd = 1
    Permits = 2
    MaxStarts = 1
    Crowded = TRUE
INVARIANTS
    OwnConnection
    PerformedOnce
    PermitsKept
PROPERTY
    AnsweredOrTold
CHECK_DEADLOCK FALSE
