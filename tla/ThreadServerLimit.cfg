SPECIFICATION FairSpec
CONSTANTS
    k1 = k1
    k2 = k2
    j1 = j1
    j2 = j2
    Clients <- MCClients
    Junk <- MCJunk
    MaxFd = 2
    Permits = 2
    MaxStarts = 1
    Crowded = FALSE
PROPERTY
    ReceiveEnds
CHECK_DEADLOCK FALSE
