SPECIFICATION FairSpec
CONSTANTS
    Versions <- MCVersions
    MaxLines = 2
    MaxKills = 1
INVARIANTS
    ZeroMeansAll
    SignalsStayHome
    StopsAfterReset
PROPERTIES
    PartnerFollows
    EndReachesPeer
CHECK_DEADLOCK FALSE
