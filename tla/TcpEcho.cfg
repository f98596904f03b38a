SPECIFICATION FairSpec
CONSTANTS
    c1 = c1
    c2 = c2
    Versions <- MCVersions
    Clients <- MCClients
    MaxLines = 2
    Rounds = 2
    MaxRestarts = 1
INVARIANTS
    EchoesItsLines
    InStep
PROPERTIES
    BindsAgain
    NobodyForgotten
CHECK_DEADLOCK FALSE
