SPECIFICATION MEFairSpec
CONSTANTS
    c1 = c1
    c2 = c2
    c3 = c3
    Clients <- MCClients
    Request = Request
    NoMessage = NoMessage
    Capacity = 3
    MaxLines = 2
    MaxCrashes = 1
INVARIANTS
    AnswerIsOwn
    NeverFullForAnswer
PROPERTY
    Answered
CHECK_DEADLOCK FALSE
