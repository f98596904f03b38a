SPECIFICATION SLFairSpec
CONSTANTS
    s1 = s1
    w1 = w1
    w2 = w2
    w3 = w3
    Starters <- MCOneStarter
    Workers <- MCThreeWorkers
    Owner <- MCOwnerOne
    SemVal = 2
    Rounds = 2
INVARIANTS
    Conservation
PROPERTIES
    EveryWorkerEnds
CHECK_DEADLOCK FALSE
