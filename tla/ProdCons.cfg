SPECIFICATION PCFairSpec
CONSTANTS
    c1 = c1
    c2 = c2
    c3 = c3
    p1 = p1
    p2 = p2
    Consumers <- MCThreeConsumers
    Producers <- MCTwoProducers
    NoThread = NoThread
    MaxReady = 3
INVARIANTS
    NoStaleCount
    NoLostWakeup
PROPERTY
    ReadyIsConsumed
