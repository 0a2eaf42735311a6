CONSTANTS
    w1 = w1
    w2 = w2
    Workers <- MCWorkers
    Outcomes = {"empty"}
SPECIFICATION FairSpec
INVARIANTS
    CacheOutlivesItsUsers
PROPERTIES
    ImplementsCache
    WorkersEnd
    ShutdownEnds
CHECK_DEADLOCK FALSE
