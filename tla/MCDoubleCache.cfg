CONSTANTS
    w1 = w1
    w2 = w2
    w3 = w3
    Workers <- MCWorkers
    Outcomes = {"loaded", "empty"}
SPECIFICATION FairSpec
INVARIANTS
    TypeOK
    SemCountsUsers
    NoUseDuringUpdate
    ReleaseNeverBlocks
    
PROPERTIES
    StableWhileUsed
    SlotDrains
CHECK_DEADLOCK FALSE
