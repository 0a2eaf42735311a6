CONSTANTS
    t1 = t1
    t2 = t2
    d1 = d1
    d2 = d2
    Threads = {t1, t2}
    Devices = {d1, d2}
    Id <- SameIds
    Rules <- OwnAndSharedFields
    MaxTime = 2
    MaxEvents = 3
    MaxLate = 1
    MaxFails = 1
SYMMETRY Symmetry
SPECIFICATION Spec
CHECK_DEADLOCK FALSE
INVARIANTS
    TypeOK
    ReachedIsCapped
    CappedByThisPeriod
    CountersAreIndexed
    FrequencyOverrunBounded
