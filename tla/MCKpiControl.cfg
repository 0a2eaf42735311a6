CONSTANTS
    t1 = t1  t2 = t2
    Threads = {t1, t2}
    HoursPerDay = 1
    StartSeg = 5
    MaxSeg = 6
    Settings <- OneLimitEach
    EventTypes = {"i"}
    EventPrices = {0}
    MaxEvents = 3
    MaxLate = 1
    MaxEdits = 0
    MaxFails = 0
SPECIFICATION Spec
SYMMETRY Symmetry
CHECK_DEADLOCK FALSE
INVARIANTS TypeOK ReachedIsPaused OverrunBounded
