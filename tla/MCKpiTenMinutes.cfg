CONSTANTS
    t1 = t1  t2 = t2
    Threads = {t1}
    HoursPerDay = 2
    StartSeg = 0
    MaxSeg = 6
    Settings <- UniformLate
    EventTypes = {"i"}
    EventPrices = {0}
    MaxEvents = 1
    MaxLate = 0
    MaxEdits = 0
    MaxFails = 0
SPECIFICATION Spec
CHECK_DEADLOCK FALSE
INVARIANT TenCountsThisSegment
