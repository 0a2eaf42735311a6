CONSTANTS
    t1 = t1  t2 = t2
    Threads = {t1, t2}
    HoursPerDay = 3
    StartSeg = 4
    MaxSeg = 6
    Settings <- UniformTargets
    EventTypes = {"i"}
    EventPrices = {0}
    MaxEvents = 6
    MaxLate = 1
    MaxEdits = 0
    MaxFails = 0
SPECIFICATION Spec
SYMMETRY Symmetry
CHECK_DEADLOCK FALSE
INVARIANTS NoBurst
