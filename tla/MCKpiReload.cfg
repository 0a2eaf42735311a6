CONSTANTS
    t1 = t1  t2 = t2
    Threads = {t1}
    HoursPerDay = 1
    StartSeg = 5
    MaxSeg = 6
    Settings <- RaisedTargets
    EventTypes = {"c"}
    EventPrices = {500}
    MaxEvents = 2
    MaxLate = 0
    MaxEdits = 1
    MaxFails = 1
SPECIFICATION Spec
CHECK_DEADLOCK FALSE
INVARIANTS PauseMeansReachedIfSerial 
