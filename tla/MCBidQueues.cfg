CONSTANTS
    w1 = w1  w2 = w2
    Workers = {w1, w2}
    Batch = 2
    MaxAdds <- FewItems
    Uses <- OneThread
SPECIFICATION FairSpec
CHECK_DEADLOCK FALSE
INVARIANTS TypeOK NothingVanishes QueuedIsDelivered
PROPERTIES ImplementsFifo ThreadsExit
