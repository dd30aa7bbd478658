\* Three threads, with faults and failing accepts.
SPECIFICATION FairSpec
CONSTANTS
    t1 = t1
    t2 = t2
    t3 = t3
    NoThread = NoThread
    Threads = {t1, t2, t3}
    Faults = TRUE
    MaxErrors = 1
    MaxClients = 2
    MaxPending = 4
INVARIANTS TypeOK LifetimesKept PropsComplete ServesOn
PROPERTIES StartReturns StopEnds
CHECK_DEADLOCK FALSE
