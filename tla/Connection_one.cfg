\* One thread, requests may arrive in pieces.
SPECIFICATION FairSpec
CONSTANTS
    t1 = t1
    Threads = {t1}
    MaxRequests = 3
    MaxChunks = 2
INVARIANTS StillReading TimeoutIsTrue
PROPERTIES ReadEnds
CHECK_DEADLOCK FALSE
