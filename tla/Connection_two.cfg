\* Two threads.
SPECIFICATION FairSpec
CONSTANTS
    t1 = t1
    t2 = t2
    Threads = {t1, t2}
    MaxRequests = 2
    MaxChunks = 1
INVARIANTS TypeOK BuffersOwned
PROPERTIES ImplementsExchange ClosedIsReleased SentIsSettled ReadEndsUnlessMarked
CHECK_DEADLOCK FALSE
