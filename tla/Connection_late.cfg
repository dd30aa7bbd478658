\* Two threads: a client is timed out before its time.
SPECIFICATION Spec
CONSTANTS
    t1 = t1
    t2 = t2
    Threads = {t1, t2}
    MaxRequests = 1
    MaxChunks = 0
INVARIANTS TimeoutIsTrue
SYMMETRY ThreadSymmetry
CHECK_DEADLOCK FALSE
