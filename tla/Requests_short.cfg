\* One thread: an order is completed without enough items.
SPECIFICATION Spec
CONSTANTS
    t1 = t1
    root = root
    worker = worker
    guest = guest
    a = a
    b = b
    c = c
    c1 = c1
    c2 = c2
    AMD = AMD
    HP = HP
    NoRow = NoRow
    Threads = {t1}
    Logins = {root, worker, guest}
    Tels = {c1, c2}
    Items = {a, b, c}
    OrderIds = {1, 2, 3}
    Distributor <- MCDistributor
    FirstUsers <- MCUsers
    FirstTels = {c1, c2}
    FirstStock <- MCStock
    FirstOrders <- MCShortOrders
    RequestSet <- StockRequests
    Strict = TRUE
    IdAfterCall = TRUE
    MaxRequests = 1
    MaxFailures = 0
    MaxCrashes = 0
PROPERTIES EnoughItems
CHECK_DEADLOCK FALSE
