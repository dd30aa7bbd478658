\* Two threads that add, complete and delete orders, lax sql_mode.
SPECIFICATION FairSpec
CONSTANTS
    t1 = t1
    t2 = t2
    root = root
    worker = worker
    guest = guest
    a = a
    b = b
    c = c
    c1 = c1
    c2 = c2
    AMD = AMD
    HP = HP
    NoRow = NoRow
    Threads = {t1, t2}
    Logins = {root, worker, guest}
    Tels = {c1, c2}
    Items = {a, b, c}
    OrderIds = {1, 2, 3}
    Distributor <- MCTwoDistributors
    FirstUsers <- MCUsers
    FirstTels = {c1}
    FirstStock <- MCStock
    FirstOrders <- MCOrders
    RequestSet <- OrderRequests
    Strict = FALSE
    IdAfterCall = TRUE
    MaxRequests = 3
    MaxFailures = 1
    MaxCrashes = 1
INVARIANTS TypeOK OrdersHaveCustomers StockNotLost
PROPERTIES OrdersWhole SuccessIsTrue Answered ImplementsShop
CHECK_DEADLOCK FALSE
