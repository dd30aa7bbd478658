\* Two requests under way, and other clients.
SPECIFICATION Spec
CONSTANTS
    me = me
    u1 = u1
    u2 = u2
    k1 = k1
    k2 = k2
    NoRequest = NoRequest
    Keys = {me, u1, u2}
    Own = me
    FirstTable = {me, u1}
    Listing <- MCListing
    Connections = {k1, k2}
    MaxActs = 5
    MaxOthers = 2
    MaxLosses = 1
INVARIANTS TypeOK RowsInStep QuietIsTrue RowsExist
SYMMETRY ConnectionSymmetry
CHECK_DEADLOCK FALSE
