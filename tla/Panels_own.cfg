\* An admin with two requests under way: the answer to the first moves the
\* rows while the confirmation of the second is open.
SPECIFICATION Spec
CONSTANTS
    me = me
    u1 = u1
    u2 = u2
    k1 = k1
    k2 = k2
    NoRequest = NoRequest
    Keys = {me, u1, u2}
    Own = me
    FirstTable = {me, u1}
    Listing <- MCListing
    Connections = {k1, k2}
    MaxActs = 2
    MaxOthers = 0
    MaxLosses = 0
INVARIANTS OwnAccountKept
SYMMETRY ConnectionSymmetry
CHECK_DEADLOCK FALSE
