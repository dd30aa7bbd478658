\* Three login windows, two requests under way, two panels.
SPECIFICATION Spec
CONSTANTS
    admin = admin
    accountant = accountant
    wrong = wrong
    blank = blank
    k1 = k1
    k2 = k2
    p1 = p1
    p2 = p2
    NoUser = NoUser
    NoPanel = NoPanel
    NoConn = NoConn
    Size = 2
    Word = 256
    Creds = {admin, accountant, wrong}
    Blank = {blank}
    Fresh = blank
    Rank <- MCRank
    Valid = {admin, accountant}
    Windows = {0, 1, 2}
    First = 0
    Panels = {p1, p2}
    Connections = {k1, k2}
    MaxPresses = 3
INVARIANTS TypeOK MissedAfterTwoBytes UserIsConfirmed OnePanelPerWindow HandlersOutlived
SYMMETRY Symmetry
CHECK_DEADLOCK FALSE
