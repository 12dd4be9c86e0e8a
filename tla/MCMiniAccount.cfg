CONSTANTS
    Slots = {s1, s2}
    MaxLogins = 2
    PageSize = 1
    MaxPage = 2
    Placed = 1
    Kept = 1
    MaxOrders = 2
SPECIFICATION AccountSpec
INVARIANTS SessionAgrees ListIsPages
CHECK_DEADLOCK FALSE
PROPERTIES LoadingEnds
