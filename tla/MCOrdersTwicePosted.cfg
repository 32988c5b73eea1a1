CONSTANTS
    a = a
    b = b
    o1 = o1
    o2 = o2
    wi = wi
    w1 = w1
    w2 = w2
    NoOrder = NoOrder
    Cart <- MCCart
    InitialStock <- Plenty
    Orders = {o2}
    WalkIns = {}
    Workers = {w1, w2}
    Lines = {b}
    Hideable = {}
    AdminMoves <- NoMoves
    CanDelete = FALSE
    CanEdit = FALSE
    Refusable <- NoCall
    Losable <- NoCall
    Exclusive = FALSE
    MaxPosts = 2
    MaxAdmin = 0
    MaxRestarts = 0
    RestoreLimit = 2
SPECIFICATION Spec
INVARIANTS TakenOnce
CHECK_DEADLOCK FALSE
