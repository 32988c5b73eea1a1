CONSTANTS
    a = a
    b = b
    o1 = o1
    o2 = o2
    wi = wi
    w1 = w1
    w2 = w2
    NoOrder = NoOrder
    Cart <- MCCart
    InitialStock <- OneEach
    Orders = {o1, o2}
    WalkIns = {}
    Workers = {w1}
    Lines <- TwoLines
    Hideable = {}
    AdminMoves <- NoMoves
    CanDelete = TRUE
    CanEdit = FALSE
    Refusable <- EveryCall
    Losable <- NoCall
    Exclusive = FALSE
    MaxPosts = 1
    MaxAdmin = 1
    MaxRestarts = 0
    RestoreLimit = 2
SPECIFICATION Spec
PROPERTIES RefusedDeleteChangesNothing
CHECK_DEADLOCK FALSE
