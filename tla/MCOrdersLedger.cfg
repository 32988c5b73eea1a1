CONSTANTS
    a = a
    b = b
    o1 = o1
    o2 = o2
    wi = wi
    w1 = w1
    w2 = w2
    NoOrder = NoOrder
    Cart <- MCCart
    InitialStock <- TwoEach
    Orders = {o1, o2}
    WalkIns = {}
    Workers = {w1, w2}
    Lines <- TwoLines
    Hideable = {}
    AdminMoves <- OneWay
    CanDelete = TRUE
    CanEdit = FALSE
    Refusable <- Handled
    Losable <- HandledLosses
    Exclusive = TRUE
    MaxPosts = 2
    MaxAdmin = 3
    MaxRestarts = 0
    RestoreLimit = 2
SPECIFICATION Spec
PROPERTIES ImplementsLedger
SYMMETRY Threads
CHECK_DEADLOCK FALSE
