CONSTANTS
    a = a
    b = b
    o1 = o1
    o2 = o2
    wi = wi
    w1 = w1
    w2 = w2
    NoOrder = NoOrder
    Cart <- MCCart
    InitialStock <- OneEach
    Orders = {o1, o2}
    WalkIns = {}
    Workers = {w1, w2}
    Lines <- TwoLines
    Hideable = {}
    AdminMoves <- AnyMove
    CanDelete = TRUE
    CanEdit = TRUE
    Refusable <- EveryCall
    Losable <- EveryCall
    Exclusive = FALSE
    MaxPosts = 1
    MaxAdmin = 2
    MaxRestarts = 1
    RestoreLimit = 2
SPECIFICATION Spec
INVARIANTS TypeOK LedgerBalanced UnitsConserved AcceptedIsRecorded DivergenceIsReported
SYMMETRY Threads
CHECK_DEADLOCK FALSE
