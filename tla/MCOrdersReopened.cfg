CONSTANTS
    a = a
    b = b
    o1 = o1
    o2 = o2
    wi = wi
    w1 = w1
    w2 = w2
    NoOrder = NoOrder
    Cart <- MCCart
    InitialStock <- OneEach
    Orders = {o1, o2}
    WalkIns = {}
    Workers = {w1}
    Lines <- TwoLines
    Hideable = {}
    AdminMoves <- PanelMoves
    CanDelete = FALSE
    CanEdit = FALSE
    Refusable <- NoCall
    Losable <- NoCall
    Exclusive = FALSE
    MaxPosts = 1
    MaxAdmin = 4
    MaxRestarts = 0
    RestoreLimit = 2
SPECIFICATION Spec
INVARIANTS ReleasedAsTaken
CHECK_DEADLOCK FALSE
