CONSTANTS
    a = a
    b = b
    o1 = o1
    o2 = o2
    wi = wi
    w1 = w1
    w2 = w2
    NoOrder = NoOrder
    Cart <- MCCart
    InitialStock <- OneEach
    Orders = {o1}
    WalkIns = {}
    Workers = {w1}
    Lines <- TwoLines
    Hideable = {}
    AdminMoves <- PanelMoves
    CanDelete = TRUE
    CanEdit = TRUE
    Refusable <- CacheWorks
    Losable <- EveryCall
    Exclusive = TRUE
    MaxPosts = 2
    MaxAdmin = 3
    MaxRestarts = 1
    RestoreLimit = 2
SPECIFICATION FairSpec
PROPERTIES DecisionStands EveryRequestEnds
CHECK_DEADLOCK FALSE
