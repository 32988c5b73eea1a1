CONSTANTS
    a = a
    b = b
    o1 = o1
    o2 = o2
    wi = wi
    w1 = w1
    w2 = w2
    NoOrder = NoOrder
    Cart <- MCCart
    InitialStock <- OneEach
    Orders = {o1, o2, wi}
    WalkIns = {wi}
    Workers = {w1, w2}
    Lines = {a, b}
    Hideable = {b}
    AdminMoves <- NoMoves
    CanDelete = FALSE
    CanEdit = TRUE
    Refusable <- ButUndo
    Losable <- ButOrder
    Exclusive = FALSE
    MaxPosts = 2
    MaxAdmin = 1
    MaxRestarts = 1
    RestoreLimit = 1
SPECIFICATION Spec
INVARIANTS Inductive Covered NeverOversold
SYMMETRY Threads
CHECK_DEADLOCK FALSE
