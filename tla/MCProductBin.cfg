SPECIFICATION Spec
CONSTANTS
    vase = vase
    lamp = lamp
    ann = ann
    bob = bob
    worker = worker
    NoProduct = NoProduct
    Products <- TwoProducts
    Seeds <- Bundled
    Requests <- TwoAdmins
    Worker = worker
    Ops <- AllOps
    Refusable <- EveryCall
    Losable <- EveryCall
    MaxOps = 2
VIEW Relevant
SYMMETRY Admins
INVARIANTS BinTypeOK NothingLost BinnedStaysOut BinInductive
PROPERTIES GoneForGood
