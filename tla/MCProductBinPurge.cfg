SPECIFICATION Spec
CONSTANTS
    vase = vase
    lamp = lamp
    ann = ann
    bob = bob
    worker = worker
    NoProduct = NoProduct
    Products <- TwoProducts
    Seeds <- Bundled
    Requests <- TwoAdmins
    Worker = worker
    Ops <- Purging
    Refusable <- Purges
    Losable <- NoCall
    MaxOps = 3
PROPERTIES PurgeKeepsOthers
