SPECIFICATION Spec
CONSTANTS
    vase = vase
    lamp = lamp
    ann = ann
    bob = bob
    worker = worker
    NoProduct = NoProduct
    Products <- TwoProducts
    Seeds <- Bundled
    Requests <- OneAdmin
    Worker = worker
    Ops <- Recycling
    Refusable <- NoCall
    Losable <- NoCall
    MaxOps = 2
PROPERTIES RestoredIsServed
