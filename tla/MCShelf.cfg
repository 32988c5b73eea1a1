SPECIFICATION Spec
CONSTANTS
    red = red
    blue = blue
    ann = ann
    bob = bob
    desk = desk
    phone = phone
    sweep = sweep
    NoVariant = NoVariant
    Variants <- TwoVariants
    Shoppers <- TwoShoppers
    Editors <- OneDesk
    Sweeper = sweep
    Jobs <- AllJobs
    ReadsFail = TRUE
    MaxQty = 1
    MaxSales = 2
    MaxEdits = 2
INVARIANTS ShelfTypeOK CountsExplained TotalSplitsOnlyBlindly
PROPERTIES TotalsReconciled
CHECK_DEADLOCK FALSE
