SPECIFICATION Spec
CONSTANTS
    red = red
    blue = blue
    ann = ann
    bob = bob
    desk = desk
    phone = phone
    sweep = sweep
    NoVariant = NoVariant
    Variants <- TwoVariants
    Shoppers <- TwoShoppers
    Editors <- OneDesk
    Sweeper = sweep
    Jobs <- OffOnly
    ReadsFail = TRUE
    MaxQty = 1
    MaxSales = 2
    MaxEdits = 2
PROPERTIES LockOutlivesSweep
CHECK_DEADLOCK FALSE
