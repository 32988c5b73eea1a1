SPECIFICATION FairSpec
CONSTANTS
    c1 = c1
    c2 = c2
    c3 = c3
    ann = ann
    bob = bob
    worker = worker
    sweep = sweep
    NoCampaign = NoCampaign
    NoOne = NoOne
    Campaigns <- OneCampaign
    People <- TwoPeople
    Drainers <- Both
    PassBudget = 2
    MaxStreams = 1
    SameJobTwice = TRUE
    CanCancel = TRUE
    MailFaults <- NoFaults
    PagesFail = FALSE
    MaxWalks = 3
    MaxRaises = 1
    MaxRestarts = 0
PROPERTIES BroadcastEnds
CHECK_DEADLOCK FALSE
