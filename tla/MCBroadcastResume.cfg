SPECIFICATION FairSpec
CONSTANTS
    c1 = c1
    c2 = c2
    c3 = c3
    ann = ann
    bob = bob
    worker = worker
    sweep = sweep
    NoCampaign = NoCampaign
    NoOne = NoOne
    Campaigns <- OneCampaign
    People <- TwoPeople
    Drainers <- Worker
    PassBudget = 3
    MaxStreams = 2
    SameJobTwice = FALSE
    CanCancel = FALSE
    MailFaults <- NoFaults
    PagesFail = FALSE
    MaxWalks = 2
    MaxRaises = 0
    MaxRestarts = 1
PROPERTIES BroadcastEnds
CHECK_DEADLOCK FALSE
