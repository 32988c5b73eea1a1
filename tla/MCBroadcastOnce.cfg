SPECIFICATION Spec
CONSTANTS
    c1 = c1
    c2 = c2
    c3 = c3
    ann = ann
    bob = bob
    worker = worker
    sweep = sweep
    NoCampaign = NoCampaign
    NoOne = NoOne
    Campaigns <- ThreeCampaigns
    People <- TwoPeople
    Drainers <- Both
    PassBudget = 1
    MaxStreams = 1
    SameJobTwice = FALSE
    CanCancel = FALSE
    MailFaults <- LostMail
    PagesFail = TRUE
    MaxWalks = 2
    MaxRaises = 1
    MaxRestarts = 1
SYMMETRY Interchangeable
INVARIANTS TypeOK BroadcastInductive MailedOnce EveryoneAccountedFor
CONSTRAINT FewMishaps
CHECK_DEADLOCK FALSE
