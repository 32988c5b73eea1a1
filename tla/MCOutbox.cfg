SPECIFICATION FairSpec

CONSTANTS
    left1 = left1
    right1 = right1
    o1 = o1
    s1 = s1
    s2 = s2
    d1 = d1
    NoJob = NoJob
    Tabs <- TwoTabs
    Orders <- NoCalls
    Saves <- OneSave
    Deletes <- OneDelete
    Durable <- SavesKept
    Outcomes <- AllOutcomes
    MaxQueue = 1
    MaxAttempts = 2
    MaxCloses = 1
    MaxCuts = 1
INVARIANTS OutboxTypeOK NothingLost WithdrawnIsGone OutboxInductive
PROPERTIES EverySaveSettles
CHECK_DEADLOCK FALSE
