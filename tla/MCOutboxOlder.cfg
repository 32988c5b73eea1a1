SPECIFICATION Spec

CONSTANTS
    left1 = left1
    right1 = right1
    o1 = o1
    s1 = s1
    s2 = s2
    d1 = d1
    NoJob = NoJob
    Tabs <- OneTab
    Orders <- NoCalls
    Saves <- TwoSaves
    Deletes <- NoCalls
    Durable <- SavesKept
    Outcomes <- Plain
    MaxQueue = 1
    MaxAttempts = 2
    MaxCloses = 1
    MaxCuts = 0
PROPERTIES NewestSaveStands
CHECK_DEADLOCK FALSE
