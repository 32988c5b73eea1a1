SPECIFICATION FairSpec
CONSTANTS
    vase = vase
    lamp = lamp
    Items <- OneItem
    Stocks <- UpToTwo
    MaxRows = 1
    MaxReadings = 2
    MaxRuns = 1
    MaxMarks = 1
    MaxMoves = 1
    MaxFaults = 1
INVARIANTS AlertsTypeOK AlertKept MailedOnceEach AlertsInductive
PROPERTIES PendingEnds
CHECK_DEADLOCK FALSE
