SPECIFICATION Spec
CONSTANTS
    vase = vase
    lamp = lamp
    Items <- OneItem
    Stocks <- UpToTwo
    MaxRows = 1
    MaxReadings = 2
    MaxRuns = 1
    MaxMarks = 0
    MaxMoves = 0
    MaxFaults = 0
INVARIANTS DrainsDoNotRace
CHECK_DEADLOCK FALSE
