SPECIFICATION FairSpec
CONSTANTS
    j1 = j1
    j2 = j2
    j3 = j3
    delete = delete
    dispatch = dispatch
    worker = worker
    sweep = sweep
    NoJob = NoJob
    Jobs <- OneJob
    Tasks <- Deletes
    Chained <- None
    Drainers <- Both
    MaxAttempts = 2
    RingSize = 2
    BatchSize = 2
    MaxFailures = 0
    MaxRequeues = 0
    MaxDeaths = 1
    MaxRestarts = 0
PROPERTIES OrphansPickedUp
CHECK_DEADLOCK FALSE
