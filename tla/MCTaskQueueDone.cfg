SPECIFICATION FairSpec
CONSTANTS
    j1 = j1
    j2 = j2
    j3 = j3
    delete = delete
    dispatch = dispatch
    worker = worker
    sweep = sweep
    NoJob = NoJob
    Jobs <- TwoJobs
    Tasks <- DeleteAndDispatch
    Chained <- Dispatches
    Drainers <- Both
    MaxAttempts = 4
    RingSize = 3
    BatchSize = 1
    MaxFailures = 1
    MaxRequeues = 1
    MaxDeaths = 0
    MaxRestarts = 0
PROPERTIES OwedIsDone
CHECK_DEADLOCK FALSE
