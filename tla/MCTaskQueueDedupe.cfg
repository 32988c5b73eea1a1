SPECIFICATION Spec
CONSTANTS
    j1 = j1
    j2 = j2
    j3 = j3
    delete = delete
    dispatch = dispatch
    worker = worker
    sweep = sweep
    NoJob = NoJob
    Jobs <- TwoJobs
    Tasks <- Deletes
    Chained <- None
    Drainers <- Worker
    MaxAttempts = 2
    RingSize = 2
    BatchSize = 2
    MaxFailures = 1
    MaxRequeues = 0
    MaxDeaths = 0
    MaxRestarts = 0
INVARIANTS OneWaitingPerTask
CHECK_DEADLOCK FALSE
