SPECIFICATION Spec
CONSTANTS
    j1 = j1
    j2 = j2
    j3 = j3
    delete = delete
    dispatch = dispatch
    worker = worker
    sweep = sweep
    NoJob = NoJob
    Jobs <- ThreeJobs
    Tasks <- Dispatches
    Chained <- Dispatches
    Drainers <- Both
    MaxAttempts = 2
    RingSize = 2
    BatchSize = 2
    MaxFailures = 1
    MaxRequeues = 1
    MaxDeaths = 1
    MaxRestarts = 1
SYMMETRY Interchangeable
INVARIANTS TypeOK RunningHasRunner LogBounded
PROPERTIES LiveJobsKept
CHECK_DEADLOCK FALSE
