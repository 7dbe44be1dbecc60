SPECIFICATION FairSpec
CONSTANTS
    j1 = j1
    j2 = j2
    w1 = w1
    w2 = w2
    NoJob = NoJob
    Jobs <- MCJobs
    Workers <- MCWorkers
    Crashable = {w2}
    Cancellable = {j2}
    Priority <- MCPriority
    InitialAttempts <- OneRetry
    AttemptCap = 2
    RequeueLimits = {}
    MaxRequeues = 1
    Stalls = FALSE
INVARIANTS MutualExclusion LeaseMatchesStatus
PROPERTIES EventuallySettled ImplementsLifecycle
