SPECIFICATION Spec
CONSTANTS
    j1 = j1
    j2 = j2
    w1 = w1
    w2 = w2
    NoJob = NoJob
    Jobs <- OneJob
    Workers <- MCWorkers
    Crashable <- MCWorkers
    Cancellable = {}
    Priority <- MCPriority
    InitialAttempts <- OneRetry
    AttemptCap = 2
    RequeueLimits = {0}
    MaxRequeues = 1
    Stalls = TRUE
PROPERTIES LeaseOwnership
