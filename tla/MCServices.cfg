SPECIFICATION ServicesSpec
CONSTANTS
    m1 = m1
    m2 = m2
    n1 = n1
    n2 = n2
    j1 = j1
    k1 = k1
    k2 = k2
    a1 = a1
    o1 = o1
    na = na
    nb = nb
    nc = nc
    f1 = f1
    f2 = f2
    NoJob = NoJob
    Jobs = {j1}
    Workers = {m1, m2}
    Crashable = {m1, m2}
    Cancellable = {j1}
    Priority <- OnePriority
    InitialAttempts <- OneRetry
    AttemptCap = 2
    RequeueLimits = {0}
    MaxRequeues = 0
    Stalls = TRUE
    KeyIds = {k1}
    Offered <- TwoVersions
    Presented <- OneVersion
    Statements = {a1}
    SignedBy <- SignedByK1
    TrustSessions = {m1, m2}
    Freshness = 1
    MaxNow = 2
    MaxPublish = 1
    AlertKeys = {a1}
    Captors = {m1, m2}
    Responders = {o1}
    EscalateAfter = 1
    LastBucket = 2
    MaxIncidents = 2
    MaxActions = 1
    NoFile = NoFile
    Names = {na, nb, nc}
    StoredAt <- TwoPlaces
    Files = {f1, f2}
    Reviews = {n1, n2}
    Intents <- CrossingMoves
    Sessions = {m1, m2}
    MaxProposals = 2
    MaxRevision = 3
    MaxCrashes = 1
    EditsDuringMoves = FALSE
    MaxEdits = 1
    NoCurrent = NoCurrent
    BrowserSessions = {n1, n2}
    Groups = {{n1, n2}}
    Admins = {o1}
    Cleaners = {o1}
    CleanupBatch = 1
    MaxAdminActions = 1
    Verifiers = {n1, n2}
    Threads = {m1, m2}
    SigningKeys = {k1, k2}
    None = None
    Documents <- OneKeyOrNone
    JwksTtl = 2
    FetchTime = 0
    LastTick = 2
    MaxRotations = 1
    low = low
    high = high
    Tabs = {o1}
    Arguments = {low, high}
    Unresolved = Unresolved
    Clarify = Clarify
    Drafts <- SomeDrafts
    Tasks <- SomeTasks
    ConfirmedFor = 1
    MaxTime = 2
    MaxEvents = 8
    MaxRevisions = 2
    MaxChecks = 2
    MaxTools = 1
SYMMETRY Symmetry
INVARIANTS
    ServicesTypeOK
    AttemptBudget
    EligibleKeysWerePublished
    AppliedKeysAreRegistered
    OneOpenIncident
    TransitionsArePaged
    NoFileIsLost
    SessionLogsAreTrue
    ResultsAreTrue
PROPERTIES
    VerdictsFollowTheProvider
    WithdrawnStaysWithdrawn
    ExecutedAsShown
    ExecutionsWereConfirmed
CHECK_DEADLOCK FALSE
