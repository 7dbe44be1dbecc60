SPECIFICATION SchedulesSpec
CONSTANTS
    p1 = p1
    s1 = s1
    s2 = s2
    c1 = c1
    g1 = g1
    g2 = g2
    b1 = b1
    b2 = b2
    ad1 = ad1
    cl1 = cl1
    NoPolicy = NoPolicy
    Worker = Worker
    Policies = {p1}
    Sessions = {s1, s2}
    Clients = {c1}
    MaxRevision = 1
    MaxGates = 2
    MaxBaselines = 0
    MaxDecisions = 1
    MaxRuns = 2
    SyncAttempts = 2
    MaxChanges = 2
    Pages = {g1, g2}
    PageAttempts = 2
    MaxPageCrashes = 1
    MaxRequeues = 1
    NoCurrent = NoCurrent
    BrowserSessions = {b1, b2}
    Groups = {{b1, b2}}
    Admins = {}
    Cleaners = {cl1}
    CleanupBatch = 1
    MaxAdminActions = 0
INVARIANTS
    SchedulesTypeOK
    LineageStillHolds
PROPERTIES
    DriftIsCaught
    OutdatedReleasesAreFlagged
    RequestedRunsHappen
    DeliveredIsFinal
    PagesSettle
    ExpiredTokensArePurged
CHECK_DEADLOCK FALSE
