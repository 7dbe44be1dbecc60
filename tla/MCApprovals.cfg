SPECIFICATION ApprovalsSpec
CONSTANTS
    k1 = k1
    k2 = k2
    k3 = k3
    o1 = o1
    o2 = o2
    o3 = o3
    alice = alice
    bob = bob
    c1 = c1
    c2 = c2
    NoKey = NoKey
    NoOne = NoOne
    Keys = {k1, k2, k3}
    Sessions = {o1, o2, o3}
    Subjects = {alice, bob}
    Requester = alice
    Approvers = {alice, bob}
    Resumers = {alice, bob}
    Separated = {k1, k2, k3}
    Lifetime <- MCLifetime
    MaxTime = 4
    NoCheckpoint = NoCheckpoint
    Checkpoints = {c1, c2}
    ToolErrors = {"broken"}
    NoError = "none"
    Plans <- MCPlans
    PlanContracts <- MCContracts
    LiveAnswers <- MCLiveAnswers
    Inline <- MCInline
    MaxExecutions = 4
    b1 = b1
    e1 = e1
    e2 = e2
    r1 = r1
    r2 = r2
    Batches = {b1}
    EventsOf <- MCEvents
    Handlers = {r1, r2}
    SendAttempts = 2
    ImportAttempts = 2
    AllowedSkew = 0
    MaxHour = 1
    MaxRestarts = 2
    MaxRepeats = 1
    v1 = v1
    v2 = v2
    Cases = {v1, v2}
    Critical = {v1}
    Runs = {r1, r2}
    Synthetic = {r2}
    Contents <- SomeContents
    NoValue = NoValue
    Scores = {6}
    GatePolicies <- SomePolicies
    MaxRows = 3
    MaxPromotions = 1
CHECK_DEADLOCK FALSE
INVARIANTS
    ApprovalsTypeOK
    RevisionsFormAChain
    ApprovalsAreCovered
    GuardedStepsWereApproved
    SuccessIsEarned
    ReexecutionAgrees
    DeliveriesAreTrue
    ImportsAreWhole
    ApprovalIsEarned
PROPERTIES
    RefusalIsFinal
    DueAreClosed
    WorseNeverHelps
