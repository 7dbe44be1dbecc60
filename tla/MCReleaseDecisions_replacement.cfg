SPECIFICATION PartSpec
CONSTANTS
    p1 = p1
    s1 = s1
    s2 = s2
    c1 = c1
    NoPolicy = NoPolicy
    Worker = Worker
    Policies <- OnePolicy
    Sessions <- TwoSessions
    Clients <- OneClient
    MaxRevision = 1
    MaxGates = 3
    MaxBaselines = 1
    MaxDecisions = 2
INVARIANTS StaleActionsAreTrue
PROPERTIES ReplacementsAreSound ClosedReleasesStayClosed
CHECK_DEADLOCK FALSE
