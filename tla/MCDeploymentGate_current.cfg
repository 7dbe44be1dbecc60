SPECIFICATION GateSpec
CONSTANTS
    p1 = p1
    p2 = p2
    s1 = s1
    s2 = s2
    NoPolicy = NoPolicy
    Worker = Worker
    Policies <- OnePolicy
    Sessions <- TwoSessions
    MaxRevision = 1
    MaxGates = 2
    MaxBaselines = 0
PROPERTIES StaleOnlyOnDrift
CHECK_DEADLOCK FALSE
