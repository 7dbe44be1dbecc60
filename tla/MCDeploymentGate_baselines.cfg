SPECIFICATION GateSpec
CONSTANTS
    p1 = p1
    p2 = p2
    s1 = s1
    s2 = s2
    NoPolicy = NoPolicy
    Worker = Worker
    Policies <- OnePolicy
    Sessions <- TwoSessions
    MaxRevision = 0
    MaxGates = 1
    MaxBaselines = 2
INVARIANTS OneActiveBaseline
CHECK_DEADLOCK FALSE
