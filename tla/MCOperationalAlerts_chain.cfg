SPECIFICATION AlertsSpec
CONSTANTS
    a1 = a1
    c1 = c1
    c2 = c2
    o1 = o1
    AlertKeys = {a1}
    Captors = {c1, c2}
    Responders = {o1}
    EscalateAfter = 1
    LastBucket = 2
    MaxIncidents = 2
    MaxActions = 2
INVARIANTS ActionsFormAChain
CHECK_DEADLOCK FALSE
