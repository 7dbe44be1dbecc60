SPECIFICATION Spec
CONSTANTS
    k1 = k1
    k2 = k2
    k3 = k3
    o1 = o1
    o2 = o2
    alice = alice
    bob = bob
    NoKey = NoKey
    NoOne = NoOne
    Keys <- MCKeys
    Sessions <- MCSessions
    Subjects <- MCSubjects
    Requester = alice
    Approvers <- MCSubjects
    Resumers <- MCSubjects
    Separated <- MCKeys
    Lifetime <- MCLifetime
    MaxTime = 4
SYMMETRY SessionSymmetry
CHECK_DEADLOCK FALSE
PROPERTIES FinalStatuses
