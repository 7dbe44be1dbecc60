SPECIFICATION AssistantSpec
CONSTANTS
    na = na
    nb = nb
    nc = nc
    f1 = f1
    r1 = r1
    r2 = r2
    s1 = s1
    s2 = s2
    NoFile = NoFile
    Names = {na, nb, nc}
    StoredAt <- OnePlace
    Files = {f1}
    Reviews = {r1, r2}
    Intents <- ToAndFro
    Sessions = {s1, s2}
    MaxProposals = 2
    MaxRevision = 3
    MaxCrashes = 1
    EditsDuringMoves = FALSE
    MaxEdits = 0
INVARIANTS OutcomesAreTrue
CHECK_DEADLOCK FALSE
