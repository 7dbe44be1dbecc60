SPECIFICATION PagingSpec
CONSTANTS
    Pages = {g1}
    PageAttempts = 2
    MaxPageCrashes = 0
    MaxRequeues = 0
INVARIANTS RefusalsAreRecorded
CHECK_DEADLOCK FALSE
