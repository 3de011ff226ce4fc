SPECIFICATION Spec
CONSTANTS
    Values = {1, 2, 3}
    Ordered = TRUE
    MaxIds = 3
    MaxTime = 3
    MaxPosts = 2
INVARIANTS  CatchesUp LeavesNothing
CHECK_DEADLOCK FALSE
