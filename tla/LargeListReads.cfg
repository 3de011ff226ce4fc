SPECIFICATION Spec
CONSTANTS
    Values = {1, 2}
    Ops = {"update", "prepend", "append", "insert", "popBack", "popFront",
           "remove", "clear"}
    Ordered = TRUE
    SendsFail = TRUE
    MaxIds = 3
    MaxTime = 4
    MaxPosts = 1
INVARIANTS ListInv CatchesUp
CHECK_DEADLOCK FALSE
