SPECIFICATION Spec
CONSTANTS
    Conds = {c1, c2}
    Offers = {}
    Faults = {}
    Followed = TRUE
    MaxWait = 0
    MaxTime = 3
    Leaf = c1
    Logical = {c2}
    Ordered = TRUE
    MaxReports = 2
INVARIANTS ConstraintsInv CatchesUp
CHECK_DEADLOCK FALSE
