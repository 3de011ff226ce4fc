SPECIFICATION Spec
CONSTANTS
    Items <- MCItems
    Blank = 0
    Capacity = 2
    Readers = {t1}
    Limit = 2
    MaxStarts = 2
    Resources = {r1, r2}
    MaxReports = 3
    Setters = {p1, p2}
    Waiters = {w1, w2}
    Statuses = {"EXECUTING", "COMPLETED"}
    MaxSets = 2
    GetEarly = FALSE
    Instances = {"k1", "k2"}
    Own = "k1"
    Matching = {1, 3}
    MaxSamples = 3
    Depth = 2
    BufferSize = 6
    Marked = TRUE
INVARIANTS CommandsKept NoUseAfterClose EndInv NothingLost
PROPERTIES NothingStale LastReportStands NobodyStuck DisposalSeen 
CHECK_DEADLOCK FALSE
