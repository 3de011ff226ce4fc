SPECIFICATION SpecReport
CONSTANTS
    Conds = {c1, c2}
    Offers = {o1}
    Faults = {"payload", "dispose", "element", "report"}
    Followed = FALSE
    MaxWait = 2
    MaxTime = 4
INVARIANTS ReportInv
PROPERTIES AddAnswered
