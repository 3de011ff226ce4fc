SPECIFICATION Spec
CONSTANTS
    Sessions = {s1, s2}
    None = None
    Updating = {s1, s2}
    Failures = {"LOWER_SERVICE_FAILED"}
    Faults = {"hook", "report"}
    MaxBacklog = 1
INVARIANTS ObjectiveInv
PROPERTIES  FinishedReported StopsWhenTold
