SPECIFICATION Spec
CONSTANTS
    Sessions = {s1, s2}
    None = None
    Behaviors = {"QUEUE_INCOMING"}
    Switching = FALSE
    Updating = {s1, s2}
    CheckReasons = {"OBJECTIVE_FAILED", "TIMEOUT"}
    HasExeStatus = TRUE
    Faults = {}
    MaxBacklog = 3
INVARIANTS ClosedSessionsDropped
