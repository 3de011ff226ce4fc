SPECIFICATION Spec
CONSTANTS
    Sessions = {s1, s2, s3}
    None = None
    Behaviors = {"ACCEPT_CONCURRENT", "CANCEL_EXISTING", "COMPLETE_EXISTING", "REJECT_INCOMING"}
    Switching = TRUE
    Updating = {s1, s2, s3}
    CheckReasons = {"OBJECTIVE_FAILED", "TIMEOUT"}
    HasExeStatus = TRUE
    Faults = {}
    MaxBacklog = 2
SYMMETRY SessionSymmetry
PROPERTIES ImplementsLifecycle
