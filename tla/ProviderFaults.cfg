SPECIFICATION PatientSpec
CONSTANTS
    Sessions = {s1, s2}
    None = None
    Behaviors = {"QUEUE_INCOMING", "CANCEL_EXISTING", "REJECT_INCOMING"}
    Switching = TRUE
    Updating = {s1, s2}
    CheckReasons = {"OBJECTIVE_FAILED", "VALIDATION_FAILED"}
    HasExeStatus = TRUE
    Faults = {"cycle", "read", "hook", "send"}
    MaxBacklog = 3
SYMMETRY SessionSymmetry
INVARIANTS TypeOK OneAtATime ClosedSessionsDropped InstancesHeld FinalOnlyAfterFailure
PROPERTIES TerminalIsFinal
