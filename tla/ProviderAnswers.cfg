SPECIFICATION ProgressSpec
CONSTANTS
    Sessions = {s1, s2, s3}
    None = None
    Behaviors = {"QUEUE_INCOMING", "ACCEPT_CONCURRENT", "CANCEL_EXISTING",
        "COMPLETE_EXISTING", "REJECT_INCOMING"}
    Switching = FALSE
    Updating = {}
    CheckReasons = {"OBJECTIVE_FAILED"}
    HasExeStatus = FALSE
    Faults = {}
    MaxBacklog = 2
INVARIANTS StatusIsCurrent
PROPERTIES NoQueueJump EveryCommandAnswered
