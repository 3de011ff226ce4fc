----------------------- MODULE ObjectiveStateMachine -----------------------
(***************************************************************************)
(* The state machine of one objective: the class ObjectiveStateMachine, as *)
(* operators on the pair st, why of its state and the reason of the last   *)
(* change.  Each method is a guard, Can..., and the state it leaves; when  *)
(* the guard is false the method returns false and changes nothing.        *)
(***************************************************************************)

\* Faulty variant of the map: a completed objective starts again.
SuccessorRestarts ==
    [QUEUED    |-> "EXECUTING", EXECUTING |-> "COMPLETED",
     MODIFYING |-> "EXECUTING", PAUSING   |-> "PAUSED",
     RESUMING  |-> "EXECUTING", CANCELING |-> "CANCELED",
     COMPLETED |-> "QUEUED"]

\* SUCCESS_STATE_MAP.
Successor ==
    [QUEUED    |-> "EXECUTING", EXECUTING |-> "COMPLETED",
     MODIFYING |-> "EXECUTING", PAUSING   |-> "PAUSED",
     RESUMING  |-> "EXECUTING", CANCELING |-> "CANCELED"]

Final == {"COMPLETED", "CANCELED", "FAILED"}
States == DOMAIN Successor \cup {"PAUSED"} \cup Final

FailureReasons ==
    {"CANNOT_PERFORM_UNDER_CONSTRAINTS", "INTERNAL_FAILURE",
     "LOWER_SERVICE_FAILED", "LOWER_SERVICE_TIMEOUT",
     "LOWER_SERVICE_REJECTED", "LOWER_SERVICE_INTERRUPTED",
     "OBJECTIVE_REPLACED", "COMMAND_VALIDATION_FAILED"}

Reasons == FailureReasons \cup
           {"SUCCEEDED", "COMMANDED", "BUS_MSG_UPDATE", "BUS_MSG_DISPOSE"}

Move(o, st, why) == [o EXCEPT !.st = st, !.why = why]

CanAdvance(o) == o.st \in DOMAIN Successor
Advance(o)    == Move(o, Successor[o.st], "SUCCEEDED")

CanUpdate(o)  == o.st = "EXECUTING"
Update(o)     == Move(o, "MODIFYING", "BUS_MSG_UPDATE")

CanPause(o)   == o.st = "EXECUTING"
Pause(o)      == Move(o, "PAUSING", "COMMANDED")

CanResume(o)  == o.st = "PAUSED"
Resume(o)     == Move(o, "RESUMING", "COMMANDED")

CanCancel(o)  == o.st \notin Final \cup {"CANCELING"}
Cancel(o)     == Move(o, "CANCELING", "BUS_MSG_DISPOSE")

CanFail(o, reason) == CanCancel(o) /\ reason \in FailureReasons

\* Faulty variant of fail(): the reason is not stored.
FailWithoutReason(o, reason) == Move(o, "FAILED", "NONE")

Fail(o, reason)    == Move(o, "FAILED", reason)
=============================================================================
