------------------------ MODULE CommandStateMachine ------------------------
(***************************************************************************)
(* The state machine of one UMAA command session: the class                *)
(* CommandStateMachine, as operators on the pair [st, why] of the command  *)
(* status and the reason of its last change.  A method that returns false  *)
(* and leaves the pair alone is an operator whose guard is false.          *)
(***************************************************************************)

Statuses == {"ISSUED", "COMMANDED", "EXECUTING",
             "COMPLETED", "CANCELED", "FAILED"}

FailureReasons == {"SERVICE_FAILED", "INTERRUPTED", "TIMEOUT",
                   "RESOURCE_FAILED", "VALIDATION_FAILED",
                   "RESOURCE_REJECTED", "OBJECTIVE_FAILED"}

Reasons == FailureReasons \cup {"SUCCEEDED", "UPDATED", "CANCELED"}

CommandState == [st : Statuses, why : Reasons]

\* The domain of SUCCESS_STATE_MAP_: the states that have a successor.
NonFinal == {"ISSUED", "COMMANDED", "EXECUTING"}

\* SUCCESS_STATE_MAP_.
Successor ==
    [st \in NonFinal |->
        CASE st = "ISSUED"    -> "COMMANDED"
          [] st = "COMMANDED" -> "EXECUTING"
          [] OTHER            -> "COMPLETED"]

IsStateFinal(st) == st \notin NonFinal

\* The state of a machine that was just constructed, or reset.
Fresh == [st |-> "ISSUED", why |-> "SUCCEEDED"]

\* advanceState(), update(), cancel(): each is refused in a final state.
Advanced(c) == [st |-> Successor[c.st], why |-> "SUCCEEDED"]
Updated  == [st |-> "ISSUED", why |-> "UPDATED"]
Canceled == [st |-> "CANCELED", why |-> "CANCELED"]

\* The states from which fail(reason) is accepted.
FailableFrom(reason) ==
    CASE reason \in {"SERVICE_FAILED", "INTERRUPTED", "TIMEOUT"} -> NonFinal
      [] reason = "RESOURCE_FAILED"   -> {"ISSUED", "EXECUTING"}
      [] reason = "VALIDATION_FAILED" -> {"ISSUED"}
      [] reason = "RESOURCE_REJECTED" -> {"COMMANDED"}
      [] reason = "OBJECTIVE_FAILED"  -> {"EXECUTING"}
      [] OTHER -> {}

CanFail(c, reason) == c.st \in FailableFrom(reason)

\* Faulty variant of fail(): the reason is not stored.
FailedWithoutReason(reason) == [st |-> "FAILED", why |-> "NONE"]

Failed(reason) == [st |-> "FAILED", why |-> reason]
=============================================================================
