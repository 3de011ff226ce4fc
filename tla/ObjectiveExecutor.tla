------------------------- MODULE ObjectiveExecutor -------------------------
(***************************************************************************)
(* ObjectiveController: the main loop of an objective executor.  Each turn *)
(* cycles two command providers, ObjectiveExecutorControlServiceProvider   *)
(* (REJECT_INCOMING) and ObjectiveExecutorStateControlServiceProvider      *)
(* (CANCEL_EXISTING), then the conditional report consumer and the active  *)
(* constraints, then runs the hooks of the active objective.  The two      *)
(* providers meet only in the static activeObjective_.  A call that fails  *)
(* ends the process.                                                       *)
(*                                                                         *)
(* pc says where a turn of run() is:                                       *)
(*   control, command    the control provider: reading, handling           *)
(*   state, order        the state provider: reading, handling             *)
(*   reports, objective  the report consumers, the active objective        *)
(*   wait                cv_.wait_until()                                  *)
(*   exited, failed      run() has returned 0, 1                           *)
(* Inputs arrive where they can be read, at control and state: arriving at *)
(* another step would make no difference.  The steps of CommandProvider    *)
(* that both providers share are written here for the hooks they override. *)
(***************************************************************************)
EXTENDS Naturals, Sequences, CommandStateMachine

CONSTANTS
    Sessions,     \* command sessions; each commands the objective of its name
    None,         \* no session
    Updating,     \* sessions whose consumer may send its command again
    Failures,     \* reasons for which an objective may fail of itself
    Faults,       \* what may fail: "hook", "report"
    MaxBacklog    \* bound on the samples unread, for each provider

O == INSTANCE ObjectiveStateMachine

ASSUME ExecutorAssumption ==
    /\ None \notin Sessions
    /\ Updating \subseteq Sessions
    /\ Failures \subseteq O!FailureReasons
    /\ Faults \subseteq {"hook", "report"}
    /\ MaxBacklog \in Nat \ {0}

VARIABLES
    client,   \* per session: has its consumer written, or disposed, it
    inbox,    \* samples of the control command on their way
    orders,   \* samples of the state command on their way
    cmd,      \* the control provider's only session
    bus,      \* the last status each control session was sent
    order,    \* the state provider's only session
    obj,      \* activeObjective_
    running,  \* isObjExeRunning_
    pc

vars == <<client, inbox, orders, cmd, bus, order, obj, running, pc>>

NoCommand   == [id |-> None, st |-> "NONE", why |-> "NONE"]
NoObjective == [id |-> None, st |-> "NONE", why |-> "NONE"]
NoOrder     == [st |-> "NONE", why |-> "NONE", want |-> "NONE", to |-> None]

Wants == {"EXECUTE", "PAUSE", "RESUME"}

\* A write of another state command session, of the one known, a dispose.
OrderSample ==
    [kind : {"new", "same", "dispose"}, want : Wants, to : Sessions]

Terminal == {"COMPLETED", "CANCELED", "FAILED"}

\* Session c with the command state x.
With(c, x) == [c EXCEPT !.st = x.st, !.why = x.why]

-----------------------------------------------------------------------------
(* Consumers, and the signal handler.                                      *)

Send(s) ==
    /\ pc \in {"control", "state"}
    /\ client[s] = "unused" \/ (client[s] = "open" /\ s \in Updating)
    /\ Len(inbox) < MaxBacklog
    /\ client' = [client EXCEPT ![s] = "open"]
    /\ inbox' = Append(inbox, [kind |-> "write", id |-> s])
    /\ UNCHANGED <<orders, cmd, bus, order, obj, running, pc>>

Close(s) ==
    /\ pc \in {"control", "state"}
    /\ client[s] = "open" /\ Len(inbox) < MaxBacklog
    /\ client' = [client EXCEPT ![s] = "closed"]
    /\ inbox' = Append(inbox, [kind |-> "dispose", id |-> s])
    /\ UNCHANGED <<orders, cmd, bus, order, obj, running, pc>>

SendOrder(o) ==
    /\ pc \in {"control", "state"}
    /\ Len(orders) < MaxBacklog
    /\ orders' = Append(orders, o)
    /\ UNCHANGED <<client, inbox, cmd, bus, order, obj, running, pc>>

Signal ==
    /\ running
    /\ running' = FALSE
    /\ UNCHANGED <<client, inbox, orders, cmd, bus, order, obj, pc>>

-----------------------------------------------------------------------------
(* The control provider.                                                   *)

\* Faulty variant of onCycle(): it asks the objective, not the command.
ResetsFinished == obj.st \in O!Final

\* onCycle(): the objective is reset when there is no command in progress.
Resets == cmd = NoCommand \/ IsStateFinal(cmd.st)

Kept == IF Resets THEN NoObjective ELSE obj

Read(kind, s) ==
    /\ pc = "control" /\ inbox # <<>>
    /\ Head(inbox) = [kind |-> kind, id |-> s]
    /\ inbox' = Tail(inbox)
    /\ UNCHANGED <<client, orders, order, running>>

Publish(s, c) == bus' = [bus EXCEPT ![s] = c.st]

\* A handler returned false: the session is failed, if it can be, and
\* cleared, cycle() is false and run() returns 1.
GiveUp(s, c) ==
    /\ IF CanFail(c, "SERVICE_FAILED")
       THEN Publish(s, Failed("SERVICE_FAILED")) ELSE UNCHANGED bus
    /\ cmd' = NoCommand
    /\ pc' = "failed"

ReadNothing ==
    /\ pc = "control" /\ inbox = <<>>
    /\ obj' = Kept
    /\ pc' = IF cmd = NoCommand THEN "state" ELSE "command"
    /\ UNCHANGED <<client, inbox, orders, cmd, bus, order, running>>

Accept(s) ==
    /\ Read("write", s) /\ cmd = NoCommand
    /\ cmd' = With([NoCommand EXCEPT !.id = s], Fresh)
    /\ Publish(s, Fresh)
    /\ obj' = Kept
    /\ pc' = "command"

Reject(s) ==
    /\ Read("write", s) /\ cmd.id \notin {s, None}
    /\ Publish(s, Failed("SERVICE_FAILED"))
    /\ obj' = Kept
    /\ pc' = "command"
    /\ UNCHANGED cmd

\* onUpdated() moves the objective to MODIFYING, which it can only be from
\* EXECUTING.  Then the new command is validated as any other.  (With no
\* objective onUpdated() and onCanceled() return true; ObjectiveForCommand
\* says that there is one.)
UpdateCommand(s) ==
    /\ Read("write", s) /\ cmd.id = s
    /\ \/ /\ O!CanUpdate(Kept)
          /\ obj' = O!Update(Kept)
          /\ cmd' = With(cmd, Updated)
          /\ Publish(s, Updated)
          /\ pc' = "command"
       \/ /\ ~O!CanUpdate(Kept)
          /\ GiveUp(s, Updated)
          /\ obj' = Kept

\* onCanceled() moves the objective to CANCELING, which it cannot be when it
\* has ended.  The session is erased, the objective stays.
CancelCommand(s) ==
    /\ Read("dispose", s) /\ cmd.id = s
    /\ \/ /\ O!CanCancel(Kept)
          /\ obj' = O!Cancel(Kept)
          /\ cmd' = NoCommand
          /\ Publish(s, Canceled)
          /\ pc' = "state"
       \/ /\ ~O!CanCancel(Kept)
          /\ GiveUp(s, Canceled)
          /\ obj' = Kept

CancelUnknown(s) ==
    /\ Read("dispose", s) /\ cmd.id # s
    /\ obj' = Kept
    /\ pc' = IF cmd = NoCommand THEN "state" ELSE "command"
    /\ UNCHANGED <<cmd, bus>>

CommandTo(c) == cmd' = With(cmd, c) /\ Publish(cmd.id, c) /\ UNCHANGED pc

\* isCommandValid() builds the objective and makes it the active one.
Issued ==
    /\ cmd.st = "ISSUED"
    /\ \/ /\ obj' = [id |-> cmd.id, st |-> "QUEUED", why |-> "SUCCEEDED"]
          /\ CommandTo(Advanced(cmd))
       \/ CommandTo(Failed("VALIDATION_FAILED")) /\ UNCHANGED obj

Commanded ==
    /\ cmd.st = "COMMANDED"
    /\ CommandTo(Advanced(cmd)) /\ UNCHANGED obj

\* Faulty variant of isCommandFailed(): the objective is not asked.
OutcomeCompleted ==
    IF obj.st = "COMPLETED" THEN {Advanced(cmd)} ELSE {}

\* isCommandFailed(), isCommandCompleted(): the end of the command, if any.
Outcome ==
    CASE obj.st = "FAILED"    -> {Failed("OBJECTIVE_FAILED")}
      [] obj.st = "COMPLETED" -> {Advanced(cmd)}
      [] OTHER                -> {}

Executing ==
    /\ cmd.st = "EXECUTING"
    /\ \/ \E c \in Outcome : CommandTo(c)
       \/ Outcome = {} /\ pc' = "state" /\ UNCHANGED <<cmd, bus>>
    /\ UNCHANGED obj

Erase ==
    /\ IsStateFinal(cmd.st)
    /\ cmd' = NoCommand /\ pc' = "state"
    /\ UNCHANGED <<bus, obj>>

CycleCommand ==
    /\ pc = "command"
    /\ Issued \/ Commanded \/ Executing \/ Erase
    /\ UNCHANGED <<client, inbox, orders, order, running>>

-----------------------------------------------------------------------------
(* The state provider.                                                     *)

ReadOrder(kinds) ==
    /\ pc = "state" /\ orders # <<>> /\ Head(orders).kind \in kinds
    /\ orders' = Tail(orders)
    /\ UNCHANGED <<client, inbox, cmd, bus, obj, running>>

OrderIs(c) ==
    order' = [st |-> c.st, why |-> c.why, want |-> Head(orders).want,
              to |-> Head(orders).to]

NoOrderRead ==
    /\ pc = "state" /\ orders = <<>>
    /\ pc' = IF order = NoOrder THEN "reports" ELSE "order"
    /\ UNCHANGED <<client, inbox, orders, cmd, bus, order, obj, running>>

\* The order in progress, if any, is canceled.
NewOrder ==
    /\ ReadOrder(IF order = NoOrder THEN {"new", "same"} ELSE {"new"})
    /\ OrderIs(Fresh)
    /\ pc' = "order"

UpdateOrder ==
    /\ order # NoOrder /\ ReadOrder({"same"})
    /\ OrderIs(Updated)
    /\ pc' = "order"

CancelOrder ==
    /\ ReadOrder({"dispose"})
    /\ order' = NoOrder
    /\ pc' = "reports"

\* isCommandValid(): the order names the active objective.
NamesObjective == obj.id = order.to

\* isCommandCompleted(), for an objective in state st.
Reached(want, st) ==
    IF want = "PAUSE" THEN st = "PAUSED" ELSE st \in {"EXECUTING", "COMPLETED"}

\* commandObjectiveState().
CanObey(want) ==
    CASE want = "EXECUTE" -> obj.st = "QUEUED"
      [] want = "PAUSE"   -> O!CanPause(obj)
      [] want = "RESUME"  -> O!CanResume(obj)

Obey(want) ==
    CASE want = "EXECUTE" -> O!Advance(obj)
      [] want = "PAUSE"   -> O!Pause(obj)
      [] want = "RESUME"  -> O!Resume(obj)

OrderTo(c) == order' = With(order, c)

\* Faulty variant of onExecuting(): an objective that cannot be moved yet is
\* waited for.
RefuseLater == pc' = "reports" /\ UNCHANGED order

\* The order cannot be carried out: handleFailure(SERVICE_FAILED).
Refuse == OrderTo(Failed("SERVICE_FAILED")) /\ UNCHANGED pc

WaitsFor == obj.st \in {"PAUSING", "RESUMING"}

\* onExecuting() and what handleExecuting() does after it.
ExecuteOrder ==
    LET want == order.want IN
    \/ /\ WaitsFor
       /\ pc' = "reports" /\ UNCHANGED <<order, obj>>
    \/ /\ ~WaitsFor /\ Reached(want, obj.st)
       /\ OrderTo(Advanced(order)) /\ UNCHANGED <<pc, obj>>
    \/ /\ ~WaitsFor /\ ~Reached(want, obj.st) /\ CanObey(want)
       /\ obj' = Obey(want)
       /\ IF Reached(want, obj'.st)
          THEN OrderTo(Advanced(order)) /\ UNCHANGED pc
          ELSE pc' = "reports" /\ UNCHANGED order
    \/ /\ ~WaitsFor /\ ~Reached(want, obj.st) /\ ~CanObey(want)
       /\ Refuse /\ UNCHANGED obj

CycleOrder ==
    /\ pc = "order"
    /\ \/ /\ order.st = "ISSUED"
          /\ OrderTo(IF NamesObjective THEN Advanced(order)
                     ELSE Failed("VALIDATION_FAILED"))
          /\ UNCHANGED <<pc, obj>>
       \/ /\ order.st = "COMMANDED"
          /\ OrderTo(Advanced(order)) /\ UNCHANGED <<pc, obj>>
       \/ order.st = "EXECUTING" /\ ExecuteOrder
       \/ /\ IsStateFinal(order.st)
          /\ order' = NoOrder /\ pc' = "reports" /\ UNCHANGED obj
    /\ UNCHANGED <<client, inbox, orders, cmd, bus, running>>

-----------------------------------------------------------------------------
(* The rest of a turn.                                                     *)

\* The conditional report consumer and the active constraints are cycled.
CycleReports ==
    /\ pc = "reports"
    /\ \/ pc' = IF obj = NoObjective THEN "wait" ELSE "objective"
       \/ "report" \in Faults /\ pc' = "failed"
    /\ UNCHANGED <<client, inbox, orders, cmd, bus, order, obj, running>>

\* What advanceObjectiveState(), transitionObjectiveStateToFailed() leave.
AdvanceState(o) == IF O!CanAdvance(o) THEN O!Advance(o) ELSE o
FailState(o, reason) == IF O!CanFail(o, reason) THEN O!Fail(o, reason) ELSE o

\* The hook of a state may leave the objective alone, advance or fail it.
Hook(o) == {o, AdvanceState(o)} \cup {FailState(o, r) : r \in Failures}

\* After onExecuting(): a constraint that evaluates to false, then
\* isObjectiveComplete(), then isObjectiveFailed().
Checked(o) ==
    {o, FailState(o, "CANNOT_PERFORM_UNDER_CONSTRAINTS"), AdvanceState(o)}
        \cup {FailState(o, r) : r \in Failures}

\* The hooks run again in this turn when the state has changed.
Loops == obj'.st # obj.st

CycleObjective ==
    /\ pc = "objective"
    /\ \E o \in Hook(obj) :
        \/ /\ IF obj.st = "EXECUTING" THEN obj' \in Checked(o) ELSE obj' = o
           /\ pc' = IF Loops THEN "objective" ELSE "wait"
        \/ "hook" \in Faults /\ obj' = o /\ pc' = "failed"
    /\ UNCHANGED <<client, inbox, orders, cmd, bus, order, running>>

\* wait_until() ends with the cycle time or, at the latest then, the signal.
Wait ==
    /\ pc = "wait"
    /\ pc' = IF running THEN "control" ELSE "exited"
    /\ UNCHANGED <<client, inbox, orders, cmd, bus, order, obj, running>>

-----------------------------------------------------------------------------
Init ==
    /\ client = [s \in Sessions |-> "unused"]
    /\ inbox = <<>> /\ orders = <<>>
    /\ cmd = NoCommand /\ order = NoOrder /\ obj = NoObjective
    /\ bus = [s \in Sessions |-> "NONE"]
    /\ running = TRUE
    /\ pc = "control"

Turn ==
    \/ ReadNothing
    \/ \E s \in Sessions :
        Accept(s) \/ Reject(s) \/ UpdateCommand(s) \/ CancelCommand(s)
                  \/ CancelUnknown(s)
    \/ CycleCommand
    \/ NoOrderRead \/ NewOrder \/ UpdateOrder \/ CancelOrder \/ CycleOrder
    \/ CycleReports \/ CycleObjective \/ Wait

\* run() has returned.
Returned == pc \in {"exited", "failed"} /\ UNCHANGED vars

Next ==
    \/ Turn
    \/ \E s \in Sessions : Send(s) \/ Close(s)
    \/ \E o \in OrderSample : SendOrder(o)
    \/ Signal
    \/ Returned

\* run() goes on as long as it does not return.
Spec == Init /\ [][Next]_vars /\ WF_vars(Turn)

-----------------------------------------------------------------------------
(* Properties.                                                             *)

TypeOK ==
    /\ client \in [Sessions -> {"unused", "open", "closed"}]
    /\ inbox \in Seq([kind : {"write", "dispose"}, id : Sessions])
    /\ orders \in Seq(OrderSample)
    /\ cmd \in {NoCommand} \cup
               [id : Sessions, st : Statuses, why : Reasons]
    /\ bus \in [Sessions -> Statuses \cup {"NONE"}]
    /\ order \in {NoOrder} \cup
                 [st : Statuses, why : Reasons, want : Wants, to : Sessions]
    /\ obj \in {NoObjective} \cup
               [id : Sessions, st : O!States, why : O!Reasons]
    /\ running \in BOOLEAN
    /\ pc \in {"control", "command", "state", "order", "reports",
               "objective", "wait", "exited", "failed"}

\* An executing command has an active objective, its own, whatever was
\* commanded, rejected, updated or ordered before: isCommandCompleted() and
\* isCommandFailed() take activeObjective_.value() without asking.
ObjectiveForCommand == cmd.st = "EXECUTING" => obj.id = cmd.id

\* Between the two providers an objective without a command is on its way
\* out: it was canceled, has ended, or lost its command to an update that
\* was refused.  None is left QUEUED, EXECUTING or PAUSED with no command
\* to end it.
NoIdleObjective ==
    pc = "state" /\ cmd = NoCommand =>
        obj.st \in {"NONE", "CANCELING", "COMPLETED", "FAILED", "MODIFYING"}

\* The two providers agree on the objective they share.
ObjectiveInv == TypeOK /\ ObjectiveForCommand /\ NoIdleObjective

\* A state command moves, and completes for, the objective it named only:
\* although nothing compares the ids after ISSUED, no state command outlives
\* its objective long enough to meet another that it could move.
OrdersReachTheirObjective ==
    [][pc = "order" /\ order.st = "EXECUTING"
       /\ (obj' # obj \/ order'.st = "COMPLETED")
       => obj.id = order.to]_vars

\* An objective that completes or fails ends its command with a terminal
\* status, unless the process ends first.
FinishedReported ==
    \A s \in Sessions :
        obj.id = s /\ obj.st \in {"COMPLETED", "FAILED"}
            ~> bus[s] \in Terminal \/ pc \in {"exited", "failed"}

\* After a signal run() returns: no phase of a turn, the loop over the hooks
\* and the handling of the commands included, goes on for ever.
StopsWhenTold == ~running ~> pc \in {"exited", "failed"}

\* While no hook and no report fails, run() returns only after a signal.
RunsUntilStopped == pc # "failed"

\* "CANCELING and will stay there until the implementer moves it to
\* CANCELED".
CancelingStays ==
    [][obj.st = "CANCELING" => obj'.st \in {"CANCELING", "CANCELED"}]_vars
=============================================================================
