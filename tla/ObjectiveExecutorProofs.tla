------------------------- MODULE ObjectiveExecutorProofs -------------------------
(***************************************************************************)
(* The two command providers of ObjectiveController and the objective they *)
(* share, for any number of sessions and whatever is sent, fails or is     *)
(* ordered: an executing command has its own objective, and a state        *)
(* command only moves the objective it named.                              *)
(*                                                                         *)
(* The argument follows a turn.  Outside the control provider's cycle the  *)
(* command is executing or there is none; when there is none the objective *)
(* is on its way out, so a state command under way is refused before the   *)
(* next turn resets the objective and can make another.                    *)
(***************************************************************************)
EXTENDS ObjectiveExecutor, TLAPS

Objectives == [id : Sessions, st : O!States, why : O!Reasons]
Commands   == [id : Sessions, st : Statuses, why : Reasons]
OrderType  == [st : Statuses, why : Reasons, want : Wants, to : Sessions]

\* The states an objective without a command can be in.
Leaving == {"NONE", "CANCELING", "COMPLETED", "FAILED", "MODIFYING"}

\* The command and the objective.
CommandFits ==
    /\ pc # "command" => cmd = NoCommand \/ cmd.st = "EXECUTING"
    /\ pc = "command" => cmd # NoCommand
    /\ cmd.st \in {"COMMANDED", "EXECUTING"} => obj.id = cmd.id
    /\ cmd.st = "ISSUED" => obj.st \in {"NONE", "MODIFYING"}
    /\ cmd.st \in Terminal =>
           obj.st \in {"NONE", "MODIFYING", "COMPLETED", "FAILED"}
    /\ pc = "objective" => obj # NoObjective

IdleLeaves == pc \in {"state", "order"} /\ cmd = NoCommand => obj.st \in Leaving

\* The state command and the objective.
OrderFits ==
    /\ pc # "order" => order = NoOrder \/ order.st = "EXECUTING"
    /\ order.st \in {"COMMANDED", "EXECUTING"} => obj.id = order.to
    /\ order.st = "EXECUTING" /\ cmd.st = "ISSUED" => obj.id = cmd.id
    /\ pc \in {"reports", "objective", "wait", "control"}
           /\ order.st = "EXECUTING" => cmd # NoCommand

IInv == TypeOK /\ CommandFits /\ IdleLeaves /\ OrderFits

-----------------------------------------------------------------------------
(* The state machines.                                                     *)

LEMMA SuccessorFacts ==
    /\ DOMAIN O!Successor = {"QUEUED", "EXECUTING", "MODIFYING", "PAUSING",
                             "RESUMING", "CANCELING"}
    /\ \A st \in DOMAIN O!Successor : O!Successor[st] \in O!States
    /\ "NONE" \notin O!States
  BY DEF O!Successor, O!States, O!Final

LEMMA MoveFacts ==
    ASSUME NEW o \in Objectives, NEW st \in O!States, NEW why \in O!Reasons
    PROVE  /\ O!Move(o, st, why) \in Objectives
           /\ O!Move(o, st, why).id = o.id /\ O!Move(o, st, why).st = st
<1> DEFINE x == [id |-> o.id, st |-> st, why |-> why]
<1>1. o = [id |-> o.id, st |-> o.st, why |-> o.why] /\ o.id \in Sessions
  BY DEF Objectives
<1> DEFINE u == [o EXCEPT !.st = st]
<1>2. u = [id |-> o.id, st |-> st, why |-> o.why]
  BY <1>1
<1> HIDE DEF u
<1>3. [u EXCEPT !.why = why] = x
  BY <1>2
<1>4. O!Move(o, st, why) = x
  BY <1>3 DEF O!Move, u
<1> QED
  BY <1>1, <1>4 DEF Objectives

\* The methods of the objective's state machine keep its id.
LEMMA Methods ==
    ASSUME NEW o \in Objectives
    PROVE  /\ O!CanAdvance(o) => O!Advance(o) \in Objectives /\ O!Advance(o).id = o.id
           /\ O!Update(o) \in Objectives /\ O!Update(o).id = o.id
           /\ O!Update(o).st = "MODIFYING"
           /\ O!Pause(o) \in Objectives /\ O!Pause(o).id = o.id
           /\ O!Resume(o) \in Objectives /\ O!Resume(o).id = o.id
           /\ O!Cancel(o) \in Objectives /\ O!Cancel(o).id = o.id
           /\ O!Cancel(o).st = "CANCELING"
           /\ \A r \in O!FailureReasons :
                  O!Fail(o, r) \in Objectives /\ O!Fail(o, r).id = o.id
<1>1. /\ {"MODIFYING", "PAUSING", "RESUMING", "CANCELING", "FAILED"} \subseteq O!States
      /\ {"SUCCEEDED", "COMMANDED", "BUS_MSG_UPDATE", "BUS_MSG_DISPOSE"}
             \cup O!FailureReasons \subseteq O!Reasons
  BY SuccessorFacts DEF O!States, O!Final, O!Reasons
<1>2. O!CanAdvance(o) => O!Successor[o.st] \in O!States
  BY SuccessorFacts DEF O!CanAdvance
<1>3. O!CanAdvance(o) => O!Advance(o) \in Objectives /\ O!Advance(o).id = o.id
  BY <1>1, <1>2, MoveFacts DEF O!Advance
<1>4. /\ O!Update(o) \in Objectives /\ O!Update(o).id = o.id
      /\ O!Update(o).st = "MODIFYING"
  BY <1>1, MoveFacts DEF O!Update
<1>5. /\ O!Pause(o) \in Objectives /\ O!Pause(o).id = o.id
      /\ O!Resume(o) \in Objectives /\ O!Resume(o).id = o.id
  BY <1>1, MoveFacts DEF O!Pause, O!Resume
<1>6. /\ O!Cancel(o) \in Objectives /\ O!Cancel(o).id = o.id
      /\ O!Cancel(o).st = "CANCELING"
  BY <1>1, MoveFacts DEF O!Cancel
<1>7. \A r \in O!FailureReasons :
          O!Fail(o, r) \in Objectives /\ O!Fail(o, r).id = o.id
  BY <1>1, MoveFacts DEF O!Fail
<1> QED
  BY <1>3, <1>4, <1>5, <1>6, <1>7

\* The hooks keep it as well.
LEMMA HookFacts ==
    ASSUME NEW o \in Objectives
    PROVE  /\ \A x \in Hook(o) : x \in Objectives /\ x.id = o.id
           /\ \A x \in Checked(o) : x \in Objectives /\ x.id = o.id
<1>1. AdvanceState(o) \in Objectives /\ AdvanceState(o).id = o.id
  BY Methods DEF AdvanceState
<1>2. \A r \in O!FailureReasons : FailState(o, r) \in Objectives /\ FailState(o, r).id = o.id
  BY Methods DEF FailState
<1>3. "CANNOT_PERFORM_UNDER_CONSTRAINTS" \in O!FailureReasons
      /\ Failures \subseteq O!FailureReasons
  BY ExecutorAssumption DEF O!FailureReasons
<1> QED
  BY <1>1, <1>2, <1>3 DEF Hook, Checked

LEMMA MachineStates ==
    /\ Fresh \in CommandState /\ Fresh.st = "ISSUED"
    /\ Updated \in CommandState /\ Updated.st = "ISSUED"
    /\ Canceled \in CommandState /\ Canceled.st = "CANCELED"
    /\ \A r \in FailureReasons : Failed(r) \in CommandState /\ Failed(r).st = "FAILED"
    /\ "NONE" \notin Statuses
  BY DEF CommandState, Statuses, Reasons, FailureReasons, Fresh, Updated, Canceled,
     Failed

LEMMA AdvancedFacts ==
    ASSUME NEW c
    PROVE  /\ c.st = "ISSUED" =>
                  Advanced(c) \in CommandState /\ Advanced(c).st = "COMMANDED"
           /\ c.st = "COMMANDED" =>
                  Advanced(c) \in CommandState /\ Advanced(c).st = "EXECUTING"
           /\ c.st = "EXECUTING" =>
                  Advanced(c) \in CommandState /\ Advanced(c).st = "COMPLETED"
<1>1. /\ Successor["ISSUED"] = "COMMANDED" /\ Successor["COMMANDED"] = "EXECUTING"
      /\ Successor["EXECUTING"] = "COMPLETED"
  BY DEF Successor, NonFinal
<1> QED
  BY <1>1 DEF Advanced, CommandState, Statuses, Reasons

\* A session of the control provider in another state.
LEMMA WithFacts ==
    ASSUME NEW c \in Commands, NEW x \in CommandState
    PROVE  /\ With(c, x) \in Commands
           /\ With(c, x).id = c.id /\ With(c, x).st = x.st
<1> DEFINE y == [id |-> c.id, st |-> x.st, why |-> x.why]
           u == [c EXCEPT !.st = x.st]
<1>1. /\ c = [id |-> c.id, st |-> c.st, why |-> c.why] /\ c.id \in Sessions
      /\ x.st \in Statuses /\ x.why \in Reasons
  BY DEF Commands, CommandState
<1>2. u = [id |-> c.id, st |-> x.st, why |-> c.why]
  BY <1>1
<1> HIDE DEF u
<1>3. [u EXCEPT !.why = x.why] = y
  BY <1>2
<1>4. With(c, x) = y
  BY <1>3 DEF With, u
<1> QED
  BY <1>1, <1>4 DEF Commands

\* And of the state provider.
LEMMA OrderWithFacts ==
    ASSUME NEW c \in OrderType, NEW x \in CommandState
    PROVE  /\ With(c, x) \in OrderType
           /\ With(c, x).to = c.to /\ With(c, x).st = x.st
<1> DEFINE y == [st |-> x.st, why |-> x.why, want |-> c.want, to |-> c.to]
           u == [c EXCEPT !.st = x.st]
<1>1. /\ c = [st |-> c.st, why |-> c.why, want |-> c.want, to |-> c.to]
      /\ c.want \in Wants /\ c.to \in Sessions
      /\ x.st \in Statuses /\ x.why \in Reasons
  BY DEF OrderType, CommandState
<1>2. u = [st |-> x.st, why |-> c.why, want |-> c.want, to |-> c.to]
  BY <1>1
<1> HIDE DEF u
<1>3. [u EXCEPT !.why = x.why] = y
  BY <1>2
<1>4. With(c, x) = y
  BY <1>3 DEF With, u
<1> QED
  BY <1>1, <1>4 DEF OrderType

LEMMA FirstCommand ==
    ASSUME NEW s \in Sessions
    PROVE  /\ With([NoCommand EXCEPT !.id = s], Fresh) \in Commands
           /\ With([NoCommand EXCEPT !.id = s], Fresh).id = s
           /\ With([NoCommand EXCEPT !.id = s], Fresh).st = "ISSUED"
<1> DEFINE u == [NoCommand EXCEPT !.id = s]
           v == [u EXCEPT !.st = Fresh.st]
           y == [id |-> s, st |-> "ISSUED", why |-> "SUCCEEDED"]
<1>1. u = [id |-> s, st |-> "NONE", why |-> "NONE"]
  BY DEF NoCommand
<1> HIDE DEF u
<1>2. v = [id |-> s, st |-> "ISSUED", why |-> "NONE"]
  BY <1>1 DEF Fresh
<1> HIDE DEF v
<1>3. [v EXCEPT !.why = Fresh.why] = y
  BY <1>2 DEF Fresh
<1>4. With(u, Fresh) = y
  BY <1>3 DEF With, v
<1> QED
  BY <1>4 DEF u, Commands, Statuses, Reasons

\* The types by name.
LEMMA Types ==
    TypeOK <=>
        /\ client \in [Sessions -> {"unused", "open", "closed"}]
        /\ inbox \in Seq([kind : {"write", "dispose"}, id : Sessions])
        /\ orders \in Seq(OrderSample)
        /\ cmd = NoCommand \/ cmd \in Commands
        /\ bus \in [Sessions -> Statuses \cup {"NONE"}]
        /\ order = NoOrder \/ order \in OrderType
        /\ obj = NoObjective \/ obj \in Objectives
        /\ running \in BOOLEAN
        /\ pc \in {"control", "command", "state", "order", "reports",
                   "objective", "wait", "exited", "failed"}
  BY DEF TypeOK, Commands, OrderType, Objectives

LEMMA NothingFacts ==
    /\ NoCommand.id = None /\ NoCommand.st = "NONE" /\ NoCommand \notin Commands
    /\ NoObjective.id = None /\ NoObjective.st = "NONE"
    /\ NoOrder.st = "NONE" /\ NoOrder \notin OrderType
    /\ \A c \in Commands : c.id # None /\ c.id \in Sessions /\ c.st \in Statuses
    /\ \A o \in Objectives : o.id \in Sessions /\ o.st \in O!States /\ o.st # "NONE"
    /\ \A o \in OrderType : o.to \in Sessions /\ o.st # "NONE"
  BY SuccessorFacts, MachineStates, ExecutorAssumption
     DEF NoCommand, NoObjective, NoOrder, Commands, OrderType, Objectives

-----------------------------------------------------------------------------
(* The invariant.                                                          *)

LEMMA InitIInv == Init => IInv
<1> SUFFICES ASSUME Init PROVE IInv
  OBVIOUS
<1>1. TypeOK
  BY Types DEF Init
<1>2. CommandFits /\ IdleLeaves /\ OrderFits
  BY NothingFacts DEF Init, CommandFits, IdleLeaves, OrderFits, Terminal, Leaving
<1> QED
  BY <1>1, <1>2 DEF IInv

\* What consumers and the signal change is not in the rest of the invariant.
LEMMA InputIInv ==
    ASSUME IInv, UNCHANGED <<cmd, bus, order, obj, pc>>,
           client' \in [Sessions -> {"unused", "open", "closed"}],
           inbox' \in Seq([kind : {"write", "dispose"}, id : Sessions]),
           orders' \in Seq(OrderSample), running' \in BOOLEAN
    PROVE  IInv'
<1>1. TypeOK'
  BY DEF IInv, TypeOK
<1>2. CommandFits' /\ IdleLeaves' /\ OrderFits'
  BY DEF IInv, CommandFits, IdleLeaves, OrderFits
<1> QED
  BY <1>1, <1>2 DEF IInv

LEMMA ConsumerIInv ==
    ASSUME IInv,
           \/ \E s \in Sessions : Send(s) \/ Close(s)
           \/ \E o \in OrderSample : SendOrder(o)
           \/ Signal
           \/ Returned
           \/ UNCHANGED vars
    PROVE  IInv'
<1>1. /\ client \in [Sessions -> {"unused", "open", "closed"}]
      /\ inbox \in Seq([kind : {"write", "dispose"}, id : Sessions])
      /\ orders \in Seq(OrderSample) /\ running \in BOOLEAN
  BY DEF IInv, TypeOK
<1>2. ASSUME NEW s \in Sessions, Send(s) PROVE IInv'
  <2>1. inbox' \in Seq([kind : {"write", "dispose"}, id : Sessions])
    BY <1>1, <1>2 DEF Send
  <2>2. client' \in [Sessions -> {"unused", "open", "closed"}]
    BY <1>1, <1>2 DEF Send
  <2> QED
    BY <1>1, <1>2, <2>1, <2>2, InputIInv DEF Send
<1>3. ASSUME NEW s \in Sessions, Close(s) PROVE IInv'
  <2>1. inbox' \in Seq([kind : {"write", "dispose"}, id : Sessions])
    BY <1>1, <1>3 DEF Close
  <2>2. client' \in [Sessions -> {"unused", "open", "closed"}]
    BY <1>1, <1>3 DEF Close
  <2> QED
    BY <1>1, <1>3, <2>1, <2>2, InputIInv DEF Close
<1>4. ASSUME NEW o \in OrderSample, SendOrder(o) PROVE IInv'
  <2>1. orders' \in Seq(OrderSample)
    BY <1>1, <1>4 DEF SendOrder
  <2> QED
    BY <1>1, <1>4, <2>1, InputIInv DEF SendOrder
<1>5. ASSUME Signal \/ Returned \/ UNCHANGED vars PROVE IInv'
  BY <1>1, <1>5, InputIInv DEF Signal, Returned, vars
<1> QED
  BY <1>2, <1>3, <1>4, <1>5

\* A step of the control provider leaves the state command alone.
LEMMA ControlStep ==
    ASSUME IInv,
           client' = client, orders' = orders, order' = order, running' = running,
           inbox' \in Seq([kind : {"write", "dispose"}, id : Sessions]),
           cmd' = NoCommand \/ cmd' \in Commands,
           obj' = NoObjective \/ obj' \in Objectives,
           bus' \in [Sessions -> Statuses \cup {"NONE"}],
           pc' \in {"command", "state", "failed"}
    PROVE  TypeOK'
  BY Types DEF IInv, TypeOK, OrderType, Commands, Objectives

\* What is read from the inbox leaves it well-typed.
LEMMA TailType ==
    ASSUME NEW S, NEW q \in Seq(S), q # <<>>
    PROVE  Tail(q) \in Seq(S)
  OBVIOUS

LEMMA PublishType ==
    ASSUME IInv, NEW s \in Sessions, NEW c, c.st \in Statuses, Publish(s, c)
    PROVE  bus' \in [Sessions -> Statuses \cup {"NONE"}]
  BY DEF IInv, TypeOK, Publish

\* At the start of a turn the command is executing, with its objective, or
\* there is none; then a state command is not under way either.
LEMMA AtControl ==
    ASSUME IInv, pc = "control"
    PROVE  /\ order = NoOrder \/ order.st = "EXECUTING"
           /\ \/ cmd = NoCommand /\ Kept = NoObjective /\ order = NoOrder
              \/ /\ cmd \in Commands /\ cmd.st = "EXECUTING" /\ Kept = obj
                 /\ obj.id = cmd.id /\ obj \in Objectives
                 /\ order.st = "EXECUTING" => obj.id = order.to
<1>1. /\ cmd = NoCommand \/ (cmd.st = "EXECUTING" /\ cmd \in Commands)
      /\ obj = NoObjective \/ obj \in Objectives
      /\ order = NoOrder \/ order.st = "EXECUTING"
  <2>1. /\ cmd = NoCommand \/ cmd \in Commands
        /\ obj = NoObjective \/ obj \in Objectives
    BY Types DEF IInv
  <2> QED
    BY <2>1 DEF IInv, CommandFits, OrderFits
<1>2. CASE cmd = NoCommand
  BY <1>1, <1>2 DEF IInv, OrderFits, Kept, Resets
<1>3. CASE cmd # NoCommand
  <2>1. cmd.st = "EXECUTING" /\ cmd \in Commands /\ ~IsStateFinal(cmd.st)
    BY <1>1, <1>3 DEF IsStateFinal, NonFinal
  <2>2. obj.id = cmd.id /\ cmd.id # None
    BY <2>1, NothingFacts DEF IInv, CommandFits
  <2>3. obj \in Objectives
    BY <2>2, <1>1, NothingFacts
  <2> QED
    BY <2>1, <2>2, <2>3, <1>1, <1>3 DEF IInv, OrderFits, Kept, Resets
<1> QED
  BY <1>2, <1>3

LEMMA ReadNothingIInv == ASSUME IInv, ReadNothing PROVE IInv'
<1>1. /\ pc = "control" /\ obj' = Kept
      /\ pc' = IF cmd = NoCommand THEN "state" ELSE "command"
      /\ UNCHANGED <<client, inbox, orders, cmd, bus, order, running>>
  BY DEF ReadNothing
<1>2. TypeOK'
  <2>1. obj' = NoObjective \/ obj' \in Objectives
    BY <1>1, AtControl
  <2> QED
    BY <2>1, <1>1, ControlStep, Types DEF IInv
<1>3. CASE cmd = NoCommand
  BY <1>1, <1>2, <1>3, AtControl, NothingFacts
     DEF IInv, CommandFits, IdleLeaves, OrderFits, Terminal, Leaving
<1>4. CASE cmd # NoCommand
  BY <1>1, <1>2, <1>4, AtControl, NothingFacts
     DEF IInv, CommandFits, IdleLeaves, OrderFits, Terminal, Leaving
<1> QED
  BY <1>3, <1>4

LEMMA ReadFacts ==
    ASSUME IInv, NEW kind, NEW s, Read(kind, s)
    PROVE  /\ pc = "control"
           /\ inbox' \in Seq([kind : {"write", "dispose"}, id : Sessions])
           /\ UNCHANGED <<client, orders, order, running>>
  BY TailType DEF Read, IInv, TypeOK

LEMMA AcceptIInv == ASSUME IInv, NEW s \in Sessions, Accept(s) PROVE IInv'
<1>1. /\ Read("write", s) /\ cmd = NoCommand
      /\ cmd' = With([NoCommand EXCEPT !.id = s], Fresh)
      /\ Publish(s, Fresh) /\ obj' = Kept /\ pc' = "command"
  BY DEF Accept
<1>2. /\ cmd' \in Commands /\ cmd'.st = "ISSUED"
      /\ obj' = NoObjective /\ order = NoOrder /\ order' = order
      /\ pc = "control"
  BY <1>1, FirstCommand, ReadFacts, AtControl, NothingFacts
<1>3. bus' \in [Sessions -> Statuses \cup {"NONE"}]
  BY <1>1, PublishType, MachineStates DEF CommandState
<1>4. TypeOK'
  BY <1>1, <1>2, <1>3, ReadFacts, ControlStep
<1> QED
  BY <1>1, <1>2, <1>4, NothingFacts
     DEF IInv, CommandFits, IdleLeaves, OrderFits, Terminal

LEMMA RejectIInv == ASSUME IInv, NEW s \in Sessions, Reject(s) PROVE IInv'
<1>1. /\ Read("write", s) /\ cmd.id \notin {s, None}
      /\ Publish(s, Failed("SERVICE_FAILED"))
      /\ obj' = Kept /\ pc' = "command" /\ cmd' = cmd
  BY DEF Reject
<1>2. /\ cmd \in Commands /\ cmd.st = "EXECUTING" /\ obj' = obj
      /\ obj.id = cmd.id /\ obj \in Objectives /\ order' = order
      /\ order = NoOrder \/ order.st = "EXECUTING"
      /\ order.st = "EXECUTING" => obj.id = order.to
  BY <1>1, ReadFacts, AtControl, NothingFacts
<1>3. "SERVICE_FAILED" \in FailureReasons
  BY DEF FailureReasons
<1>4. bus' \in [Sessions -> Statuses \cup {"NONE"}]
  BY <1>1, <1>3, PublishType, MachineStates DEF CommandState
<1>5. TypeOK'
  BY <1>1, <1>2, <1>4, ReadFacts, ControlStep
<1> QED
  BY <1>1, <1>2, <1>5, NothingFacts
     DEF IInv, CommandFits, IdleLeaves, OrderFits, Terminal

\* The process ends.
LEMMA GiveUpIInv ==
    ASSUME IInv, NEW s \in Sessions, NEW kind, NEW c,
           Read(kind, s), cmd.id = s, GiveUp(s, c), obj' = Kept
    PROVE  IInv'
<1>1. /\ cmd \in Commands /\ obj' = obj /\ obj \in Objectives /\ order' = order
      /\ order = NoOrder \/ order.st = "EXECUTING"
      /\ order.st = "EXECUTING" => obj.id = order.to
  BY ReadFacts, AtControl, NothingFacts, ExecutorAssumption
<1>2. cmd' = NoCommand /\ pc' = "failed"
  BY DEF GiveUp
<1>3. "SERVICE_FAILED" \in FailureReasons
  BY DEF FailureReasons
<1>4. bus' \in [Sessions -> Statuses \cup {"NONE"}]
  <2>1. Publish(s, Failed("SERVICE_FAILED")) \/ bus' = bus
    BY DEF GiveUp
  <2> QED
    BY <2>1, <1>3, PublishType, MachineStates DEF CommandState, IInv, TypeOK
<1>5. TypeOK'
  BY <1>1, <1>2, <1>4, ReadFacts, ControlStep
<1> QED
  BY <1>1, <1>2, <1>5, NothingFacts
     DEF IInv, CommandFits, IdleLeaves, OrderFits, Terminal

LEMMA UpdateCommandIInv ==
    ASSUME IInv, NEW s \in Sessions, UpdateCommand(s) PROVE IInv'
<1>1. /\ Read("write", s) /\ cmd.id = s
      /\ \/ /\ O!CanUpdate(Kept) /\ obj' = O!Update(Kept)
            /\ cmd' = With(cmd, Updated) /\ Publish(s, Updated)
            /\ pc' = "command"
         \/ GiveUp(s, Updated) /\ obj' = Kept
  BY DEF UpdateCommand
<1>2. /\ cmd \in Commands /\ Kept = obj /\ obj.id = cmd.id /\ obj \in Objectives
      /\ order' = order
      /\ order = NoOrder \/ order.st = "EXECUTING"
      /\ order.st = "EXECUTING" => obj.id = order.to
  BY <1>1, ReadFacts, AtControl, NothingFacts, ExecutorAssumption
<1>3. CASE /\ obj' = O!Update(Kept)
           /\ cmd' = With(cmd, Updated) /\ Publish(s, Updated)
           /\ pc' = "command"
  <2>1. /\ obj' \in Objectives /\ obj'.id = obj.id /\ obj'.st = "MODIFYING"
        /\ cmd' \in Commands /\ cmd'.id = cmd.id /\ cmd'.st = "ISSUED"
    BY <1>2, <1>3, Methods, WithFacts, MachineStates
  <2>2. bus' \in [Sessions -> Statuses \cup {"NONE"}]
    BY <1>3, PublishType, MachineStates DEF CommandState
  <2>3. TypeOK'
    BY <1>1, <1>2, <1>3, <2>1, <2>2, ReadFacts, ControlStep
  <2>4. CommandFits' /\ IdleLeaves'
    BY <1>3, <2>1, NothingFacts DEF CommandFits, IdleLeaves, Terminal, Leaving
  <2>5. OrderFits'
    BY <1>2, <1>3, <2>1, NothingFacts DEF OrderFits
  <2> QED
    BY <2>3, <2>4, <2>5 DEF IInv
<1>4. CASE GiveUp(s, Updated) /\ obj' = Kept
  BY <1>1, <1>4, GiveUpIInv
<1> QED
  BY <1>1, <1>3, <1>4

LEMMA CancelCommandIInv ==
    ASSUME IInv, NEW s \in Sessions, CancelCommand(s) PROVE IInv'
<1>1. /\ Read("dispose", s) /\ cmd.id = s
      /\ \/ /\ O!CanCancel(Kept) /\ obj' = O!Cancel(Kept)
            /\ cmd' = NoCommand /\ Publish(s, Canceled)
            /\ pc' = "state"
         \/ GiveUp(s, Canceled) /\ obj' = Kept
  BY DEF CancelCommand
<1>2. /\ cmd \in Commands /\ Kept = obj /\ obj.id = cmd.id /\ obj \in Objectives
      /\ order' = order
      /\ order = NoOrder \/ order.st = "EXECUTING"
      /\ order.st = "EXECUTING" => obj.id = order.to
  BY <1>1, ReadFacts, AtControl, NothingFacts, ExecutorAssumption
<1>3. CASE /\ obj' = O!Cancel(Kept)
           /\ cmd' = NoCommand /\ Publish(s, Canceled)
           /\ pc' = "state"
  <2>1. obj' \in Objectives /\ obj'.id = obj.id /\ obj'.st = "CANCELING"
    BY <1>2, <1>3, Methods
  <2>2. bus' \in [Sessions -> Statuses \cup {"NONE"}]
    BY <1>3, PublishType, MachineStates DEF CommandState
  <2>3. TypeOK'
    BY <1>1, <1>2, <1>3, <2>1, <2>2, ReadFacts, ControlStep
  <2>4. CommandFits' /\ IdleLeaves'
    BY <1>3, <2>1, NothingFacts DEF CommandFits, IdleLeaves, Terminal, Leaving
  <2>5. OrderFits'
    BY <1>2, <1>3, <2>1, NothingFacts DEF OrderFits
  <2> QED
    BY <2>3, <2>4, <2>5 DEF IInv
<1>4. CASE GiveUp(s, Canceled) /\ obj' = Kept
  BY <1>1, <1>4, GiveUpIInv
<1> QED
  BY <1>1, <1>3, <1>4

LEMMA CancelUnknownIInv ==
    ASSUME IInv, NEW s \in Sessions, CancelUnknown(s) PROVE IInv'
<1>1. /\ Read("dispose", s) /\ obj' = Kept
      /\ pc' = IF cmd = NoCommand THEN "state" ELSE "command"
      /\ cmd' = cmd /\ bus' = bus
  BY DEF CancelUnknown
<1>2. pc = "control" /\ order' = order
  BY <1>1, ReadFacts
<1>3. TypeOK'
  <2>1. obj' = NoObjective \/ obj' \in Objectives
    BY <1>1, <1>2, AtControl
  <2> QED
    BY <2>1, <1>1, ReadFacts, ControlStep, Types DEF IInv
<1>4. CASE cmd = NoCommand
  BY <1>1, <1>2, <1>3, <1>4, AtControl, NothingFacts
     DEF IInv, CommandFits, IdleLeaves, OrderFits, Terminal, Leaving
<1>5. CASE cmd # NoCommand
  BY <1>1, <1>2, <1>3, <1>5, AtControl, NothingFacts
     DEF IInv, CommandFits, IdleLeaves, OrderFits, Terminal, Leaving
<1> QED
  BY <1>4, <1>5

\* The control provider handles its session, outside the first case the
\* state command is executing or there is none.
LEMMA AtCommand ==
    ASSUME IInv, pc = "command"
    PROVE  /\ cmd \in Commands /\ cmd.st \in Statuses
           /\ obj = NoObjective \/ obj \in Objectives
           /\ order = NoOrder \/ order.st = "EXECUTING"
           /\ order.st \notin {"ISSUED", "COMMANDED"}
<1>1. /\ cmd = NoCommand \/ cmd \in Commands
      /\ obj = NoObjective \/ obj \in Objectives
  BY Types DEF IInv
<1> QED
  BY <1>1, NothingFacts DEF IInv, CommandFits, OrderFits

LEMMA CommandToFacts ==
    ASSUME IInv, pc = "command", NEW c \in CommandState, CommandTo(c)
    PROVE  /\ cmd' \in Commands /\ cmd'.id = cmd.id /\ cmd'.st = c.st
           /\ bus' \in [Sessions -> Statuses \cup {"NONE"}]
           /\ pc' = "command"
<1>1. cmd \in Commands /\ cmd.id \in Sessions
  BY AtCommand, NothingFacts
<1> QED
  BY <1>1, WithFacts, PublishType DEF CommandTo, CommandState

LEMMA IssuedIInv ==
    ASSUME IInv, pc = "command", Issued,
           UNCHANGED <<client, inbox, orders, order, running>>
    PROVE  IInv'
<1>1. cmd.st = "ISSUED" /\ cmd \in Commands /\ cmd.id \in Sessions
  BY AtCommand, NothingFacts DEF Issued
<1>2. inbox' \in Seq([kind : {"write", "dispose"}, id : Sessions])
  BY DEF IInv, TypeOK
<1>3. CASE /\ obj' = [id |-> cmd.id, st |-> "QUEUED", why |-> "SUCCEEDED"]
           /\ CommandTo(Advanced(cmd))
  <2>1. /\ obj' \in Objectives /\ obj'.id = cmd.id
    BY <1>1, <1>3, SuccessorFacts DEF Objectives, O!States, O!Reasons
  <2>2. /\ cmd' \in Commands /\ cmd'.id = cmd.id /\ cmd'.st = "COMMANDED"
        /\ bus' \in [Sessions -> Statuses \cup {"NONE"}]
        /\ pc' = "command"
    BY <1>1, <1>3, AdvancedFacts, CommandToFacts
  <2>3. TypeOK'
    BY <1>2, <2>1, <2>2, ControlStep
  <2>4. CommandFits' /\ IdleLeaves'
    BY <2>1, <2>2, NothingFacts DEF CommandFits, IdleLeaves, Terminal
  <2>5. OrderFits'
    <3>1. order.st = "EXECUTING" => obj'.id = order.to
      BY <1>1, <2>1 DEF IInv, OrderFits
    <3> QED
      BY <3>1, <2>2, AtCommand DEF OrderFits
  <2> QED
    BY <2>3, <2>4, <2>5 DEF IInv
<1>4. CASE CommandTo(Failed("VALIDATION_FAILED")) /\ UNCHANGED obj
  <2>1. "VALIDATION_FAILED" \in FailureReasons
    BY DEF FailureReasons
  <2>2. /\ cmd' \in Commands /\ cmd'.id = cmd.id /\ cmd'.st = "FAILED"
        /\ bus' \in [Sessions -> Statuses \cup {"NONE"}]
        /\ pc' = "command"
    BY <1>4, <2>1, MachineStates, CommandToFacts
  <2>3. obj.st \in {"NONE", "MODIFYING"}
    BY <1>1 DEF IInv, CommandFits
  <2>4. TypeOK'
    BY <1>2, <1>4, <2>2, AtCommand, ControlStep
  <2>5. CommandFits' /\ IdleLeaves'
    BY <1>4, <2>2, <2>3, NothingFacts DEF CommandFits, IdleLeaves, Terminal
  <2>6. OrderFits'
    BY <1>4, <2>2, AtCommand DEF IInv, OrderFits
  <2> QED
    BY <2>4, <2>5, <2>6 DEF IInv
<1> QED
  BY <1>3, <1>4 DEF Issued

LEMMA CommandedIInv ==
    ASSUME IInv, pc = "command", Commanded,
           UNCHANGED <<client, inbox, orders, order, running>>
    PROVE  IInv'
<1>1. /\ cmd.st = "COMMANDED" /\ CommandTo(Advanced(cmd)) /\ obj' = obj
      /\ obj.id = cmd.id
  BY DEF Commanded, IInv, CommandFits
<1>2. inbox' \in Seq([kind : {"write", "dispose"}, id : Sessions])
  BY DEF IInv, TypeOK
<1>3. /\ cmd' \in Commands /\ cmd'.id = cmd.id /\ cmd'.st = "EXECUTING"
      /\ bus' \in [Sessions -> Statuses \cup {"NONE"}]
      /\ pc' = "command"
  BY <1>1, AdvancedFacts, CommandToFacts
<1>4. TypeOK'
  BY <1>1, <1>2, <1>3, AtCommand, ControlStep
<1>5. CommandFits' /\ IdleLeaves'
  BY <1>1, <1>3, NothingFacts DEF CommandFits, IdleLeaves, Terminal
<1>6. OrderFits'
  BY <1>1, <1>3, AtCommand DEF IInv, OrderFits
<1> QED
  BY <1>4, <1>5, <1>6 DEF IInv

LEMMA ExecutingIInv ==
    ASSUME IInv, pc = "command", Executing,
           UNCHANGED <<client, inbox, orders, order, running>>
    PROVE  IInv'
<1>1. cmd.st = "EXECUTING" /\ cmd \in Commands /\ obj' = obj /\ obj.id = cmd.id
  BY AtCommand DEF Executing, IInv, CommandFits
<1>2. inbox' \in Seq([kind : {"write", "dispose"}, id : Sessions])
  BY DEF IInv, TypeOK
<1>3. ASSUME NEW c \in Outcome, CommandTo(c) PROVE IInv'
  <2>1. "OBJECTIVE_FAILED" \in FailureReasons
    BY DEF FailureReasons
  <2>2. /\ c \in CommandState /\ c.st \in {"COMPLETED", "FAILED"}
        /\ obj.st \in {"COMPLETED", "FAILED"}
    BY <1>1, <1>3, <2>1, MachineStates, AdvancedFacts DEF Outcome
  <2>3. /\ cmd' \in Commands /\ cmd'.id = cmd.id
        /\ cmd'.st \in {"COMPLETED", "FAILED"}
        /\ bus' \in [Sessions -> Statuses \cup {"NONE"}]
        /\ pc' = "command"
    BY <1>3, <2>2, CommandToFacts
  <2>4. TypeOK'
    BY <1>1, <1>2, <2>3, AtCommand, ControlStep
  <2>5. CommandFits' /\ IdleLeaves'
    BY <1>1, <2>2, <2>3, NothingFacts DEF CommandFits, IdleLeaves, Terminal
  <2>6. OrderFits'
    BY <1>1, <2>3, AtCommand DEF IInv, OrderFits
  <2> QED
    BY <2>4, <2>5, <2>6 DEF IInv
<1>4. CASE pc' = "state" /\ UNCHANGED <<cmd, bus>>
  <2>1. TypeOK'
    BY <1>1, <1>2, <1>4, AtCommand, ControlStep, Types DEF IInv
  <2>2. CommandFits' /\ IdleLeaves'
    BY <1>1, <1>4, NothingFacts DEF CommandFits, IdleLeaves, Terminal
  <2>3. OrderFits'
    BY <1>1, <1>4, AtCommand DEF IInv, OrderFits
  <2> QED
    BY <2>1, <2>2, <2>3 DEF IInv
<1> QED
  BY <1>3, <1>4 DEF Executing

LEMMA EraseIInv ==
    ASSUME IInv, pc = "command", Erase,
           UNCHANGED <<client, inbox, orders, order, running>>
    PROVE  IInv'
<1>1. /\ cmd.st \in Terminal /\ cmd' = NoCommand /\ pc' = "state"
      /\ bus' = bus /\ obj' = obj
  BY AtCommand DEF Erase, IsStateFinal, NonFinal, Statuses, Terminal
<1>2. inbox' \in Seq([kind : {"write", "dispose"}, id : Sessions])
  BY DEF IInv, TypeOK
<1>3. obj.st \in {"NONE", "MODIFYING", "COMPLETED", "FAILED"}
  BY <1>1 DEF IInv, CommandFits
<1>4. TypeOK'
  BY <1>1, <1>2, AtCommand, ControlStep, Types DEF IInv
<1>5. CommandFits' /\ IdleLeaves'
  BY <1>1, <1>3, NothingFacts DEF CommandFits, IdleLeaves, Terminal, Leaving
<1>6. OrderFits'
  BY <1>1, AtCommand, NothingFacts DEF IInv, OrderFits
<1> QED
  BY <1>4, <1>5, <1>6 DEF IInv

LEMMA CycleCommandIInv == ASSUME IInv, CycleCommand PROVE IInv'
  BY IssuedIInv, CommandedIInv, ExecutingIInv, EraseIInv DEF CycleCommand

-----------------------------------------------------------------------------
(* The state provider.                                                     *)

LEMMA OrderStep ==
    ASSUME IInv,
           UNCHANGED <<client, inbox, cmd, bus, running>>,
           orders' \in Seq(OrderSample),
           order' = NoOrder \/ order' \in OrderType,
           obj' = NoObjective \/ obj' \in Objectives,
           pc' \in {"order", "reports"}
    PROVE  TypeOK'
  BY Types DEF IInv, TypeOK, OrderType, Commands, Objectives

LEMMA AtState ==
    ASSUME IInv, pc \in {"state", "order"}
    PROVE  /\ cmd = NoCommand \/ cmd.st = "EXECUTING"
           /\ cmd.st \notin {"ISSUED", "COMMANDED"} \cup Terminal
           /\ cmd = NoCommand => obj.st \in Leaving
           /\ cmd.st = "EXECUTING" => obj.id = cmd.id
           /\ obj = NoObjective \/ obj \in Objectives
           /\ order = NoOrder \/ order \in OrderType
<1>1. /\ order = NoOrder \/ order \in OrderType
      /\ obj = NoObjective \/ obj \in Objectives
  BY Types DEF IInv
<1>2. cmd = NoCommand \/ cmd.st = "EXECUTING"
  BY DEF IInv, CommandFits
<1> QED
  BY <1>1, <1>2, NothingFacts DEF IInv, CommandFits, IdleLeaves, Terminal

\* The sample that is read becomes the state command.
LEMMA OrderReadFacts ==
    ASSUME IInv, NEW kinds, ReadOrder(kinds), NEW c \in CommandState, OrderIs(c)
    PROVE  order' \in OrderType /\ order'.st = c.st
<1>1. Head(orders) \in OrderSample
  BY DEF ReadOrder, IInv, TypeOK
<1> QED
  BY <1>1 DEF OrderIs, OrderType, OrderSample, CommandState

LEMMA ReadOrderIInv ==
    ASSUME IInv, NewOrder \/ UpdateOrder \/ CancelOrder PROVE IInv'
<1>1. PICK kinds : ReadOrder(kinds)
  BY DEF NewOrder, UpdateOrder, CancelOrder
<1>2. /\ pc = "state" /\ orders' \in Seq(OrderSample)
      /\ UNCHANGED <<client, inbox, cmd, bus, obj, running>>
  BY <1>1, TailType DEF ReadOrder, IInv, TypeOK
<1>3. \/ pc' = "order" /\ order' \in OrderType /\ order'.st = "ISSUED"
      \/ pc' = "reports" /\ order' = NoOrder
  BY OrderReadFacts, MachineStates DEF NewOrder, UpdateOrder, CancelOrder
<1>4. TypeOK'
  BY <1>2, <1>3, AtState, OrderStep
<1>5. CommandFits' /\ IdleLeaves'
  BY <1>2, <1>3, AtState DEF CommandFits, IdleLeaves, Terminal
<1>6. OrderFits'
  BY <1>2, <1>3, NothingFacts DEF OrderFits
<1> QED
  BY <1>4, <1>5, <1>6 DEF IInv

LEMMA NoOrderReadIInv == ASSUME IInv, NoOrderRead PROVE IInv'
<1>1. /\ pc = "state" /\ pc' = IF order = NoOrder THEN "reports" ELSE "order"
      /\ UNCHANGED <<client, inbox, orders, cmd, bus, order, obj, running>>
  BY DEF NoOrderRead
<1>2. TypeOK'
  BY <1>1, AtState, OrderStep DEF IInv, TypeOK
<1>3. CommandFits' /\ IdleLeaves'
  BY <1>1, AtState DEF CommandFits, IdleLeaves, Terminal
<1>4. OrderFits'
  BY <1>1, NothingFacts DEF IInv, OrderFits
<1> QED
  BY <1>2, <1>3, <1>4 DEF IInv

\* A step that leaves the objective alone and brings the state command to
\* another state, for the objective it names once it is COMMANDED.
LEMMA OrderMoves ==
    ASSUME IInv, pc = "order",
           UNCHANGED <<client, inbox, orders, cmd, bus, obj, running>>,
           NEW c \in CommandState, OrderTo(c), pc' = pc, order # NoOrder,
           c.st \in {"COMMANDED", "EXECUTING"} => obj.id = order.to
    PROVE  IInv'
<1>1. /\ order' \in OrderType /\ order'.st = c.st /\ order'.to = order.to
  BY AtState, OrderWithFacts DEF OrderTo
<1>2. TypeOK'
  BY <1>1, AtState, OrderStep DEF IInv, TypeOK
<1>3. CommandFits' /\ IdleLeaves'
  BY AtState DEF CommandFits, IdleLeaves, Terminal
<1>4. OrderFits'
  BY <1>1, AtState DEF OrderFits
<1> QED
  BY <1>2, <1>3, <1>4 DEF IInv

\* States in which an objective has a command.
LEMMA HasCommand ==
    ASSUME IInv, pc = "order", obj.st \notin Leaving
    PROVE  cmd # NoCommand /\ obj \in Objectives
  BY AtState, NothingFacts DEF Leaving

\* What can be ordered of an objective that has not ended.
LEMMA ObeyFacts ==
    ASSUME IInv, pc = "order", NEW want \in Wants, CanObey(want)
    PROVE  /\ cmd # NoCommand
           /\ Obey(want) \in Objectives /\ Obey(want).id = obj.id
<1>1. obj.st \notin Leaving
  BY DEF CanObey, Wants, O!CanPause, O!CanResume, Leaving
<1>2. cmd # NoCommand /\ obj \in Objectives
  BY <1>1, HasCommand
<1>3. CASE want = "EXECUTE"
  <2>1. O!CanAdvance(obj)
    BY <1>3, SuccessorFacts DEF CanObey, O!CanAdvance
  <2> QED
    BY <1>2, <1>3, <2>1, Methods DEF Obey
<1>4. CASE want = "PAUSE"
  BY <1>2, <1>4, Methods DEF Obey
<1>5. CASE want = "RESUME"
  BY <1>2, <1>5, Methods DEF Obey
<1> QED
  BY <1>2, <1>3, <1>4, <1>5 DEF Wants

LEMMA ExecuteOrderIInv ==
    ASSUME IInv, pc = "order", order.st = "EXECUTING", ExecuteOrder,
           UNCHANGED <<client, inbox, orders, cmd, bus, running>>
    PROVE  IInv'
<1> DEFINE want == order.want
<1>1. /\ order \in OrderType /\ want \in Wants /\ order # NoOrder
      /\ obj.id = order.to
  BY AtState, NothingFacts DEF IInv, OrderFits, OrderType
<1>2. Advanced(order) \in CommandState /\ Advanced(order).st = "COMPLETED"
  BY AdvancedFacts
<1>3. /\ Failed("SERVICE_FAILED") \in CommandState
      /\ Failed("SERVICE_FAILED").st = "FAILED"
  BY MachineStates DEF FailureReasons
<1>4. CASE WaitsFor /\ pc' = "reports" /\ UNCHANGED <<order, obj>>
  <2>1. cmd # NoCommand
    BY <1>4, HasCommand DEF WaitsFor, Leaving
  <2>2. TypeOK'
    BY <1>4, AtState, OrderStep DEF IInv, TypeOK
  <2>3. CommandFits' /\ IdleLeaves'
    BY <1>4, AtState DEF CommandFits, IdleLeaves, Terminal
  <2>4. OrderFits'
    BY <1>1, <1>4, <2>1, AtState DEF OrderFits
  <2> QED
    BY <2>2, <2>3, <2>4 DEF IInv
<1>5. CASE OrderTo(Advanced(order)) /\ UNCHANGED <<pc, obj>>
  BY <1>1, <1>2, <1>5, OrderMoves
<1>6. CASE Refuse /\ UNCHANGED obj
  BY <1>1, <1>3, <1>6, OrderMoves DEF Refuse
<1>7. CASE /\ CanObey(want) /\ obj' = Obey(want)
           /\ \/ OrderTo(Advanced(order)) /\ UNCHANGED pc
              \/ pc' = "reports" /\ UNCHANGED order
  <2>1. cmd # NoCommand /\ obj' \in Objectives /\ obj'.id = obj.id
    BY <1>1, <1>7, ObeyFacts
  <2>2. \/ /\ order' \in OrderType /\ order'.st = "COMPLETED" /\ pc' = "order"
        \/ /\ order' = order /\ pc' = "reports"
    BY <1>1, <1>2, <1>7, OrderWithFacts DEF OrderTo
  <2>3. TypeOK'
    BY <1>1, <2>1, <2>2, OrderStep DEF IInv, TypeOK
  <2>4. CommandFits' /\ IdleLeaves'
    BY <2>1, <2>2, AtState DEF CommandFits, IdleLeaves, Terminal
  <2>5. OrderFits'
    BY <1>1, <2>1, <2>2, AtState DEF OrderFits
  <2> QED
    BY <2>3, <2>4, <2>5 DEF IInv
<1> QED
  BY <1>4, <1>5, <1>6, <1>7 DEF ExecuteOrder

LEMMA CycleOrderIInv == ASSUME IInv, CycleOrder PROVE IInv'
<1>1. /\ pc = "order"
      /\ UNCHANGED <<client, inbox, orders, cmd, bus, running>>
  BY DEF CycleOrder
<1>2. CASE /\ order.st = "ISSUED"
           /\ OrderTo(IF NamesObjective THEN Advanced(order)
                      ELSE Failed("VALIDATION_FAILED"))
           /\ UNCHANGED <<pc, obj>>
  <2>1. order # NoOrder
    BY <1>2, NothingFacts
  <2>2. CASE NamesObjective
    BY <1>1, <1>2, <2>1, <2>2, AdvancedFacts, OrderMoves DEF NamesObjective
  <2>3. CASE ~NamesObjective
    <3>1. /\ Failed("VALIDATION_FAILED") \in CommandState
          /\ Failed("VALIDATION_FAILED").st = "FAILED"
      BY MachineStates DEF FailureReasons
    <3> QED
      BY <1>1, <1>2, <2>1, <2>3, <3>1, OrderMoves
  <2> QED
    BY <2>2, <2>3
<1>3. CASE /\ order.st = "COMMANDED" /\ OrderTo(Advanced(order))
           /\ UNCHANGED <<pc, obj>>
  <2>1. order # NoOrder /\ obj.id = order.to
    BY <1>3, NothingFacts DEF IInv, OrderFits
  <2> QED
    BY <1>1, <1>3, <2>1, AdvancedFacts, OrderMoves
<1>4. CASE order.st = "EXECUTING" /\ ExecuteOrder
  BY <1>1, <1>4, ExecuteOrderIInv
<1>5. CASE order' = NoOrder /\ pc' = "reports" /\ UNCHANGED obj
  <2>1. TypeOK'
    BY <1>1, <1>5, AtState, OrderStep DEF IInv, TypeOK
  <2>2. CommandFits' /\ IdleLeaves'
    BY <1>1, <1>5, AtState DEF CommandFits, IdleLeaves, Terminal
  <2>3. OrderFits'
    BY <1>1, <1>5, NothingFacts DEF OrderFits
  <2> QED
    BY <2>1, <2>2, <2>3 DEF IInv
<1> QED
  BY <1>2, <1>3, <1>4, <1>5 DEF CycleOrder

-----------------------------------------------------------------------------
(* The rest of a turn.                                                     *)

LEMMA RestIInv == ASSUME IInv, CycleReports \/ Wait PROVE IInv'
<1>1. /\ UNCHANGED <<client, inbox, orders, cmd, bus, order, obj, running>>
      /\ \/ /\ pc = "reports" /\ pc' \in {"wait", "objective", "failed"}
            /\ pc' = "objective" => obj # NoObjective
         \/ /\ pc = "wait" /\ pc' \in {"control", "exited"}
  BY DEF CycleReports, Wait
<1>2. TypeOK'
  BY <1>1 DEF IInv, TypeOK
<1> QED
  BY <1>1, <1>2 DEF IInv, CommandFits, IdleLeaves, OrderFits

LEMMA CycleObjectiveIInv == ASSUME IInv, CycleObjective PROVE IInv'
<1>1. /\ pc = "objective" /\ pc' \in {"objective", "wait", "failed"}
      /\ UNCHANGED <<client, inbox, orders, cmd, bus, order, running>>
  BY DEF CycleObjective
<1>2. obj \in Objectives
  BY <1>1, Types DEF IInv, CommandFits
<1>3. obj' \in Objectives /\ obj'.id = obj.id
  <2>1. PICK o \in Hook(obj) : obj' = o \/ obj' \in Checked(o)
    BY DEF CycleObjective
  <2>2. o \in Objectives /\ o.id = obj.id
    BY <1>2, <2>1, HookFacts
  <2> QED
    BY <2>1, <2>2, HookFacts
<1>4. /\ cmd = NoCommand \/ cmd.st = "EXECUTING"
      /\ cmd.st \notin {"ISSUED", "COMMANDED"} \cup Terminal
      /\ cmd.st = "EXECUTING" => obj.id = cmd.id
  BY <1>1, NothingFacts DEF IInv, CommandFits, Terminal
<1>5. TypeOK'
  BY <1>1, <1>3 DEF IInv, TypeOK, Objectives
<1>6. CommandFits' /\ IdleLeaves'
  BY <1>1, <1>3, <1>4, NothingFacts DEF CommandFits, IdleLeaves, Terminal
<1>7. OrderFits'
  BY <1>1, <1>3, <1>4 DEF IInv, OrderFits
<1> QED
  BY <1>5, <1>6, <1>7 DEF IInv

LEMMA NextIInv == IInv /\ [Next]_vars => IInv'
<1>1. ASSUME IInv, Turn PROVE IInv'
  BY <1>1, ReadNothingIInv, AcceptIInv, RejectIInv, UpdateCommandIInv,
     CancelCommandIInv, CancelUnknownIInv, CycleCommandIInv, NoOrderReadIInv,
     ReadOrderIInv, CycleOrderIInv, RestIInv, CycleObjectiveIInv DEF Turn
<1> QED
  BY <1>1, ConsumerIInv DEF Next

-----------------------------------------------------------------------------
(* What it implies.                                                        *)

LEMMA IInvAlways == Spec => []IInv
<1>1. Init => IInv
  BY InitIInv
<1>2. IInv /\ [Next]_vars => IInv'
  BY NextIInv
<1> QED
  BY <1>1, <1>2, PTL DEF Spec

\* An executing control command has its own objective, so that the providers
\* may take the value of activeObjective_ without asking, and an objective
\* without a command is on its way out.
THEOREM ProvidersAgree == Spec => []ObjectiveInv
<1>1. IInv => ObjectiveInv
  BY DEF IInv, CommandFits, IdleLeaves, ObjectiveInv, ObjectiveForCommand,
     NoIdleObjective, Leaving
<1> QED
  BY <1>1, IInvAlways, PTL

\* A state command moves, and completes for, no objective but the one it
\* named, although nothing compares the ids once it was validated.
THEOREM OrdersAreForTheirObjective == Spec => OrdersReachTheirObjective
<1>1. IInv /\ [Next]_vars =>
          [pc = "order" /\ order.st = "EXECUTING"
           /\ (obj' # obj \/ order'.st = "COMPLETED")
           => obj.id = order.to]_vars
  BY DEF IInv, OrderFits
<1> QED
  BY <1>1, IInvAlways, PTL DEF Spec, OrdersReachTheirObjective
=============================================================================
