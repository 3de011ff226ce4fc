-------------------------- MODULE CommandProvider --------------------------
(***************************************************************************)
(* CommandProviderBase and CommandProviderSession: one UMAA command        *)
(* service provider, its consumers, and the DDS instances it writes.       *)
(*                                                                         *)
(* cycle() is one thread.  It is cut at its handlers: every handler the    *)
(* code calls (handleUpdate, handleIssued, handleCancel, ...) is one step, *)
(* so that consumers can write to the bus between any two of them.  pc     *)
(* says where in cycle() the provider is:                                  *)
(*   idle     between two calls of cycle()                                 *)
(*   read     after onCycle(), about to read one command sample            *)
(*   reissue  in handleUpdate(), about to call handleIssued()              *)
(*   preempt  in the loop that cancels or completes the active commands    *)
(*   sessions in the loop that cycles every active session                 *)
(*   abort    in the loop that fails every active session                  *)
(* Code a deployment overrides (the on...() and is...() hooks) and the     *)
(* results of DDS calls are nondeterministic.                              *)
(***************************************************************************)
EXTENDS Naturals, SequencesExt, CommandStateMachine

CONSTANTS
    Sessions,      \* session ids (GUIDs)
    None,          \* no session
    Behaviors,     \* the IncomingCommandBehavior values the service uses
    Switching,     \* whether setBehavior() is called between cycles
    Updating,      \* sessions whose consumer may send its command again
    CheckReasons,  \* what isCommandFailed() may return besides SUCCEEDED
    HasExeStatus,  \* whether sendExecutionStatus() is overridden
    Faults,        \* the calls that may fail: "cycle", "read", "hook", "send"
    MaxBacklog     \* bound on the command samples unread or queued

AllBehaviors == {"QUEUE_INCOMING", "ACCEPT_CONCURRENT", "CANCEL_EXISTING",
                 "COMPLETE_EXISTING", "REJECT_INCOMING"}

ASSUME ProviderAssumption ==
    /\ None \notin Sessions
    /\ Behaviors \subseteq AllBehaviors /\ Behaviors # {}
    /\ Switching \in BOOLEAN
    /\ Updating \subseteq Sessions
    /\ CheckReasons \subseteq FailureReasons
    /\ HasExeStatus \in BOOLEAN
    /\ Faults \subseteq {"cycle", "read", "hook", "send"}
    /\ MaxBacklog \in Nat \ {0}

VARIABLES
    client,    \* per session: has its consumer written, or disposed, it
    inbox,     \* command samples on their way to the reader, in order
    behavior,  \* behavior_
    active,    \* activeCommands_: per session its state, NoSession if none
    queue,     \* commandQueue_: sessions in it are all freshly constructed
    bus,       \* per session, the provider's status, ack and exe instances
    pc, cur,   \* where cycle() is, and the session it is handling
    todo,      \* sessions the current loop over activeCommands_ has left
    finals,    \* finalStateSessions
    result     \* what cycle() returned, or will unless something else fails

clientVars == <<client, inbox>>
loopVars   == <<cur, todo, finals>>
vars == <<client, inbox, behavior, active, queue, bus, pc, cur, todo, finals,
          result>>

NoSession == [st |-> "NONE", why |-> "NONE"]
NeverWritten ==
    [st |-> "NONE", why |-> "NONE", alive |-> FALSE, ack |-> FALSE,
     exe |-> FALSE]

Instances ==
    [st : Statuses \cup {"NONE"}, why : Reasons \cup {"NONE"},
     alive : BOOLEAN, ack : BOOLEAN, exe : BOOLEAN]

Sample == [kind : {"write", "dispose"}, id : Sessions]

IsActive(act, s) == act[s].st # "NONE"
Ids(act) == {s \in Sessions : IsActive(act, s)}
Queued == ToSet(queue)
Nobody == [s \in Sessions |-> NoSession]

-----------------------------------------------------------------------------
(* What a handler may do to the session it is given: the state it leaves   *)
(* it in, whether it returns true, and whether the command status and the  *)
(* execution status were sent.                                             *)

\* The results a call of this kind may have.
May(kind) == IF kind \in Faults THEN BOOLEAN ELSE {TRUE}

Outcome == [to : CommandState, ok : BOOLEAN, sent : BOOLEAN, exe : BOOLEAN]

Quiet(c, ok) == [to |-> c, ok |-> ok, sent |-> FALSE, exe |-> FALSE]

\* sendStatus() after a change of state; an ERROR makes the handler fail.
Announce(c) ==
    {[to |-> c, ok |-> p, sent |-> p, exe |-> FALSE] : p \in May("send")}

\* sendExecutionStatus(): NOT_IMPLEMENTED unless overridden.
SendExecutionStatus(c) ==
    IF HasExeStatus
    THEN {[to |-> c, ok |-> x, sent |-> FALSE, exe |-> x] : x \in May("send")}
    ELSE {Quiet(c, TRUE)}

\* The common end of the terminal handlers: onCompleted(), onCanceled() or
\* onFailed(), then sendStatus(), then sendExecutionStatus(); the first that
\* fails ends the handler, and the state has changed already.
Conclude(c) ==
    {[to   |-> c,
      ok   |-> hook /\ status /\ (HasExeStatus => exe),
      sent |-> hook /\ status,
      exe  |-> hook /\ status /\ HasExeStatus /\ exe] :
        hook \in May("hook"), status \in May("send"), exe \in May("send")}

\* Faulty variants of handleCancel(): without its check for a final state,
\* and without its sendStatus().
CancelRepeated(c) == Conclude(Canceled)
CancelSilently(c) ==
    IF IsStateFinal(c.st) THEN {Quiet(c, TRUE)} ELSE {Quiet(Canceled, TRUE)}

HandleCancel(c) ==
    IF IsStateFinal(c.st) THEN {Quiet(c, TRUE)} ELSE Conclude(Canceled)

HandleFailure(c, reason) ==
    IF CanFail(c, reason) THEN Conclude(Failed(reason)) ELSE {Quiet(c, FALSE)}

HandleCompleted(c) == Conclude(Advanced(c))

\* Faulty variant of handleUpdate(): without its sendStatus().
UpdateSilently(c) ==
    IF IsStateFinal(c.st) THEN {Quiet(c, FALSE)}
    ELSE {Quiet(Updated, hook) : hook \in May("hook")}

\* handleUpdate() up to its call of handleIssued(): update(), onUpdated(),
\* sendStatus().
HandleUpdate(c) ==
    IF IsStateFinal(c.st) THEN {Quiet(c, FALSE)}
    ELSE {[to |-> Updated, ok |-> hook /\ status, sent |-> hook /\ status,
           exe |-> FALSE] : hook \in May("hook"), status \in May("send")}

\* isCommandValid() false, onIssued() ERROR, OK or ADVANCE.
HandleIssued(c) ==
    HandleFailure(c, "VALIDATION_FAILED") \cup
    HandleFailure(c, "SERVICE_FAILED") \cup
    {Quiet(c, TRUE)} \cup Announce(Advanced(c))

\* onCommanded() ERROR, OK or ADVANCE.
HandleCommanded(c) ==
    HandleFailure(c, "SERVICE_FAILED") \cup
    {Quiet(c, TRUE)} \cup Announce(Advanced(c))

\* onExecuting() ERROR, isCommandFailed(), onExecuting() ADVANCE or
\* isCommandCompleted(), or none of them.
HandleExecuting(c) ==
    HandleFailure(c, "SERVICE_FAILED") \cup
    (UNION {HandleFailure(c, reason) : reason \in CheckReasons}) \cup
    HandleCompleted(c) \cup
    SendExecutionStatus(c)

\* The switch of cycleSession().
HandleState(c) ==
    CASE c.st = "ISSUED"    -> HandleIssued(c)
      [] c.st = "COMMANDED" -> HandleCommanded(c)
      [] c.st = "EXECUTING" -> HandleExecuting(c)
      [] OTHER              -> {Quiet(c, TRUE)}

-----------------------------------------------------------------------------
(* The status, ack and execution status instances of a session.            *)

\* The instances of session s after a handler had outcome o.
Show(b, s, o) ==
    [b EXCEPT ![s] =
        [st    |-> IF o.sent THEN o.to.st  ELSE @.st,
         why   |-> IF o.sent THEN o.to.why ELSE @.why,
         alive |-> @.alive \/ o.sent,
         ack   |-> @.ack,
         exe   |-> @.exe \/ o.exe]]

\* Faulty variant of ~CommandProviderSession(): disposeAck() is left out.
DisposeKeepsAck(b, D) ==
    [s \in Sessions |->
        IF s \in D THEN [b[s] EXCEPT !.alive = FALSE, !.exe = FALSE] ELSE b[s]]

\* ~CommandProviderSession() of the sessions in D.
Dispose(b, D) ==
    [s \in Sessions |->
        IF s \in D
        THEN [b[s] EXCEPT !.alive = FALSE, !.ack = FALSE, !.exe = FALSE]
        ELSE b[s]]

\* Faulty variant of the greeting of a new session: sendAck() is left out.
GreetWithoutAck(b, s, status, ack) ==
    Show(b, s, [to |-> Fresh, ok |-> TRUE, sent |-> status, exe |-> FALSE])

\* A new session sends its first status and its ack.
Greet(b, s, status, ack) ==
    [Show(b, s, [to |-> Fresh, ok |-> TRUE, sent |-> status, exe |-> FALSE])
        EXCEPT ![s].ack = @ \/ ack]

-----------------------------------------------------------------------------
(* Consumers.  A consumer takes a new GUID for every session it opens, so  *)
(* it writes one session, possibly again, and then disposes it.            *)

Send(s) ==
    /\ client[s] = "unused" \/ (client[s] = "open" /\ s \in Updating)
    /\ Len(inbox) + Len(queue) < MaxBacklog
    /\ client' = [client EXCEPT ![s] = "open"]
    /\ inbox' = Append(inbox, [kind |-> "write", id |-> s])
    /\ UNCHANGED <<behavior, active, queue, bus, pc, loopVars, result>>

Close(s) ==
    /\ client[s] = "open"
    /\ Len(inbox) + Len(queue) < MaxBacklog
    /\ client' = [client EXCEPT ![s] = "closed"]
    /\ inbox' = Append(inbox, [kind |-> "dispose", id |-> s])
    /\ UNCHANGED <<behavior, active, queue, bus, pc, loopVars, result>>

-----------------------------------------------------------------------------
(* cycle(): its two exits from handling an incoming command.               *)

\* Go on to cycle the sessions in act; with none there is nothing to do.
Proceed(act) ==
    /\ pc' = IF Ids(act) = {} THEN "idle" ELSE "sessions"
    /\ todo' = Ids(act)
    /\ cur' = None
    /\ UNCHANGED result

\* Go on to fail the sessions in act, and return false.
GiveUp(act) ==
    /\ pc' = "abort"
    /\ todo' = Ids(act)
    /\ cur' = None
    /\ result' = FALSE

SetBehavior(b) ==
    /\ Switching /\ pc = "idle" /\ b # behavior
    /\ behavior' = b
    /\ UNCHANGED <<clientVars, active, queue, bus, pc, loopVars, result>>

\* A false from onCycle() is ignored when nothing is active.
OnCycle ==
    /\ pc = "idle"
    /\ \/ /\ pc' = "read"
          /\ result' = TRUE
          /\ UNCHANGED <<cur, todo>>
       \/ /\ FALSE \in May("cycle") /\ Ids(active) # {}
          /\ GiveUp(active)
    /\ UNCHANGED <<clientVars, behavior, active, queue, bus, finals>>

\* handleFailure(SERVICE_FAILED) of one session; its result is not used.
AbortOne(s) ==
    /\ pc = "abort" /\ s \in todo
    /\ \E o \in HandleFailure(active[s], "SERVICE_FAILED") :
        /\ active' = [active EXCEPT ![s] = o.to]
        /\ bus' = Show(bus, s, o)
    /\ todo' = todo \ {s}
    /\ UNCHANGED <<clientVars, behavior, queue, pc, cur, finals, result>>

\* activeCommands_.clear(); return false
AbortDone ==
    /\ pc = "abort" /\ todo = {}
    /\ active' = Nobody
    /\ bus' = Dispose(bus, Ids(active))
    /\ pc' = "idle"
    /\ UNCHANGED <<clientVars, behavior, queue, loopVars, result>>

-----------------------------------------------------------------------------
(* handleIncomingCommand() reads at most one sample per cycle.             *)

ReadError ==
    /\ pc = "read" /\ FALSE \in May("read")
    /\ GiveUp(active)
    /\ UNCHANGED <<clientVars, behavior, active, queue, bus, finals>>

ReadNothing ==
    /\ pc = "read" /\ inbox = <<>>
    /\ Proceed(active)
    /\ UNCHANGED <<clientVars, behavior, active, queue, bus, finals>>

Take(kind, s) ==
    /\ pc = "read" /\ inbox # <<>>
    /\ Head(inbox) = [kind |-> kind, id |-> s]
    /\ inbox' = Tail(inbox)
    /\ UNCHANGED <<client, behavior, finals>>

\* A dispose of an active session.  The front of the queue is put into the
\* map first, whatever the behaviour, and replaces (destroys) a session that
\* is there under the same id.
CancelActive(s) ==
    /\ Take("dispose", s)
    /\ IsActive(active, s)
    /\ \E o \in HandleCancel(active[s]) :
        LET promoted == IF queue = <<>> THEN {} ELSE {Head(queue)}
            replaced == promoted \cap Ids(active)
            dropped  == replaced \cup (IF o.ok THEN {s} ELSE {})
            left     == [t \in Sessions |->
                            IF o.ok /\ t = s THEN NoSession
                            ELSE IF t \in promoted THEN Fresh
                            ELSE IF t = s THEN o.to ELSE active[t]]
        IN  /\ active' = left
            /\ queue' = IF queue = <<>> THEN queue ELSE Tail(queue)
            /\ bus' = Dispose(Show(bus, s, o), dropped)
            /\ IF o.ok THEN Proceed(left) ELSE GiveUp(left)

\* A dispose of a queued session cancels the first entry with its id.
CancelQueued(s) ==
    /\ Take("dispose", s)
    /\ ~IsActive(active, s) /\ s \in Queued
    /\ queue' = RemoveFirst(queue, s)
    /\ \E o \in HandleCancel(Fresh) :
        /\ bus' = Dispose(Show(bus, s, o), {s})
        /\ IF o.ok THEN Proceed(active) ELSE GiveUp(active)
    /\ UNCHANGED active

CancelUnknown(s) ==
    /\ Take("dispose", s)
    /\ ~IsActive(active, s) /\ s \notin Queued
    /\ Proceed(active)
    /\ UNCHANGED <<active, queue, bus>>

Update(s) ==
    /\ Take("write", s)
    /\ IsActive(active, s)
    /\ \E o \in HandleUpdate(active[s]) :
        /\ active' = [active EXCEPT ![s] = o.to]
        /\ bus' = Show(bus, s, o)
        /\ IF o.ok THEN /\ pc' = "reissue" /\ cur' = s
                        /\ UNCHANGED <<todo, result>>
           ELSE GiveUp(active')
    /\ UNCHANGED queue

Reissue(s) ==
    /\ pc = "reissue" /\ cur = s
    /\ \E o \in HandleIssued(active[s]) :
        /\ active' = [active EXCEPT ![s] = o.to]
        /\ bus' = Show(bus, s, o)
        /\ IF o.ok THEN Proceed(active') ELSE GiveUp(active')
    /\ UNCHANGED <<clientVars, behavior, queue, finals>>

\* emplace() of a new session next to those in act, its status and its ack.
Add(b, act, s) ==
    \E status \in May("send"), ack \in May("send") :
        /\ active' = [act EXCEPT ![s] = Fresh]
        /\ bus' = Greet(b, s, status, status /\ ack)
        /\ IF status /\ ack THEN Proceed(active') ELSE GiveUp(active')

New(s) == Take("write", s) /\ ~IsActive(active, s)

\* Faulty variant of !activeCommands_.empty(): size() > 1.
BusyWithTwo == \E s, t \in Ids(active) : s # t

Busy == Ids(active) # {}

Accept(s) ==
    /\ New(s)
    /\ ~Busy \/ behavior = "ACCEPT_CONCURRENT"
    /\ Add(bus, active, s)
    /\ UNCHANGED queue

\* Status ISSUED, ack, status FAILED, dispose; send errors are ignored.
Reject(s) ==
    /\ New(s) /\ Busy /\ behavior = "REJECT_INCOMING"
    /\ \E status, ack, failed \in May("send") :
        LET greeted == Greet(bus, s, status, ack)
            refused == [to |-> Failed("SERVICE_FAILED"), ok |-> TRUE,
                        sent |-> failed, exe |-> FALSE]
        IN  bus' = Dispose(Show(greeted, s, refused), {s})
    /\ Proceed(active)
    /\ UNCHANGED <<active, queue>>

\* Nothing looks for an entry of the same session that is queued already.
Enqueue(s) ==
    /\ New(s) /\ Busy /\ behavior = "QUEUE_INCOMING"
    /\ \E status, ack \in May("send") : bus' = Greet(bus, s, status, ack)
    /\ queue' = Append(queue, s)
    /\ Proceed(active)
    /\ UNCHANGED active

Preempt(s) ==
    /\ New(s) /\ Busy
    /\ behavior \in {"CANCEL_EXISTING", "COMPLETE_EXISTING"}
    /\ pc' = "preempt" /\ cur' = s /\ todo' = Ids(active)
    /\ UNCHANGED <<active, queue, bus, result>>

\* Faulty variant of COMPLETE_EXISTING: nothing is published.
CompleteSilently == {Quiet([st |-> "COMPLETED", why |-> "SUCCEEDED"], TRUE)}

\* COMPLETE_EXISTING only publishes COMPLETED: the session's own state
\* machine and onCompleted() are not involved.
CompleteExisting == Announce([st |-> "COMPLETED", why |-> "SUCCEEDED"])

PreemptOne(t) ==
    /\ pc = "preempt" /\ t \in todo
    /\ \E o \in IF behavior = "CANCEL_EXISTING" THEN HandleCancel(active[t])
                ELSE CompleteExisting :
        \/ /\ o.ok
           /\ active' = IF behavior = "CANCEL_EXISTING"
                        THEN [active EXCEPT ![t] = o.to] ELSE active
           /\ bus' = Show(bus, t, o)
           /\ todo' = todo \ {t}
           /\ UNCHANGED <<pc, cur, result>>
        \/ /\ ~o.ok   \* all_of() stops; the map is cleared; return false
           /\ active' = Nobody
           /\ bus' = Dispose(Show(bus, t, o), Ids(active))
           /\ GiveUp(Nobody)
    /\ UNCHANGED <<clientVars, behavior, queue, finals>>

PreemptDone ==
    /\ pc = "preempt" /\ todo = {}
    /\ Add(Dispose(bus, Ids(active)), Nobody, cur)
    /\ UNCHANGED <<clientVars, behavior, queue, finals>>

-----------------------------------------------------------------------------
(* The rest of cycle(): every active session is handled until its status   *)
(* no longer changes.  Map order is the order of random GUIDs: any order.  *)

\* Faulty variant of the loop of cycle(): one handler per session and cycle.
AgainNever(c, o) == FALSE

\* Whether cycle() handles the session again in the same cycle.
Again(c, o) == o.ok /\ o.to.st # c.st

CycleSession(s) ==
    /\ pc = "sessions"
    /\ cur = s \/ (cur = None /\ s \in todo)
    /\ \E o \in HandleState(active[s]) :
        /\ active' = [active EXCEPT ![s] = o.to]
        /\ bus' = Show(bus, s, o)
        /\ cur' = IF Again(active[s], o) THEN s ELSE None
        /\ todo' = IF o.ok THEN todo \ {s} ELSE {}
        /\ result' = (result /\ o.ok)
    /\ finals' = finals \cup {t \in {s} : IsStateFinal(active[t].st)}
    /\ UNCHANGED <<clientVars, behavior, queue, pc>>

\* Faulty variant of the promotion: it looks before the final sessions are
\* erased.
PromotesBeforeErasing(left) ==
    behavior = "QUEUE_INCOMING" /\ Ids(active) = {} /\ queue # <<>>

\* Whether a queued command is started at the end of a cycle.
Promotes(left) ==
    behavior = "QUEUE_INCOMING" /\ Ids(left) = {} /\ queue # <<>>

\* Erase the sessions found final, then promote from the queue.
EndCycle ==
    /\ pc = "sessions" /\ cur = None /\ todo = {}
    /\ LET left == [s \in Sessions |-> IF s \in finals THEN NoSession
                                       ELSE active[s]]
       IN  \/ /\ Promotes(left)
              /\ active' = [left EXCEPT ![Head(queue)] = Fresh]
              /\ queue' = Tail(queue)
           \/ /\ ~Promotes(left)
              /\ active' = left
              /\ UNCHANGED queue
    /\ bus' = Dispose(bus, finals)
    /\ finals' = {}
    /\ pc' = "idle"
    /\ UNCHANGED <<clientVars, behavior, cur, todo, result>>

-----------------------------------------------------------------------------
Init ==
    /\ client = [s \in Sessions |-> "unused"]
    /\ inbox = <<>>
    /\ behavior \in Behaviors
    /\ active = Nobody
    /\ queue = <<>>
    /\ bus = [s \in Sessions |-> NeverWritten]
    /\ pc = "idle" /\ cur = None /\ todo = {} /\ finals = {}
    /\ result = TRUE

\* Faulty variant of handleIncomingCommand(): a dispose is looked up in
\* activeCommands_ only, not in the queue.
IncomingActiveOnly(s) ==
    \/ CancelActive(s)
    \/ /\ Take("dispose", s) /\ ~IsActive(active, s)
       /\ Proceed(active)
       /\ UNCHANGED <<active, queue, bus>>
    \/ Update(s) \/ Accept(s) \/ Reject(s) \/ Enqueue(s) \/ Preempt(s)

Incoming(s) ==
    \/ CancelActive(s) \/ CancelQueued(s) \/ CancelUnknown(s)
    \/ Update(s) \/ Accept(s) \/ Reject(s) \/ Enqueue(s) \/ Preempt(s)

\* The steps of a call of cycle().
Cycle ==
    \/ OnCycle \/ ReadError \/ ReadNothing
    \/ \E s \in Sessions : Incoming(s)
    \/ \E s \in Sessions : Reissue(s)
    \/ \E s \in Sessions : PreemptOne(s)
    \/ PreemptDone
    \/ \E s \in Sessions : CycleSession(s)
    \/ EndCycle
    \/ \E s \in Sessions : AbortOne(s)
    \/ AbortDone

Next ==
    \/ Cycle
    \/ \E b \in Behaviors : SetBehavior(b)
    \/ \E s \in Sessions : Send(s) \/ Close(s)

Spec == Init /\ [][Next]_vars

\* cycle() is called again and again and always returns.
FairSpec == Spec /\ WF_vars(Cycle)

\* Besides, the hooks of a service do not keep a session in one state for
\* ever: isCommandCompleted(), say, is true sooner or later.
Progress(s) == CycleSession(s) /\ active'[s].st # active[s].st
ProgressSpec == FairSpec /\ \A s \in Sessions : SF_vars(Progress(s))

-----------------------------------------------------------------------------
(* Properties.                                                             *)

TypeOK ==
    /\ client \in [Sessions -> {"unused", "open", "closed"}]
    /\ inbox \in Seq(Sample)
    /\ behavior \in Behaviors
    /\ active \in [Sessions -> CommandState \cup {NoSession}]
    /\ queue \in Seq(Sessions)
    /\ bus \in [Sessions -> Instances]
    /\ pc \in {"idle", "read", "reissue", "preempt", "sessions", "abort"}
    /\ cur \in Sessions \cup {None}
    /\ todo \subseteq Sessions
    /\ finals \subseteq Sessions
    /\ result \in BOOLEAN

Held == Ids(active) \cup Queued

\* Unless ACCEPT_CONCURRENT is in use the provider never cycles two active
\* commands, whatever fails, although a cancellation puts the front of the
\* queue into the map before the canceled session is taken out.  (When the
\* cancellation fails both are there, until all are failed and cleared.)
OneAtATime ==
    "ACCEPT_CONCURRENT" \notin Behaviors /\ pc # "abort" =>
        \A s, t \in Ids(active) : s = t

\* Whatever fails, an instance that is alive on the bus belongs to a session
\* the provider still holds: every path that forgets a session disposes its
\* status, ack and execution status.
InstancesHeld ==
    \A s \in Sessions :
        bus[s].alive \/ bus[s].ack \/ bus[s].exe => s \in Held

\* While nothing fails, the status instance and the ack of every session the
\* provider holds are alive and show its present state, for queued sessions
\* too.  (In the preempt loop of COMPLETE_EXISTING they run ahead of it.)
StatusIsCurrent ==
    pc # "preempt" =>
        \A s \in Held :
            /\ bus[s].alive /\ bus[s].ack
            /\ [st |-> bus[s].st, why |-> bus[s].why] =
                   IF IsActive(active, s) THEN active[s] ELSE Fresh

\* Between cycles commands wait in the queue only behind an active command;
\* cycle() returns before it looks at the queue when nothing is active.
NoStranding == pc = "idle" /\ queue # <<>> => Busy

\* A command becomes active in its turn: no command overtakes a queued one.
NoQueueJump ==
    [][\A s \in Sessions :
        ~IsActive(active, s) /\ IsActive(active', s) =>
            queue = <<>> \/ s = Head(queue)]_vars

\* Once the provider has read all a consumer wrote, a session the consumer
\* has disposed is neither active nor queued, whatever failed on the way.
ClosedSessionsDropped ==
    pc = "idle" =>
        \A s \in Held :
            client[s] = "closed" => \E i \in 1 .. Len(inbox) : inbox[i].id = s

\* A session in a final state stays in activeCommands_ between cycles only
\* when the cycle that left it there returned false.
FinalOnlyAfterFailure ==
    pc = "idle" /\ result => \A s \in Ids(active) : ~IsStateFinal(active[s].st)

\* A terminal status is the last one of its session: while the instance is
\* alive no other status replaces it, whatever fails.
TerminalIsFinal ==
    [][\A s \in Sessions :
        /\ bus[s].alive /\ IsStateFinal(bus[s].st)
        /\ bus'[s].alive
        => bus'[s].st = bus[s].st /\ bus'[s].why = bus[s].why]_vars

\* While nothing fails the status instances live the life CommandLifecycle
\* describes: valid transitions only, and a terminal status before disposal.
Lifecycle == INSTANCE CommandLifecycle WITH
    inst <- [s \in Sessions |-> [st    |-> bus[s].st, why |-> bus[s].why,
                                 alive |-> bus[s].alive]],
    CompletesEarly <- "COMPLETE_EXISTING" \in Behaviors

ImplementsLifecycle == Lifecycle!Spec

\* While nothing fails, every command written is answered by a terminal
\* status, whichever behaviour it met and however long it waited.
EveryCommandAnswered ==
    \A s \in Sessions : client[s] = "open" ~> bus[s].st \in Lifecycle!Terminal
=============================================================================
