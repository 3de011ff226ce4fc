-------------------------- MODULE CommandConsumer --------------------------
(***************************************************************************)
(* CommandConsumerBase and GlobalWaypointControlServiceConsumer: one       *)
(* consumer, the commands it has under way, and a provider that keeps the  *)
(* promises of CommandLifecycle (CommandProvider is shown to keep them).   *)
(*                                                                         *)
(* A public method of the consumer is one step: it runs on the thread of   *)
(* the application, and a sample that arrives during the call is a sample  *)
(* that arrived before it or will arrive after it.  Commands take time to  *)
(* reach the provider.  A method is written as the set of its outcomes: a  *)
(* call record holds what it reads and changes, and ok its result.         *)
(***************************************************************************)
EXTENDS Naturals, SequencesExt, CommandStateMachine

CONSTANTS
    MaxSessions,    \* bound on the session ids generateGuid() hands out
    MaxSends,       \* bound on the commands sent
    KeyOnlyStatus,  \* the commandStatus a key-only (disposed) sample shows
    ConsumerFaults  \* the calls that may fail: "send", "dispose", "setup",
                    \* "teardown"

ASSUME ConsumerAssumption ==
    /\ MaxSessions \in Nat \ {0} /\ MaxSends \in Nat
    /\ KeyOnlyStatus \in Statuses
    /\ ConsumerFaults \subseteq {"send", "dispose", "setup", "teardown"}

NIL == 0                        \* NIL_GUID
Ids == 1 .. MaxSessions
Destinations == {"provider", "elsewhere"}

VARIABLES
    open,    \* isSessionOpen_
    alive,   \* isCommandAlive_
    header,  \* header_: the session id and the destination
    used,    \* session ids handed out so far
    sends,   \* commands sent so far
    gone,    \* is the consumer destroyed
    cmds,    \* command samples on their way to the provider, in order
    inst,    \* per session, the provider's command status instance
    unread,  \* the command status samples the consumer has not read, in order
    told     \* per session, the last status a read handed out

consumerVars == <<open, alive, header, used, sends, gone, told>>
vars == <<open, alive, header, used, sends, gone, cmds, inst, unread, told>>

Lifecycle == INSTANCE CommandLifecycle WITH
    Sessions <- Ids, CompletesEarly <- TRUE

-----------------------------------------------------------------------------
(* The methods of the consumer.                                            *)

\* A call as it begins.
Call == [open |-> open, alive |-> alive, id |-> header.id, to |-> header.to,
         used |-> used, sends |-> sends, cmds |-> cmds,
         unread |-> unread, told |-> told, ok |-> TRUE]

\* The results a call of this kind may have.
May(kind) == IF kind \in ConsumerFaults THEN BOOLEAN ELSE {TRUE}

\* A sample on the bus reaches the provider if it is addressed to it.
Written(x, kind) ==
    IF x.to = "provider" THEN Append(x.cmds, [kind |-> kind, id |-> x.id])
    ELSE x.cmds

\* Faulty variant of closeCommandSession(): the session is closed before its
\* command is disposed.
CloseFirst(x) ==
    IF ~x.open THEN {[x EXCEPT !.ok = FALSE]}
    ELSE {[x EXCEPT !.open = FALSE, !.ok = down /\ disposed,
                    !.cmds = IF down /\ disposed THEN Written(x, "dispose")
                             ELSE @] :
            down \in May("teardown"), disposed \in May("dispose")}

\* Faulty variant: disposeCommand() is left out.
CloseQuietly(x) ==
    {IF x.open THEN [x EXCEPT !.open = FALSE, !.ok = TRUE]
     ELSE [x EXCEPT !.ok = FALSE]}

\* closeCommandSession(): sessionTearDown(), disposeCommand(); the first that
\* fails leaves the session open.
CloseSession(x) ==
    IF ~x.open THEN {[x EXCEPT !.ok = FALSE]}
    ELSE {IF down /\ disposed
          THEN [x EXCEPT !.open = FALSE, !.ok = TRUE,
                         !.cmds = Written(x, "dispose")]
          ELSE [x EXCEPT !.ok = FALSE] :
            down \in May("teardown"), disposed \in May("dispose")}

\* Faulty variant of isValidStatus(): the session id is not compared.
FromProvider(x, sample) == x.to = "provider"

\* isValidStatus(): the source is the destination of the header, the session
\* is the header's.  (isValidAck() and isValidExeStatus() are the same, and
\* reading acks and execution statuses changes nothing else.)
IsValid(x, sample) == x.to = "provider" /\ sample.id = x.id

\* The indices of the samples of q that are for this call.
ValidIn(x, q) == {i \in DOMAIN q : IsValid(x, q[i])}
After(q, i) == SubSeq(q, i + 1, Len(q))

\* Faulty variant: the command stays alive.
EndedStillAlive(x) ==
    LET y == [x EXCEPT !.ok = TRUE]
    IN  IF y.open THEN CloseSession(y) ELSE {y}

\* The command has ended: forget it, and close its session if it is open.
\* ok is whether read() can return the status (and not ERROR).
Ended(x) ==
    LET y == [x EXCEPT !.alive = FALSE, !.ok = TRUE]
    IN  IF y.open THEN CloseSession(y) ELSE {y}

\* read(CmdStatus): takes samples up to the first that is valid.
ReadStatus(x) ==
    LET q == x.unread
        valid == ValidIn(x, q)
        n == IF valid = {} THEN Len(q) ELSE Min(valid)
        taken == [x EXCEPT !.unread = After(q, n), !.ok = valid # {}]
        heard == IF valid = {} THEN taken
                 ELSE [taken EXCEPT !.told[x.id] = q[n].st]
    IN  IF ~x.alive THEN {[x EXCEPT !.ok = FALSE]}
        ELSE IF valid # {} /\ IsStateFinal(q[n].st) THEN Ended(heard)
        ELSE {heard}

\* hasCommandTerminated(): read(CmdStatus) until the command is not alive, or
\* a read fails or finds nothing.  A status that ends the command while the
\* session cannot be closed makes it return false.
HasCommandTerminated(x) ==
    LET q == x.unread
        valid == ValidIn(x, q)
        final == {i \in valid : IsStateFinal(q[i].st)}
        n == IF final = {} THEN Len(q) ELSE Min(final)
        heard == valid \cap 1 .. n
        taken == [x EXCEPT !.unread = After(q, n),
                           !.told = IF heard = {} THEN @
                                    ELSE [@ EXCEPT ![x.id] = q[Max(heard)].st]]
    IN  IF ~x.alive THEN {[x EXCEPT !.ok = TRUE]}
        ELSE IF final = {} THEN {[taken EXCEPT !.ok = FALSE]}
        ELSE Ended(taken)

\* Faulty variant of openCommandSession(): it does not look whether the
\* command of the last session has ended.
OpenAtOnce(x) ==
    IF x.open THEN {[x EXCEPT !.ok = FALSE]}
    ELSE {[x EXCEPT !.id = x.used + 1, !.used = @ + 1, !.open = TRUE,
                    !.ok = TRUE]}

\* Faulty variant: the id is taken after the one that is recorded.
OpenMiscounted(x) ==
    {[y EXCEPT !.id = y.used + 2, !.used = @ + 1, !.open = TRUE] :
        y \in {z \in HasCommandTerminated(x) : z.ok /\ ~z.open}}

\* openCommandSession(): sessionSetUp() may fail once the id is NIL.
OpenSession(x) ==
    IF x.open THEN {[x EXCEPT !.ok = FALSE]}
    ELSE UNION {
        IF ~y.ok THEN {y}
        ELSE {IF up THEN [y EXCEPT !.id = y.used + 1, !.used = @ + 1,
                                   !.open = TRUE]
              ELSE [y EXCEPT !.id = NIL, !.ok = FALSE] : up \in May("setup")} :
        y \in HasCommandTerminated(x)}

\* send(): whether the open session's command has ended is only logged, but
\* finding out closes the session, and then another is opened ...
ReadyToSend(x) ==
    UNION {IF y.open THEN {[y EXCEPT !.ok = TRUE]} ELSE OpenSession(y) :
           y \in IF x.open THEN HasCommandTerminated(x) ELSE {x}}

\* ... and the command is written, and alive.
Sent(x) ==
    [x EXCEPT !.alive = TRUE, !.cmds = Written(x, "write"), !.sends = @ + 1]
SendCommand(x) ==
    {IF z.ok /\ sent THEN Sent(z) ELSE [z EXCEPT !.ok = FALSE] :
        z \in ReadyToSend(x), sent \in May("send")}

\* The destructor of the derived class closes an open session, and that of
\* the base class tries again, by then without the derived sessionTearDown().
Destroyed(x) ==
    LET derived == IF x.open THEN CloseSession(x) ELSE {x}
    IN  UNION {IF y.open THEN {y} \cup {z \in CloseSession(y) : z.ok} ELSE {y} :
               y \in derived}

-----------------------------------------------------------------------------
(* The application calls them, one at a time.                              *)

\* The call leaves its changes behind.
Return(y) ==
    /\ y.used <= MaxSessions /\ y.sends <= MaxSends
    /\ open' = y.open /\ alive' = y.alive
    /\ header' = [id |-> y.id, to |-> y.to]
    /\ used' = y.used /\ sends' = y.sends
    /\ cmds' = y.cmds /\ told' = y.told
    /\ unread' = y.unread
    /\ UNCHANGED inst

Calls(Outcomes(_)) ==
    /\ ~gone
    /\ \E y \in Outcomes(Call) : Return(y)
    /\ UNCHANGED gone

Send == Calls(SendCommand)
Open == Calls(OpenSession)
Close == Calls(CloseSession)
HasTerminated == Calls(HasCommandTerminated)
Read == alive /\ unread # <<>> /\ Calls(ReadStatus)

\* setCmdHeader() and setCmdDestination() look whether a session is open, not
\* whether a command is alive.
SetHeader(h) ==
    /\ ~gone /\ ~open
    /\ header' = h
    /\ UNCHANGED <<open, alive, used, sends, gone, cmds, inst, unread, told>>

SetCmdHeader(to) == SetHeader([id |-> NIL, to |-> to])
SetCmdDestination(to) == SetHeader([header EXCEPT !.to = to])

Destroy ==
    /\ ~gone /\ gone' = TRUE
    /\ \E y \in Destroyed(Call) : Return(y)

-----------------------------------------------------------------------------
(* The provider (external to the consumer).                                *)

Status(id, st) == [id |-> id, st |-> st]

\* The provider's status instance of s becomes st, and is then disposed or
\* not; its samples reach the consumer's reader.
Publish(s, sts, why, ends) ==
    /\ inst' = [inst EXCEPT ![s] = [st |-> Last(sts), why |-> why,
                                    alive |-> ~ends]]
    /\ LET shown == [i \in DOMAIN sts |-> Status(s, sts[i])]
           notice == IF ends THEN <<Status(s, KeyOnlyStatus)>> ELSE <<>>
       IN  unread' = unread \o shown \o notice

\* A command of a session without a live status starts it; it may be refused
\* at once.  Nothing remembers the sessions that are over.
Start(s) ==
    /\ cmds # <<>> /\ Head(cmds) = [kind |-> "write", id |-> s]
    /\ ~inst[s].alive
    /\ cmds' = Tail(cmds)
    /\ \/ Publish(s, <<"ISSUED">>, "SUCCEEDED", FALSE)
       \/ Publish(s, <<"ISSUED", "FAILED">>, "SERVICE_FAILED", TRUE)
    /\ UNCHANGED consumerVars

Update(s) ==
    /\ cmds # <<>> /\ Head(cmds) = [kind |-> "write", id |-> s]
    /\ inst[s].alive
    /\ cmds' = Tail(cmds)
    /\ Publish(s, <<"ISSUED">>, "UPDATED", FALSE)
    /\ UNCHANGED consumerVars

Cancel(s) ==
    /\ cmds # <<>> /\ Head(cmds) = [kind |-> "dispose", id |-> s]
    /\ cmds' = Tail(cmds)
    /\ IF inst[s].alive THEN Publish(s, <<"CANCELED">>, "CANCELED", TRUE)
       ELSE UNCHANGED <<inst, unread>>
    /\ UNCHANGED consumerVars

\* On through the transitions of CommandLifecycle; a terminal status is
\* followed by the dispose of the instance.
Advance(s) ==
    /\ inst[s].alive
    /\ \E t \in {<<"COMMANDED", "SUCCEEDED">>, <<"EXECUTING", "SUCCEEDED">>,
                 <<"COMPLETED", "SUCCEEDED">>, <<"FAILED", "TIMEOUT">>} :
        /\ <<inst[s].st, t[1], t[2]>> \in Lifecycle!ValidTransitions
        /\ Publish(s, <<t[1]>>, t[2], t[1] \in Lifecycle!Terminal)
    /\ UNCHANGED <<consumerVars, cmds>>

-----------------------------------------------------------------------------
Init ==
    /\ open = FALSE /\ alive = FALSE
    /\ header = [id |-> NIL, to |-> "provider"]
    /\ used = 0 /\ sends = 0 /\ gone = FALSE
    /\ cmds = <<>>
    /\ Lifecycle!Init
    /\ unread = <<>>
    /\ told = [s \in Ids |-> "NONE"]

Consumer ==
    \/ Send \/ Open \/ Close \/ HasTerminated \/ Read \/ Destroy
    \/ \E to \in Destinations : SetCmdHeader(to) \/ SetCmdDestination(to)

TakeCommand == \E s \in Ids : Start(s) \/ Update(s) \/ Cancel(s)

Next == Consumer \/ TakeCommand \/ \E s \in Ids : Advance(s)

\* The application polls its status, and the provider takes its commands; it
\* need not bring one to an end that is not canceled.
Spec == Init /\ [][Next]_vars /\ WF_vars(Read) /\ WF_vars(TakeCommand)

-----------------------------------------------------------------------------
(* Properties.                                                             *)

TypeOK ==
    /\ open \in BOOLEAN /\ alive \in BOOLEAN /\ gone \in BOOLEAN
    /\ header \in [id : Ids \cup {NIL}, to : Destinations]
    /\ used \in 0 .. MaxSessions /\ sends \in 0 .. MaxSends
    /\ cmds \in Seq([kind : {"write", "dispose"}, id : Ids])
    /\ unread \in Seq([id : Ids, st : Statuses])
    /\ told \in [Ids -> Statuses \cup {"NONE"}]

\* The samples of s among the commands under way, and whether the provider
\* runs a command of s, or will once it has read them.
Coming(s) == {i \in DOMAIN cmds : cmds[i].id = s}
WillRun(s) ==
    \/ inst[s].alive /\ Coming(s) = {}
    \/ \E i \in Coming(s) : /\ cmds[i].kind = "write"
                            /\ \A j \in Coming(s) : j <= i

Current(s) == open /\ header.id = s

\* A consumer leaves no command running: whatever fails, whether an update
\* crosses the end of its command, and when the consumer is destroyed, a
\* command the provider runs or will run belongs to the session that is open,
\* or its dispose is under way.
NothingLeftBehind == \A s \in Ids : WillRun(s) => Current(s)

\* The consumer's header and the provider's instances belong together.
ConsumerInv == TypeOK /\ NothingLeftBehind

\* What a consumer heard of the end of a session is true: the session has
\* ended at the provider, unless an update that crossed the end started it
\* again; then its dispose is under way, or closing it failed and it is open.
EndIsReal ==
    \A s \in Ids : told[s] \in Lifecycle!Terminal =>
        \/ inst[s].st \in Lifecycle!Terminal
        \/ inst[s].alive /\ (Current(s) \/ Coming(s) # {})

\* A consumer that has closed the session of a command that has not ended yet,
\* and that reads its status, learns that it has ended and can then open
\* another session, unless its header was changed meanwhile.
Canceling(s) ==
    /\ alive /\ ~open /\ used = s
    /\ Coming(s) # {}
    /\ inst[s].alive \/ cmds[Min(Coming(s))].kind = "write"

EndIsNoticed ==
    \A s \in Ids :
        Canceling(s) ~>
            ~alive \/ gone \/ header # [id |-> s, to |-> "provider"]

\* A session that was left ends at the provider, too, and for good, even if
\* the provider would never have ended it and an update restarts it.
LeftIsEnded ==
    \A s \in Ids : used >= s /\ ~Current(s) ~> []~inst[s].alive

\* A consumer has one command at a time: the provider never runs two of its
\* sessions, although the next is opened before the dispose of the last is
\* read, and an update that came too late may have restarted that.
OneLiveCommand == \A s, t \in Ids : inst[s].alive /\ inst[t].alive => s = t
=============================================================================
