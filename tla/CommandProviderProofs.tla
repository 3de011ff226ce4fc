----------------------- MODULE CommandProviderProofs -----------------------
(***************************************************************************)
(* Theorems about CommandProvider, for any number of sessions, any set of  *)
(* behaviours and any combination of failing calls: the invariant IInv,    *)
(* and the invariants each proved inductive relative to it; then what      *)
(* holds of patient consumers, who do not send a command again while it is *)
(* queued; then what holds while no call fails, and with it the refinement *)
(* of CommandLifecycle.                                                    *)
(***************************************************************************)
EXTENDS MCCommandProvider, SequenceTheorems, WellFoundedInduction, TLAPS

-----------------------------------------------------------------------------
(* Command states and the outcomes of the handlers.                        *)

\* The states CommandStateMachine's methods move a session to are states of
\* the machine; no state of the machine is "no session".
LEMMA MachineStates ==
    /\ Fresh \in CommandState
    /\ Updated \in CommandState
    /\ Canceled \in CommandState
    /\ \A r \in FailureReasons : Failed(r) \in CommandState
    /\ \A c \in CommandState :
        c.st \in NonFinal => Advanced(c) \in CommandState
    /\ \A c \in CommandState : c.st # "NONE"
BY DEF CommandState, Statuses, Reasons, FailureReasons, NonFinal, Fresh,
       Updated, Canceled, Failed, Advanced, Successor

LEMMA MayIsBoolean == \A kind : May(kind) \subseteq BOOLEAN
BY DEF May

LEMMA QuietOutcome ==
    ASSUME NEW c \in CommandState, NEW ok \in BOOLEAN
    PROVE  Quiet(c, ok) \in Outcome
BY DEF Quiet, Outcome

LEMMA AnnounceOutcome ==
    ASSUME NEW c \in CommandState
    PROVE  Announce(c) \subseteq Outcome
<1>1. \A p \in May("send") :
        [to |-> c, ok |-> p, sent |-> p, exe |-> FALSE] \in Outcome
  BY MayIsBoolean DEF Outcome
<1> QED BY <1>1 DEF Announce

LEMMA ConcludeOutcome ==
    ASSUME NEW c \in CommandState
    PROVE  Conclude(c) \subseteq Outcome
<1>1. \A hook \in May("hook"), status \in May("send"), exe \in May("send") :
        [to   |-> c,
         ok   |-> hook /\ status /\ (HasExeStatus => exe),
         sent |-> hook /\ status,
         exe  |-> hook /\ status /\ HasExeStatus /\ exe] \in Outcome
  BY DEF Outcome
<1> QED BY <1>1 DEF Conclude

LEMMA ExecutionStatusOutcome ==
    ASSUME NEW c \in CommandState
    PROVE  SendExecutionStatus(c) \subseteq Outcome
<1>1. \A x \in May("send") :
        [to |-> c, ok |-> x, sent |-> FALSE, exe |-> x] \in Outcome
  BY MayIsBoolean DEF Outcome
<1> QED BY <1>1, QuietOutcome DEF SendExecutionStatus

\* handleCancel() leaves a session in a state of the machine.
LEMMA CancelOutcome ==
    ASSUME NEW c \in CommandState
    PROVE  HandleCancel(c) \subseteq Outcome
BY ConcludeOutcome, QuietOutcome, MachineStates DEF HandleCancel

\* So does handleFailure(), whether or not fail() accepts the reason.
LEMMA FailureOutcome ==
    ASSUME NEW c \in CommandState, NEW r \in FailureReasons
    PROVE  HandleFailure(c, r) \subseteq Outcome
BY ConcludeOutcome, QuietOutcome, MachineStates DEF HandleFailure

LEMMA UpdateOutcome ==
    ASSUME NEW c \in CommandState
    PROVE  /\ HandleUpdate(c) \subseteq Outcome
           /\ \A o \in HandleUpdate(c) : o.ok => o.to = Updated
<1>1. \A hook \in May("hook"), status \in May("send") :
        [to |-> Updated, ok |-> hook /\ status, sent |-> hook /\ status,
         exe |-> FALSE] \in Outcome
  BY MachineStates DEF Outcome
<1>2. CASE IsStateFinal(c.st)
  <2>1. HandleUpdate(c) = {Quiet(c, FALSE)} /\ ~Quiet(c, FALSE).ok
    BY <1>2 DEF HandleUpdate, Quiet
  <2> QED BY <2>1, QuietOutcome
<1>3. CASE ~IsStateFinal(c.st)
  <2>1. \A o \in HandleUpdate(c) :
          \E hook \in May("hook"), status \in May("send") :
            o = [to |-> Updated, ok |-> hook /\ status,
                 sent |-> hook /\ status, exe |-> FALSE]
    BY <1>3 DEF HandleUpdate
  <2> QED BY <1>1, <2>1
<1> QED BY <1>2, <1>3

LEMMA IssuedOutcome ==
    ASSUME NEW c \in CommandState, c.st \in NonFinal
    PROVE  HandleIssued(c) \subseteq Outcome
BY FailureOutcome, QuietOutcome, AnnounceOutcome, MachineStates
   DEF HandleIssued, FailureReasons

\* So does the handler cycleSession() chooses by the state it finds.
LEMMA StateOutcome ==
    ASSUME NEW c \in CommandState
    PROVE  HandleState(c) \subseteq Outcome
<1>1. "SERVICE_FAILED" \in FailureReasons
  BY DEF FailureReasons
<1>2. CASE c.st = "ISSUED"
  BY <1>2, IssuedOutcome DEF HandleState, NonFinal
<1>3. CASE c.st = "COMMANDED"
  <2>1. HandleCommanded(c) \subseteq Outcome
    BY <1>1, <1>3, FailureOutcome, QuietOutcome, AnnounceOutcome,
       MachineStates DEF HandleCommanded, NonFinal
  <2> QED BY <1>3, <2>1 DEF HandleState
<1>4. CASE c.st = "EXECUTING"
  <2>1. HandleCompleted(c) \subseteq Outcome
    BY <1>4, ConcludeOutcome, MachineStates DEF HandleCompleted, NonFinal
  <2>2. UNION {HandleFailure(c, r) : r \in CheckReasons} \subseteq Outcome
    BY FailureOutcome, ProviderAssumption DEF ProviderAssumption
  <2>3. HandleExecuting(c) \subseteq Outcome
    BY <1>1, <2>1, <2>2, FailureOutcome, ExecutionStatusOutcome
       DEF HandleExecuting
  <2> QED BY <1>4, <2>3 DEF HandleState
<1>5. CASE c.st \notin NonFinal
  BY <1>5, QuietOutcome DEF HandleState, NonFinal
<1> QED BY <1>2, <1>3, <1>4, <1>5 DEF NonFinal

-----------------------------------------------------------------------------
(* What the operators on the bus do.                                       *)

Buses == [Sessions -> Instances]

\* Show() writes the instances of one session and never disposes one.
LEMMA ShowFacts ==
    ASSUME NEW b \in Buses, NEW s \in Sessions, NEW o \in Outcome
    PROVE  /\ Show(b, s, o) \in Buses
           /\ \A t \in Sessions \ {s} : Show(b, s, o)[t] = b[t]
           /\ Show(b, s, o)[s].ack = b[s].ack
BY DEF Show, Buses, Instances, Outcome, CommandState

\* Dispose(b, D) disposes all instances of D, and nothing else.
LEMMA DisposeFacts ==
    ASSUME NEW b \in Buses, NEW D
    PROVE  /\ Dispose(b, D) \in Buses
           /\ \A s \in Sessions \ D : Dispose(b, D)[s] = b[s]
           /\ \A s \in Sessions \cap D :
                /\ ~Dispose(b, D)[s].alive
                /\ ~Dispose(b, D)[s].ack
                /\ ~Dispose(b, D)[s].exe
BY DEF Dispose, Buses, Instances

LEMMA GreetFacts ==
    ASSUME NEW b \in Buses, NEW s \in Sessions,
           NEW status \in BOOLEAN, NEW ack \in BOOLEAN
    PROVE  /\ Greet(b, s, status, ack) \in Buses
           /\ \A t \in Sessions \ {s} : Greet(b, s, status, ack)[t] = b[t]
<1> DEFINE o == [to |-> Fresh, ok |-> TRUE, sent |-> status, exe |-> FALSE]
<1>1. o \in Outcome
  BY MachineStates DEF Outcome
<1>2. Show(b, s, o) \in Buses /\ \A t \in Sessions \ {s} : Show(b, s, o)[t] = b[t]
  BY <1>1, ShowFacts
<1>3. \E B \in Buses : B = Show(b, s, o)
  BY <1>2
<1> HIDE DEF o
<1>4. PICK B \in Buses : B = Show(b, s, o)
  BY <1>3
<1>5. Greet(b, s, status, ack) = [B EXCEPT ![s].ack = @ \/ ack]
  BY <1>4 DEF Greet, o
<1> QED BY <1>2, <1>4, <1>5 DEF Buses, Instances

-----------------------------------------------------------------------------
(* The inductive invariant: types, and what pc says of the session and the *)
(* sessions cycle() is working on.                                         *)

LoopOK ==
    /\ pc \in {"idle", "read", "abort"} => cur = None
    /\ pc \in {"idle", "read"} => todo = {}
    /\ pc # "sessions" => finals = {}
    /\ pc \in {"preempt", "sessions", "abort"} => todo \subseteq Ids(active)
    /\ pc = "reissue" => cur \in Ids(active) /\ active[cur] = Updated
    /\ pc = "preempt" => /\ cur \in Sessions \ Ids(active)
                         /\ behavior \in {"CANCEL_EXISTING", "COMPLETE_EXISTING"}
    /\ pc = "sessions" => cur \in Ids(active) \cup {None}
                          /\ finals \subseteq Ids(active)

IInv == TypeOK /\ LoopOK

States == [Sessions -> CommandState \cup {NoSession}]

\* A session is in activeCommands_ exactly when it has a machine state.
LEMMA ActiveFacts ==
    ASSUME NEW act \in States
    PROVE  /\ Ids(act) \subseteq Sessions
           /\ \A s \in Sessions : s \in Ids(act) <=> act[s] \in CommandState
           /\ \A s \in Sessions : s \in Ids(act) <=> IsActive(act, s)
BY MachineStates DEF States, Ids, IsActive, NoSession

\* Giving a session a state puts it in the map, or leaves it there.
LEMMA SetState ==
    ASSUME NEW act \in States, NEW s \in Sessions, NEW c \in CommandState
    PROVE  /\ [act EXCEPT ![s] = c] \in States
           /\ [act EXCEPT ![s] = c][s] = c
           /\ Ids([act EXCEPT ![s] = c]) = Ids(act) \cup {s}
           /\ s \in Ids(act) => Ids([act EXCEPT ![s] = c]) = Ids(act)
BY MachineStates DEF States, Ids, IsActive, NoSession

LEMMA NobodyFacts == Nobody \in States /\ Ids(Nobody) = {}
BY DEF Nobody, States, Ids, IsActive, NoSession

\* The two exits from handling a command leave the loop variables right.
LEMMA ProceedLoop ==
    ASSUME TypeOK, active' \in States, finals' = {}, Proceed(active')
    PROVE  /\ LoopOK'
           /\ pc' \in {"idle", "sessions"}
           /\ cur' = None /\ todo' \subseteq Sessions /\ result' \in BOOLEAN
<1>1. todo' = Ids(active') /\ Ids(active') \subseteq Sessions
  BY ActiveFacts DEF Proceed
<1> QED BY <1>1 DEF Proceed, LoopOK, TypeOK

LEMMA GiveUpLoop ==
    ASSUME TypeOK, active' \in States, finals' = {}, GiveUp(active')
    PROVE  /\ LoopOK'
           /\ pc' = "abort"
           /\ cur' = None /\ todo' \subseteq Sessions /\ result' = FALSE
<1>1. todo' = Ids(active') /\ Ids(active') \subseteq Sessions
  BY ActiveFacts DEF GiveUp
<1> QED BY <1>1 DEF GiveUp, LoopOK

-----------------------------------------------------------------------------
(* Every action preserves the invariant.                                   *)

LEMMA InitIInv == Init => IInv
<1> SUFFICES ASSUME Init PROVE IInv
  OBVIOUS
<1>1. <<>> \in Seq(Sample) /\ <<>> \in Seq(Sessions)
  BY EmptySeq
<1>2. active \in States /\ Ids(active) = {}
  BY NobodyFacts DEF Init
<1>3. bus \in [Sessions -> Instances]
  BY DEF Init, NeverWritten, Instances
<1>4. TypeOK
  BY <1>1, <1>2, <1>3 DEF TypeOK, Init, States
<1> QED BY <1>2, <1>4 DEF IInv, LoopOK, Init

LEMMA ClientIInv ==
    ASSUME IInv, NEW s \in Sessions, Send(s) \/ Close(s)
    PROVE  IInv'
<1> DEFINE w == [kind |-> "write", id |-> s]
           d == [kind |-> "dispose", id |-> s]
<1>1. w \in Sample /\ d \in Sample
  BY DEF Sample
<1>2. Append(inbox, w) \in Seq(Sample) /\ Append(inbox, d) \in Seq(Sample)
  BY <1>1, AppendProperties DEF IInv, TypeOK
<1>3. inbox' \in Seq(Sample)
  BY <1>2 DEF Send, Close
<1>4. client' \in [Sessions -> {"unused", "open", "closed"}]
  BY DEF Send, Close, IInv, TypeOK
<1>5. UNCHANGED <<behavior, active, queue, bus, pc, cur, todo, finals, result>>
  BY DEF Send, Close, loopVars
<1>6. TypeOK'
  BY <1>3, <1>4, <1>5 DEF IInv, TypeOK
<1>7. LoopOK'
  BY <1>5 DEF IInv, LoopOK
<1> QED BY <1>6, <1>7 DEF IInv

LEMMA SetBehaviorIInv ==
    ASSUME IInv, NEW b \in Behaviors, SetBehavior(b)
    PROVE  IInv'
BY DEF IInv, TypeOK, LoopOK, SetBehavior, clientVars, loopVars

LEMMA OnCycleIInv ==
    ASSUME IInv, OnCycle
    PROVE  IInv'
<1>1. active' \in States /\ active' = active /\ finals' = {}
  BY DEF OnCycle, IInv, TypeOK, LoopOK, States
<1>2. CASE pc' = "read" /\ result' = TRUE /\ UNCHANGED <<cur, todo>>
  BY <1>2 DEF OnCycle, IInv, TypeOK, LoopOK, clientVars
<1>3. CASE GiveUp(active)
  <2>1. LoopOK' /\ pc' = "abort" /\ cur' = None /\ todo' \subseteq Sessions
        /\ result' = FALSE
    BY <1>1, <1>3, GiveUpLoop DEF IInv
  <2> QED BY <2>1 DEF OnCycle, IInv, TypeOK, clientVars
<1> QED BY <1>2, <1>3 DEF OnCycle

LEMMA ReadErrorIInv ==
    ASSUME IInv, ReadError
    PROVE  IInv'
<1>1. active' \in States /\ active' = active /\ finals' = {}
  BY DEF ReadError, IInv, TypeOK, LoopOK, States
<1>2. LoopOK' /\ pc' = "abort" /\ cur' = None /\ todo' \subseteq Sessions
      /\ result' = FALSE
  BY <1>1, GiveUpLoop DEF IInv, ReadError
<1> QED BY <1>2 DEF ReadError, IInv, TypeOK, clientVars

LEMMA ReadNothingIInv ==
    ASSUME IInv, ReadNothing
    PROVE  IInv'
<1>1. active' \in States /\ active' = active /\ finals' = {}
  BY DEF ReadNothing, IInv, TypeOK, LoopOK, States
<1>2. LoopOK' /\ pc' \in {"idle", "sessions"} /\ cur' = None
      /\ todo' \subseteq Sessions /\ result' \in BOOLEAN
  BY <1>1, ProceedLoop DEF IInv, ReadNothing
<1> QED BY <1>2 DEF ReadNothing, IInv, TypeOK, clientVars

LEMMA AbortOneIInv ==
    ASSUME IInv, NEW s \in Sessions, AbortOne(s)
    PROVE  IInv'
<1>1. active \in States /\ bus \in Buses /\ active[s] \in CommandState
  BY ActiveFacts DEF AbortOne, IInv, TypeOK, LoopOK, States, Buses
<1>2. PICK o \in HandleFailure(active[s], "SERVICE_FAILED") :
        active' = [active EXCEPT ![s] = o.to] /\ bus' = Show(bus, s, o)
  BY DEF AbortOne
<1>3. o \in Outcome /\ o.to \in CommandState
  BY <1>1, FailureOutcome DEF FailureReasons, Outcome
<1>4. active' \in States /\ Ids(active') = Ids(active)
  BY <1>1, <1>2, <1>3, SetState, ActiveFacts
<1>5. bus' \in Buses
  BY <1>1, <1>2, <1>3, ShowFacts
<1>6. TypeOK'
  BY <1>4, <1>5 DEF AbortOne, IInv, TypeOK, States, Buses, clientVars
<1>7. LoopOK'
  BY <1>4 DEF AbortOne, IInv, LoopOK
<1> QED BY <1>6, <1>7 DEF IInv

LEMMA AbortDoneIInv ==
    ASSUME IInv, AbortDone
    PROVE  IInv'
<1>1. bus' \in Buses
  BY DisposeFacts DEF AbortDone, IInv, TypeOK, Buses
<1>2. active' \in States /\ Ids(active') = {}
  BY NobodyFacts DEF AbortDone
<1>3. TypeOK'
  BY <1>1, <1>2
     DEF AbortDone, IInv, TypeOK, States, Buses, clientVars, loopVars
<1>4. LoopOK'
  BY <1>2 DEF AbortDone, IInv, LoopOK, loopVars
<1> QED BY <1>3, <1>4 DEF IInv

\* Reading a sample takes it from the inbox and leaves the rest in order.
LEMMA TakeFacts ==
    ASSUME IInv, NEW kind, NEW s \in Sessions, Take(kind, s)
    PROVE  /\ inbox' \in Seq(Sample)
           /\ pc = "read" /\ finals' = {} /\ finals = {}
           /\ client' = client /\ behavior' = behavior
BY HeadTailProperties DEF Take, IInv, TypeOK, LoopOK

\* A command handled either way: what is left to show of a step that ends
\* handleIncomingCommand() by Proceed or by GiveUp.
LEMMA EndOfIncoming ==
    ASSUME IInv, finals' = {}, Proceed(active') \/ GiveUp(active'),
           client' \in [Sessions -> {"unused", "open", "closed"}],
           inbox' \in Seq(Sample), behavior' \in Behaviors,
           active' \in States, queue' \in Seq(Sessions), bus' \in Buses
    PROVE  IInv'
<1>1. /\ LoopOK'
      /\ pc' \in {"idle", "sessions", "abort"}
      /\ cur' = None /\ todo' \subseteq Sessions /\ result' \in BOOLEAN
  BY ProceedLoop, GiveUpLoop DEF IInv
<1> QED BY <1>1 DEF IInv, TypeOK, States, Buses

\* The front of the queue is a session and the rest a queue again.
LEMMA QueueFacts ==
    ASSUME TypeOK, queue # <<>>
    PROVE  Head(queue) \in Sessions /\ Tail(queue) \in Seq(Sessions)
BY HeadTailProperties DEF TypeOK

LEMMA CancelActiveIInv ==
    ASSUME IInv, NEW s \in Sessions, CancelActive(s)
    PROVE  IInv'
<1>1. active \in States /\ bus \in Buses /\ active[s] \in CommandState
  BY ActiveFacts DEF CancelActive, IInv, TypeOK, States, Buses
<1> DEFINE promoted == IF queue = <<>> THEN {} ELSE {Head(queue)}
           left(o) == [t \in Sessions |->
                          IF o.ok /\ t = s THEN NoSession
                          ELSE IF t \in promoted THEN Fresh
                          ELSE IF t = s THEN o.to ELSE active[t]]
<1>2. PICK o \in HandleCancel(active[s]) :
        /\ active' = left(o)
        /\ queue' = IF queue = <<>> THEN queue ELSE Tail(queue)
        /\ \E D : bus' = Dispose(Show(bus, s, o), D)
        /\ IF o.ok THEN Proceed(left(o)) ELSE GiveUp(left(o))
  BY DEF CancelActive
<1>3. o \in Outcome /\ o.to \in CommandState
  BY <1>1, CancelOutcome DEF Outcome
<1>4. active' \in States
  BY <1>1, <1>2, <1>3, MachineStates DEF States
<1>5. bus' \in Buses
  BY <1>1, <1>2, <1>3, ShowFacts, DisposeFacts
<1>6. queue' \in Seq(Sessions)
  BY <1>2, QueueFacts DEF IInv, TypeOK
<1>7. Proceed(active') \/ GiveUp(active')
  BY <1>2
<1>8. Take("dispose", s)
  BY DEF CancelActive
<1> QED BY <1>4, <1>5, <1>6, <1>7, <1>8, TakeFacts, EndOfIncoming
        DEF IInv, TypeOK

\* Taking entry i out of a queue leaves a queue, of the other entries.
LEMMA RemoveAtFacts ==
    ASSUME NEW q \in Seq(Sessions), NEW i \in 1 .. Len(q)
    PROVE  /\ RemoveAt(q, i) \in Seq(Sessions)
           /\ Len(RemoveAt(q, i)) = Len(q) - 1
           /\ \A j \in 1 .. i - 1 : RemoveAt(q, i)[j] = q[j]
           /\ \A j \in i .. Len(q) - 1 : RemoveAt(q, i)[j] = q[j + 1]
<1> DEFINE a == SubSeq(q, 1, i - 1)
           b == SubSeq(q, i + 1, Len(q))
<1>1. Len(q) \in Nat /\ \A j \in 1 .. Len(q) : q[j] \in Sessions
  BY ElementOfSeq, LenProperties
<1>2. /\ a \in Seq(Sessions) /\ Len(a) = i - 1
      /\ \A j \in 1 .. i - 1 : a[j] = q[j]
  BY <1>1, SubSeqProperties
<1>3. /\ b \in Seq(Sessions) /\ Len(b) = Len(q) - i
      /\ \A j \in 1 .. Len(q) - i : b[j] = q[i + j]
  <2>1. /\ b \in Seq(Sessions)
        /\ Len(b) = IF i + 1 <= Len(q) THEN Len(q) - (i + 1) + 1 ELSE 0
        /\ \A j \in 1 .. Len(q) - (i + 1) + 1 : b[j] = q[(i + 1) + j - 1]
    BY <1>1, SubSeqProperties
  <2> QED BY <1>1, <2>1
<1> HIDE DEF a, b
<1>4. /\ a \o b \in Seq(Sessions)
      /\ Len(a \o b) = Len(q) - 1
      /\ \A j \in 1 .. Len(q) - 1 :
            (a \o b)[j] = IF j <= i - 1 THEN a[j] ELSE b[j - (i - 1)]
  <2>1. /\ a \o b \in Seq(Sessions)
        /\ Len(a \o b) = Len(a) + Len(b)
        /\ \A j \in 1 .. Len(a) + Len(b) :
              (a \o b)[j] = IF j <= Len(a) THEN a[j] ELSE b[j - Len(a)]
    BY <1>2, <1>3, ConcatProperties
  <2>2. Len(a) + Len(b) = Len(q) - 1
    BY <1>1, <1>2, <1>3
  <2> QED BY <1>2, <2>1, <2>2
<1>5. \A j \in i .. Len(q) - 1 : (a \o b)[j] = q[j + 1]
  BY <1>1, <1>3, <1>4
<1>6. \A j \in 1 .. i - 1 : (a \o b)[j] = q[j]
  BY <1>1, <1>2, <1>4
<1> QED BY <1>4, <1>5, <1>6 DEF a, b, RemoveAt

\* Every non-empty set of natural numbers has a least element.
LEMMA MinFacts ==
    ASSUME NEW I \in SUBSET Nat, I # {}
    PROVE  Min(I) \in I /\ \A i \in I : Min(I) <= i
<1>1. PICK x \in I : \A y \in I : ~(<<y, x>> \in OpToRel(<, Nat))
  BY WFMin, NatLessThanWellFounded
<1>2. \A y \in I : x <= y
  <2>1. OpToRel(<, Nat) = {p \in Nat \X Nat : p[1] < p[2]}
    BY DEF OpToRel
  <2>2. \A y \in I : ~(y < x)
    BY <1>1, <2>1
  <2> QED BY <2>2
<1> QED BY <1>2 DEF Min

\* Canceling a queued session takes out the first entry with its id.
LEMMA RemoveFirstFacts ==
    ASSUME NEW q \in Seq(Sessions), NEW s \in Sessions, s \in ToSet(q)
    PROVE  \E i \in 1 .. Len(q) :
              /\ q[i] = s /\ \A j \in 1 .. i - 1 : q[j] # s
              /\ RemoveFirst(q, s) = RemoveAt(q, i)
<1> DEFINE I == {i \in 1 .. Len(q) : q[i] = s}
<1>1. I \in SUBSET Nat /\ I # {}
  BY LenProperties DEF ToSet
<1>2. Min(I) \in I /\ \A i \in I : Min(I) <= i
  BY <1>1, MinFacts
<1>3. RemoveFirst(q, s) = RemoveAt(q, Min(I))
  <2>1. \E j \in 1 .. Len(q) : q[j] = s
    BY <1>1
  <2>2. SelectInSeq(q, LAMBDA v : v = s) = Min(I)
    BY <1>1 DEF SelectInSeq
  <2> QED BY <2>1, <2>2 DEF RemoveFirst
<1>4. \A j \in 1 .. Min(I) - 1 : q[j] # s
  <2> SUFFICES ASSUME NEW j \in 1 .. Min(I) - 1, q[j] = s PROVE FALSE
    OBVIOUS
  <2>1. Len(q) \in Nat /\ Min(I) \in 1 .. Len(q)
    BY <1>2, LenProperties
  <2>2. j \in I /\ ~(Min(I) <= j)
    BY <2>1
  <2> QED BY <1>2, <2>2
<1>5. Min(I) \in 1 .. Len(q) /\ q[Min(I)] = s
  BY <1>2
<1> QED BY <1>3, <1>4, <1>5

LEMMA CancelQueuedIInv ==
    ASSUME IInv, NEW s \in Sessions, CancelQueued(s)
    PROVE  IInv'
<1>1. PICK o \in HandleCancel(Fresh) :
        /\ bus' = Dispose(Show(bus, s, o), {s})
        /\ IF o.ok THEN Proceed(active) ELSE GiveUp(active)
  BY DEF CancelQueued
<1>2. bus \in Buses /\ o \in Outcome
  BY CancelOutcome, MachineStates DEF IInv, TypeOK, Buses
<1>3. bus' \in Buses
  BY <1>1, <1>2, ShowFacts, DisposeFacts
<1>4. queue' \in Seq(Sessions)
  BY RemoveFirstFacts, RemoveAtFacts DEF CancelQueued, Queued, IInv, TypeOK
<1>5. active' = active /\ Take("dispose", s)
  BY DEF CancelQueued
<1> QED BY <1>1, <1>3, <1>4, <1>5, TakeFacts, EndOfIncoming
        DEF IInv, TypeOK, States

LEMMA CancelUnknownIInv ==
    ASSUME IInv, NEW s \in Sessions, CancelUnknown(s)
    PROVE  IInv'
<1>1. Take("dispose", s) /\ UNCHANGED <<active, queue, bus>>
  BY DEF CancelUnknown
<1>2. Proceed(active')
  BY <1>1 DEF CancelUnknown
<1> QED BY <1>1, <1>2, TakeFacts, EndOfIncoming
        DEF IInv, TypeOK, States, Buses

LEMMA UpdateIInv ==
    ASSUME IInv, NEW s \in Sessions, Update(s)
    PROVE  IInv'
<1>1. Take("write", s) /\ IsActive(active, s) /\ queue' = queue
  BY DEF Update
<1>2. /\ active \in States /\ bus \in Buses
      /\ active[s] \in CommandState /\ s \in Ids(active)
  BY <1>1, ActiveFacts DEF IInv, TypeOK, States, Buses
<1>3. PICK o \in HandleUpdate(active[s]) :
        /\ active' = [active EXCEPT ![s] = o.to]
        /\ bus' = Show(bus, s, o)
        /\ IF o.ok THEN pc' = "reissue" /\ cur' = s /\ UNCHANGED <<todo, result>>
           ELSE GiveUp(active')
  BY DEF Update
<1>4. o \in Outcome /\ o.to \in CommandState /\ (o.ok => o.to = Updated)
  BY <1>2, <1>3, UpdateOutcome DEF Outcome
<1>5. active' \in States /\ Ids(active') = Ids(active)
  <2>1. active' = [active EXCEPT ![s] = o.to] /\ o.to \in CommandState
    BY <1>3, <1>4
  <2>2. active' \in States
    BY <1>2, <2>1, SetState
  <2>3. Ids(active') = Ids(active)
    BY <1>2, <2>1, SetState
  <2> QED BY <2>2, <2>3
<1>6. bus' \in Buses
  BY <1>2, <1>3, <1>4, ShowFacts
<1>7. CASE ~o.ok
  BY <1>1, <1>3, <1>5, <1>6, <1>7, TakeFacts, EndOfIncoming DEF IInv, TypeOK
<1>8. CASE o.ok
  <2>1. TypeOK'
    BY <1>1, <1>3, <1>5, <1>6, <1>8, TakeFacts
       DEF IInv, TypeOK, States, Buses
  <2>2. active'[s] = Updated
    BY <1>2, <1>3, <1>4, <1>8 DEF States
  <2>3. LoopOK'
    BY <1>1, <1>2, <1>3, <1>5, <1>8, <2>2, TakeFacts DEF LoopOK
  <2> QED BY <2>1, <2>3 DEF IInv
<1> QED BY <1>7, <1>8

LEMMA ReissueIInv ==
    ASSUME IInv, NEW s \in Sessions, Reissue(s)
    PROVE  IInv'
<1>1. /\ pc = "reissue" /\ active[s] = Updated /\ finals' = {}
      /\ UNCHANGED <<client, inbox, behavior, queue>>
  BY DEF Reissue, IInv, LoopOK, clientVars
<1>2. PICK o \in HandleIssued(active[s]) :
        /\ active' = [active EXCEPT ![s] = o.to]
        /\ bus' = Show(bus, s, o)
        /\ Proceed(active') \/ GiveUp(active')
  BY DEF Reissue
<1>3. o \in Outcome /\ o.to \in CommandState
  BY <1>1, IssuedOutcome, MachineStates DEF Updated, NonFinal, Outcome
<1>4. active' \in States /\ bus' \in Buses
  BY <1>2, <1>3, ActiveFacts, ShowFacts DEF IInv, TypeOK, States, Buses
<1> QED BY <1>1, <1>2, <1>4, EndOfIncoming DEF IInv, TypeOK

\* A new session is in the map and its instances are written.
LEMMA AddFacts ==
    ASSUME NEW b \in Buses, NEW act \in States, NEW s \in Sessions,
           Add(b, act, s)
    PROVE  /\ active' = [act EXCEPT ![s] = Fresh]
           /\ active' \in States /\ Ids(active') = Ids(act) \cup {s}
           /\ bus' \in Buses /\ \A t \in Sessions \ {s} : bus'[t] = b[t]
           /\ Proceed(active') \/ GiveUp(active')
<1>1. PICK status \in May("send"), ack \in May("send") :
        /\ active' = [act EXCEPT ![s] = Fresh]
        /\ bus' = Greet(b, s, status, status /\ ack)
        /\ IF status /\ ack THEN Proceed(active') ELSE GiveUp(active')
  BY DEF Add
<1>2. status \in BOOLEAN /\ (status /\ ack) \in BOOLEAN
  BY MayIsBoolean
<1>3. active' \in States /\ Ids(active') = Ids(act) \cup {s}
  BY <1>1, SetState, MachineStates
<1>4. bus' \in Buses /\ \A t \in Sessions \ {s} : bus'[t] = b[t]
  BY ZenonT(60), <1>1, <1>2, GreetFacts
<1> QED BY <1>1, <1>3, <1>4

LEMMA AcceptIInv ==
    ASSUME IInv, NEW s \in Sessions, Accept(s)
    PROVE  IInv'
<1>1. Take("write", s) /\ queue' = queue /\ Add(bus, active, s)
  BY DEF Accept, New
<1>2. /\ active' \in States /\ bus' \in Buses
      /\ Proceed(active') \/ GiveUp(active')
  BY <1>1, AddFacts DEF IInv, TypeOK, States, Buses
<1> QED BY <1>1, <1>2, TakeFacts, EndOfIncoming DEF IInv, TypeOK

LEMMA RejectIInv ==
    ASSUME IInv, NEW s \in Sessions, Reject(s)
    PROVE  IInv'
<1> DEFINE refused(failed) == [to |-> Failed("SERVICE_FAILED"), ok |-> TRUE,
                               sent |-> failed, exe |-> FALSE]
<1>1. PICK status \in May("send"), ack \in May("send"), failed \in May("send") :
        bus' = Dispose(Show(Greet(bus, s, status, ack), s, refused(failed)), {s})
  BY DEF Reject
<1>2. status \in BOOLEAN /\ ack \in BOOLEAN /\ failed \in BOOLEAN
  BY MayIsBoolean
<1>3. refused(failed) \in Outcome
  BY <1>2, MachineStates DEF Outcome, FailureReasons
<1>4. bus' \in Buses
  BY <1>1, <1>2, <1>3, GreetFacts, ShowFacts, DisposeFacts
     DEF IInv, TypeOK, Buses
<1>5. Take("write", s) /\ active' = active /\ queue' = queue
      /\ Proceed(active')
  BY DEF Reject, New
<1> QED BY <1>4, <1>5, TakeFacts, EndOfIncoming DEF IInv, TypeOK, States

LEMMA EnqueueIInv ==
    ASSUME IInv, NEW s \in Sessions, Enqueue(s)
    PROVE  IInv'
<1>1. PICK status \in May("send"), ack \in May("send") :
        bus' = Greet(bus, s, status, ack)
  BY DEF Enqueue
<1>2. bus' \in Buses
  BY <1>1, MayIsBoolean, GreetFacts DEF IInv, TypeOK, Buses
<1>3. queue' \in Seq(Sessions)
  BY AppendProperties DEF Enqueue, IInv, TypeOK
<1>4. Take("write", s) /\ active' = active /\ Proceed(active')
  BY DEF Enqueue, New
<1> QED BY <1>2, <1>3, <1>4, TakeFacts, EndOfIncoming DEF IInv, TypeOK, States

LEMMA PreemptIInv ==
    ASSUME IInv, NEW s \in Sessions, Preempt(s)
    PROVE  IInv'
<1>1. Take("write", s) /\ ~IsActive(active, s)
  BY DEF Preempt, New
<1>2. s \in Sessions \ Ids(active) /\ Ids(active) \subseteq Sessions
  BY <1>1 DEF Ids
<1>3. TypeOK'
  BY <1>1, <1>2, TakeFacts DEF Preempt, IInv, TypeOK
<1>4. LoopOK'
  BY <1>1, <1>2, TakeFacts DEF Preempt, IInv, LoopOK, TypeOK
<1> QED BY <1>3, <1>4 DEF IInv

LEMMA PreemptOneIInv ==
    ASSUME IInv, NEW t \in Sessions, PreemptOne(t)
    PROVE  IInv'
<1>1. /\ pc = "preempt" /\ t \in todo
      /\ UNCHANGED <<client, inbox, behavior, queue, finals>>
  BY DEF PreemptOne, clientVars
<1>2. /\ active \in States /\ bus \in Buses /\ active[t] \in CommandState
      /\ finals' = {}
  BY <1>1, ActiveFacts DEF IInv, TypeOK, LoopOK, States, Buses
<1>3. PICK o \in IF behavior = "CANCEL_EXISTING" THEN HandleCancel(active[t])
                 ELSE CompleteExisting :
        \/ /\ o.ok
           /\ active' = IF behavior = "CANCEL_EXISTING"
                        THEN [active EXCEPT ![t] = o.to] ELSE active
           /\ bus' = Show(bus, t, o)
           /\ todo' = todo \ {t}
           /\ UNCHANGED <<pc, cur, result>>
        \/ /\ ~o.ok
           /\ active' = Nobody
           /\ bus' = Dispose(Show(bus, t, o), Ids(active))
           /\ GiveUp(Nobody)
  BY DEF PreemptOne
<1>4. o \in Outcome /\ o.to \in CommandState
  <2>1. [st |-> "COMPLETED", why |-> "SUCCEEDED"] \in CommandState
    BY DEF CommandState, Statuses, Reasons
  <2> QED BY <1>2, <1>3, <2>1, CancelOutcome, AnnounceOutcome
          DEF Outcome, CompleteExisting
<1>5. bus' \in Buses
  BY <1>2, <1>3, <1>4, ShowFacts, DisposeFacts
<1>6. CASE o.ok
  <2>1. active' \in States /\ Ids(active') = Ids(active)
    <3>1. active' = [active EXCEPT ![t] = o.to] \/ active' = active
      BY <1>3, <1>6
    <3>2. t \in Ids(active)
      BY <1>2, ActiveFacts
    <3>3. CASE active' = active
      BY <1>2, <3>3
    <3>4. CASE active' = [active EXCEPT ![t] = o.to]
      BY <1>2, <1>4, <3>2, <3>4, SetState
    <3> QED BY <3>1, <3>3, <3>4
  <2>2. todo' \subseteq todo /\ UNCHANGED <<pc, cur, result>>
    BY <1>3, <1>6
  <2>3. TypeOK'
    BY <1>1, <1>5, <2>1, <2>2 DEF IInv, TypeOK, States, Buses
  <2>4. LoopOK'
    BY <1>1, <1>2, <2>1, <2>2 DEF IInv, LoopOK
  <2> QED BY <2>3, <2>4 DEF IInv
<1>7. CASE ~o.ok
  <2>1. active' \in States /\ GiveUp(active')
    BY <1>3, <1>7, NobodyFacts
  <2> QED BY <1>1, <1>2, <1>5, <2>1, EndOfIncoming DEF IInv, TypeOK
<1> QED BY <1>6, <1>7

LEMMA PreemptDoneIInv ==
    ASSUME IInv, PreemptDone
    PROVE  IInv'
<1>1. /\ cur \in Sessions /\ finals' = {}
      /\ UNCHANGED <<client, inbox, behavior, queue>>
      /\ Add(Dispose(bus, Ids(active)), Nobody, cur)
  BY DEF PreemptDone, IInv, LoopOK, clientVars
<1>2. Dispose(bus, Ids(active)) \in Buses
  BY DisposeFacts DEF IInv, TypeOK, Buses
<1>3. /\ active' \in States /\ bus' \in Buses
      /\ Proceed(active') \/ GiveUp(active')
  BY <1>1, <1>2, AddFacts, NobodyFacts
<1> QED BY <1>1, <1>3, EndOfIncoming DEF IInv, TypeOK

LEMMA CycleSessionIInv ==
    ASSUME IInv, NEW s \in Sessions, CycleSession(s)
    PROVE  IInv'
<1>1. /\ pc = "sessions" /\ s \in Ids(active)
      /\ UNCHANGED <<client, inbox, behavior, queue, pc>>
  BY ProviderAssumption
     DEF CycleSession, IInv, LoopOK, clientVars, ProviderAssumption
<1>2. active \in States /\ bus \in Buses /\ active[s] \in CommandState
  BY <1>1, ActiveFacts DEF IInv, TypeOK, States, Buses
<1>3. PICK o \in HandleState(active[s]) :
        /\ active' = [active EXCEPT ![s] = o.to]
        /\ bus' = Show(bus, s, o)
        /\ cur' = IF Again(active[s], o) THEN s ELSE None
        /\ todo' = IF o.ok THEN todo \ {s} ELSE {}
        /\ result' = (result /\ o.ok)
  BY DEF CycleSession
<1>4. o \in Outcome /\ o.to \in CommandState
  BY <1>2, StateOutcome DEF Outcome
<1>5. /\ active' \in States /\ bus' \in Buses
      /\ Ids(active') = Ids(active)
  <2>1. active' \in States /\ Ids(active') = Ids(active)
    BY <1>1, <1>2, <1>3, <1>4, SetState
  <2>2. bus' \in Buses
    BY <1>2, <1>3, <1>4, ShowFacts
  <2> QED BY <2>1, <2>2
<1>6. finals' \subseteq finals \cup {s}
  BY DEF CycleSession
<1>7. cur' \in {s, None} /\ todo' \subseteq todo /\ result' \in BOOLEAN
  BY <1>3
<1>8. TypeOK'
  BY <1>1, <1>5, <1>6, <1>7 DEF IInv, TypeOK, States, Buses
<1>9. LoopOK'
  BY <1>1, <1>5, <1>6, <1>7 DEF IInv, LoopOK
<1> QED BY <1>8, <1>9 DEF IInv

LEMMA EndCycleIInv ==
    ASSUME IInv, EndCycle
    PROVE  IInv'
<1> DEFINE left == [s \in Sessions |-> IF s \in finals THEN NoSession
                                       ELSE active[s]]
<1>1. /\ \/ /\ Promotes(left)
            /\ active' = [left EXCEPT ![Head(queue)] = Fresh]
            /\ queue' = Tail(queue)
         \/ active' = left /\ queue' = queue
      /\ bus' = Dispose(bus, finals)
  BY DEF EndCycle
<1>2. left \in States
  BY DEF IInv, TypeOK, States
<1>3. active' \in States /\ queue' \in Seq(Sessions)
  <2> HIDE DEF left
  <2>1. CASE active' = left /\ queue' = queue
    BY <1>2, <2>1 DEF IInv, TypeOK
  <2>2. CASE /\ Promotes(left)
             /\ active' = [left EXCEPT ![Head(queue)] = Fresh]
             /\ queue' = Tail(queue)
    <3>1. Head(queue) \in Sessions /\ Tail(queue) \in Seq(Sessions)
      BY <2>2, QueueFacts DEF IInv, Promotes
    <3> QED BY <1>2, <2>2, <3>1, SetState, MachineStates
  <2> QED BY <1>1, <2>1, <2>2
<1>4. bus' \in Buses
  BY <1>1, DisposeFacts DEF IInv, TypeOK, Buses
<1>5. /\ pc' = "idle" /\ finals' = {} /\ cur' = None /\ todo' = {}
      /\ UNCHANGED <<client, inbox, behavior, result>>
  BY DEF EndCycle, clientVars
<1>6. TypeOK'
  BY <1>3, <1>4, <1>5 DEF IInv, TypeOK, States, Buses
<1>7. LoopOK'
  BY <1>5 DEF LoopOK
<1> QED BY <1>6, <1>7 DEF IInv

LEMMA NextIInv == IInv /\ [Next]_vars => IInv'
<1> SUFFICES ASSUME IInv, [Next]_vars PROVE IInv'
  OBVIOUS
<1>1. CASE UNCHANGED vars
  BY <1>1 DEF vars, IInv, TypeOK, LoopOK
<1>2. CASE Cycle
  <2>1. CASE OnCycle \/ ReadError \/ ReadNothing
    BY <2>1, OnCycleIInv, ReadErrorIInv, ReadNothingIInv
  <2>2. CASE \E s \in Sessions : Incoming(s)
    BY <2>2, CancelActiveIInv, CancelQueuedIInv, CancelUnknownIInv,
       UpdateIInv, AcceptIInv, RejectIInv, EnqueueIInv, PreemptIInv
       DEF Incoming
  <2>3. CASE (\E s \in Sessions : Reissue(s) \/ PreemptOne(s)) \/ PreemptDone
    BY <2>3, ReissueIInv, PreemptOneIInv, PreemptDoneIInv
  <2>4. CASE (\E s \in Sessions : CycleSession(s)) \/ EndCycle
    BY <2>4, CycleSessionIInv, EndCycleIInv
  <2>5. CASE (\E s \in Sessions : AbortOne(s)) \/ AbortDone
    BY <2>5, AbortOneIInv, AbortDoneIInv
  <2> QED BY <1>2, <2>1, <2>2, <2>3, <2>4, <2>5 DEF Cycle
<1>3. CASE \E b \in Behaviors : SetBehavior(b)
  BY <1>3, SetBehaviorIInv
<1>4. CASE \E s \in Sessions : Send(s) \/ Close(s)
  BY <1>4, ClientIInv
<1> QED BY <1>1, <1>2, <1>3, <1>4 DEF Next

\* The provider's variables keep their types, whatever the consumers send,
\* the hooks decide and the DDS calls return.
THEOREM TypeCorrect == Spec => []TypeOK
<1>1. IInv => TypeOK
  BY DEF IInv
<1> QED BY <1>1, InitIInv, NextIInv, PTL DEF Spec


-----------------------------------------------------------------------------
(* How a step may change the set of active sessions.                       *)

\* The active sessions shrink, or are one session, or one is replaced by
\* another; only ACCEPT_CONCURRENT adds a session to others.
KeepsSingle ==
    \/ Ids(active') \subseteq Ids(active)
    \/ \E s \in Sessions : Ids(active') \subseteq {s}
    \/ \E s \in Ids(active), h \in Sessions :
            Ids(active') \subseteq (Ids(active) \ {s}) \cup {h}
    \/ behavior = "ACCEPT_CONCURRENT"

LEMMA IncomingActive ==
    ASSUME IInv, NEW s \in Sessions, Incoming(s)
    PROVE  pc = "read" /\ (pc' = "abort" \/ KeepsSingle)
<1> SUFFICES pc' = "abort" \/ KeepsSingle
  BY DEF Incoming, CancelActive, CancelQueued, CancelUnknown, Update,
         Accept, Reject, Enqueue, Preempt, New, Take
<1> USE DEF KeepsSingle
<1> USE DEF States, IInv, TypeOK
<1>1. CASE CancelActive(s)
  <2> DEFINE promoted == IF queue = <<>> THEN {} ELSE {Head(queue)}
             left(o) == [t \in Sessions |->
                            IF o.ok /\ t = s THEN NoSession
                            ELSE IF t \in promoted THEN Fresh
                            ELSE IF t = s THEN o.to ELSE active[t]]
  <2>1. PICK o \in HandleCancel(active[s]) :
          active' = left(o) /\ IF o.ok THEN Proceed(left(o)) ELSE GiveUp(left(o))
    BY <1>1 DEF CancelActive
  <2>2. CASE ~o.ok
    BY <2>1, <2>2 DEF GiveUp
  <2>3. CASE o.ok /\ queue = <<>>
    <3>1. Ids(active') \subseteq Ids(active)
      BY <2>1, <2>3 DEF Ids, IsActive, NoSession
    <3> QED BY <3>1
  <2>4. CASE o.ok /\ queue # <<>>
    <3>1. Head(queue) \in Sessions
      BY <2>4, QueueFacts
    <3>2. Ids(active') \subseteq (Ids(active) \ {s}) \cup {Head(queue)}
      BY <2>1, <2>4 DEF Ids, IsActive, NoSession
    <3>3. s \in Ids(active)
      BY <1>1 DEF CancelActive, Ids
    <3> QED BY <3>1, <3>2, <3>3
  <2> QED BY <2>2, <2>3, <2>4
<1>2. CASE CancelQueued(s) \/ CancelUnknown(s) \/ Reject(s) \/ Enqueue(s)
           \/ Preempt(s)
  BY <1>2 DEF CancelQueued, CancelUnknown, Reject, Enqueue, Preempt
<1>3. CASE Update(s)
  <2>1. active[s] \in CommandState
    BY <1>3, ActiveFacts DEF Update
  <2>2. PICK o \in HandleUpdate(active[s]) : active' = [active EXCEPT ![s] = o.to]
    BY <1>3 DEF Update
  <2>3. o.to \in CommandState
    BY <2>1, UpdateOutcome DEF Outcome
  <2>4. Ids(active') = Ids(active) \cup {s} /\ s \in Ids(active)
    BY <2>1, <2>2, <2>3, SetState, ActiveFacts
  <2> QED BY <2>4
<1>4. CASE Accept(s)
  <2>1. Ids(active') = Ids(active) \cup {s}
    BY <1>4, AddFacts DEF Accept, Buses
  <2> QED BY <1>4, <2>1 DEF Accept, Busy
<1> QED BY <1>1, <1>2, <1>3, <1>4 DEF Incoming

\* Any step of cycle().
LEMMA CycleActive ==
    ASSUME IInv, Cycle
    PROVE  \/ pc' = "abort"
           \/ pc # "abort" /\ KeepsSingle
           \/ Ids(active') = {}
<1>0. /\ Ids(active') \subseteq Ids(active) => KeepsSingle
      /\ (\E s \in Sessions : Ids(active') \subseteq {s}) => KeepsSingle
  BY DEF KeepsSingle
<1>1. CASE OnCycle \/ ReadError \/ ReadNothing
  BY <1>0, <1>1 DEF OnCycle, ReadError, ReadNothing
<1>2. CASE \E s \in Sessions : Incoming(s)
  BY <1>2, IncomingActive
<1>3. CASE \E s \in Sessions : Reissue(s)
  <2>1. PICK s \in Sessions : Reissue(s)
    BY <1>3
  <2>2. PICK o \in HandleIssued(active[s]) : active' = [active EXCEPT ![s] = o.to]
    BY <2>1 DEF Reissue
  <2>3. pc = "reissue" /\ active[s] = Updated /\ s \in Ids(active)
    BY <2>1 DEF Reissue, IInv, LoopOK
  <2>4. o.to \in CommandState
    BY <2>2, <2>3, IssuedOutcome, MachineStates DEF Updated, NonFinal, Outcome
  <2>5. Ids(active') = Ids(active)
    <3>1. active \in States
      BY DEF IInv, TypeOK, States
    <3> QED BY <2>2, <2>3, <2>4, <3>1, SetState
  <2> QED BY <1>0, <2>3, <2>5
<1>4. CASE \E t \in Sessions : PreemptOne(t)
  <2>1. PICK t \in Sessions : PreemptOne(t)
    BY <1>4
  <2>2. pc = "preempt" /\ t \in Ids(active)
    BY <2>1 DEF PreemptOne, IInv, LoopOK
  <2>3. \/ active' = active \/ pc' = "abort"
        \/ \E o \in HandleCancel(active[t]) : active' = [active EXCEPT ![t] = o.to]
    BY <2>1 DEF PreemptOne, GiveUp
  <2>4. CASE \E o \in HandleCancel(active[t]) : active' = [active EXCEPT ![t] = o.to]
    <3>1. active \in States /\ active[t] \in CommandState
      BY <2>2, ActiveFacts DEF IInv, TypeOK, States
    <3>2. Ids(active') = Ids(active)
      <4>1. PICK o \in HandleCancel(active[t]) :
              active' = [active EXCEPT ![t] = o.to]
        BY <2>4
      <4>2. o.to \in CommandState
        BY <3>1, CancelOutcome DEF Outcome
      <4> QED BY <2>2, <3>1, <4>1, <4>2, SetState
    <3> QED BY <1>0, <2>2, <3>2
  <2> QED BY <1>0, <2>2, <2>3, <2>4
<1>5. CASE PreemptDone
  <2>1. pc = "preempt" /\ cur \in Sessions
        /\ Add(Dispose(bus, Ids(active)), Nobody, cur)
    BY <1>5 DEF PreemptDone, IInv, LoopOK
  <2>2. Ids(active') = {cur}
    BY <2>1, AddFacts, NobodyFacts, DisposeFacts DEF IInv, TypeOK, Buses
  <2> QED BY <1>0, <2>1, <2>2
<1>6. CASE \E s \in Sessions : CycleSession(s)
  <2>1. PICK s \in Sessions : CycleSession(s)
    BY <1>6
  <2>2. pc = "sessions" /\ s \in Ids(active)
    BY <2>1, ProviderAssumption
       DEF CycleSession, IInv, LoopOK, ProviderAssumption
  <2>3. PICK o \in HandleState(active[s]) : active' = [active EXCEPT ![s] = o.to]
    BY <2>1 DEF CycleSession
  <2>4. active \in States /\ active[s] \in CommandState
    BY <2>2, ActiveFacts DEF IInv, TypeOK, States
  <2>5. o.to \in CommandState
    BY <2>3, <2>4, StateOutcome DEF Outcome
  <2>6. Ids(active') = Ids(active)
    BY <2>2, <2>3, <2>4, <2>5, SetState
  <2> QED BY <1>0, <2>2, <2>6
<1>7. CASE EndCycle
  <2> DEFINE left == [s \in Sessions |-> IF s \in finals THEN NoSession
                                         ELSE active[s]]
  <2>1. pc = "sessions" /\ left \in States
    BY <1>7 DEF EndCycle, IInv, TypeOK, States
  <2>2. CASE active' = left
    <3>1. Ids(active') \subseteq Ids(active)
      BY <2>2 DEF Ids, IsActive, NoSession
    <3> QED BY <1>0, <2>1, <3>1
  <2>3. CASE Promotes(left) /\ active' = [left EXCEPT ![Head(queue)] = Fresh]
    <3>1. Head(queue) \in Sessions
      BY <2>3, QueueFacts DEF Promotes, IInv
    <3> HIDE DEF left
    <3>2. Ids(active') = {Head(queue)}
      <4>1. Ids(left) = {}
        BY <2>3 DEF Promotes
      <4>2. Ids([left EXCEPT ![Head(queue)] = Fresh]) = Ids(left) \cup {Head(queue)}
        BY <2>1, <3>1, SetState, MachineStates
      <4> QED BY <2>3, <4>1, <4>2
    <3> QED BY <1>0, <2>1, <3>1, <3>2
  <2> QED BY <1>7, <2>2, <2>3 DEF EndCycle
<1>8. CASE \E s \in Sessions : AbortOne(s)
  BY <1>8 DEF AbortOne
<1>9. CASE AbortDone
  BY <1>9, NobodyFacts DEF AbortDone
<1> QED BY <1>1, <1>2, <1>3, <1>4, <1>5, <1>6, <1>7, <1>8, <1>9 DEF Cycle

\* Unless ACCEPT_CONCURRENT is in use, one command is active at a time.
THEOREM OneActiveCommand == Spec => []OneAtATime
<1>1. Init => OneAtATime
  BY NobodyFacts DEF Init, OneAtATime
<1>2. IInv /\ OneAtATime /\ [Next]_vars => OneAtATime'
  <2> SUFFICES ASSUME IInv, OneAtATime, [Next]_vars,
                      "ACCEPT_CONCURRENT" \notin Behaviors, pc' # "abort"
               PROVE  \A s, t \in Ids(active') : s = t
    BY DEF OneAtATime
  <2>1. CASE Cycle
    <3>1. behavior # "ACCEPT_CONCURRENT"
      BY DEF IInv, TypeOK
    <3>2. CASE pc # "abort" /\ KeepsSingle
      BY <3>1, <3>2 DEF KeepsSingle, OneAtATime
    <3> QED BY <2>1, <3>2, CycleActive
  <2>2. CASE UNCHANGED <<active, pc>>
    BY <2>2 DEF OneAtATime
  <2> QED BY <2>1, <2>2 DEF Next, vars, SetBehavior, Send, Close
<1> QED BY <1>1, <1>2, InitIInv, NextIInv, PTL DEF Spec

-----------------------------------------------------------------------------
(* Final sessions are noticed.                                             *)

\* While the sessions are cycled and nothing has failed, every session in a
\* final state has been found, or is still to be visited, or is the current
\* one.
FinalsKnown ==
    pc = "sessions" /\ result =>
        \A s \in Ids(active) :
            IsStateFinal(active[s].st) => s \in todo \cup finals \cup {cur}

\* Unless a cycle failed, it leaves no final session in activeCommands_.
THEOREM FinalSessionsErased == Spec => []FinalOnlyAfterFailure
<1> DEFINE FInv == FinalsKnown /\ FinalOnlyAfterFailure
<1>1. Init => FInv
  BY NobodyFacts DEF Init, FinalsKnown, FinalOnlyAfterFailure
<1>2. IInv /\ FInv /\ [Next]_vars => FInv'
  <2> SUFFICES ASSUME IInv, FInv, [Next]_vars PROVE FInv'
    OBVIOUS
  <2>1. CASE Proceed(active')
    BY <2>1 DEF Proceed, FinalsKnown, FinalOnlyAfterFailure
  <2>2. CASE pc' \notin {"idle", "sessions"}
    BY <2>2 DEF FinalsKnown, FinalOnlyAfterFailure
  <2>3. CASE UNCHANGED <<active, pc, todo, finals, cur, result>>
    BY <2>3 DEF FinalsKnown, FinalOnlyAfterFailure
  <2>4. CASE \E s \in Sessions : CycleSession(s)
    <3>1. PICK s \in Sessions : CycleSession(s)
      BY <2>4
    <3>2. PICK o \in HandleState(active[s]) :
            /\ active' = [active EXCEPT ![s] = o.to]
            /\ cur' = IF Again(active[s], o) THEN s ELSE None
            /\ todo' = IF o.ok THEN todo \ {s} ELSE {}
            /\ result' = (result /\ o.ok)
      BY <3>1 DEF CycleSession
    <3>3. /\ pc = "sessions" /\ pc' = "sessions"
          /\ cur = s \/ cur = None
          /\ finals' = finals \cup {t \in {s} : IsStateFinal(active[t].st)}
      BY <3>1 DEF CycleSession
    <3>4. \A t \in Sessions \ {s} : active'[t] = active[t]
      BY <3>2 DEF IInv, TypeOK
    <3>5. active'[s] = o.to
      BY <3>2 DEF IInv, TypeOK
    <3>6. SUFFICES ASSUME result', NEW t \in Ids(active'),
                          IsStateFinal(active'[t].st)
                   PROVE  t \in todo' \cup finals' \cup {cur'}
      BY <3>3 DEF FinalsKnown, FinalOnlyAfterFailure
    <3>7. result /\ o.ok /\ t \in Sessions
      BY <3>2, <3>6 DEF Ids, IInv, TypeOK
    <3>8. CASE t # s
      <4>1. t \in Ids(active) /\ IsStateFinal(active[t].st)
        BY <3>4, <3>6, <3>7, <3>8 DEF Ids, IsActive
      <4>2. t \in todo \cup finals \cup {cur}
        BY <3>3, <3>7, <4>1 DEF FinalsKnown
      <4>3. t # cur
        BY <3>3, <3>7, <3>8, ProviderAssumption DEF ProviderAssumption
      <4> QED BY <3>2, <3>3, <3>7, <3>8, <4>2, <4>3
    <3>9. CASE t = s
      BY <3>2, <3>3, <3>5, <3>6, <3>7, <3>9 DEF Again
    <3> QED BY <3>8, <3>9
  <2>5. CASE EndCycle
    <3> DEFINE left == [s \in Sessions |-> IF s \in finals THEN NoSession
                                           ELSE active[s]]
    <3>1. /\ pc = "sessions" /\ cur = None /\ todo = {}
          /\ pc' = "idle" /\ result' = result
      BY <2>5 DEF EndCycle
    <3>2. SUFFICES ASSUME result, NEW s \in Ids(active')
                   PROVE  ~IsStateFinal(active'[s].st)
      BY <3>1 DEF FinalsKnown, FinalOnlyAfterFailure
    <3>3. \A t \in Ids(left) : ~IsStateFinal(left[t].st)
      <4> SUFFICES ASSUME NEW t \in Ids(left) PROVE ~IsStateFinal(left[t].st)
        OBVIOUS
      <4>1. t \in Ids(active) /\ t \notin finals /\ left[t] = active[t]
        BY DEF Ids, IsActive, NoSession
      <4>2. t # None
        BY <4>1, ProviderAssumption DEF Ids, ProviderAssumption
      <4> QED BY <3>1, <3>2, <4>1, <4>2 DEF FinalsKnown
    <3>4. CASE active' = left
      BY <3>2, <3>3, <3>4
    <3>5. CASE Promotes(left) /\ active' = [left EXCEPT ![Head(queue)] = Fresh]
      <4>1. Ids(left) = {} /\ s \in Sessions
        BY <3>5 DEF Promotes, Ids
      <4>2. s = Head(queue)
        BY <3>2, <3>5, <4>1 DEF Ids, IsActive
      <4>3. active'[s] = Fresh
        BY <3>5, <4>1, <4>2
      <4> QED BY <4>3 DEF Fresh, IsStateFinal, NonFinal
    <3> QED BY <2>5, <3>4, <3>5 DEF EndCycle
  <2>6. CASE AbortDone
    BY <2>6, NobodyFacts DEF AbortDone, FinalsKnown, FinalOnlyAfterFailure
  <2>7. CASE \E s \in Sessions : Incoming(s) \/ Reissue(s)
    <3>1. PICK s \in Sessions : Incoming(s) \/ Reissue(s)
      BY <2>7
    <3>2. Proceed(active') \/ GiveUp(active') \/ pc' \in {"reissue", "preempt"}
      BY <3>1 DEF Incoming, CancelActive, CancelQueued, CancelUnknown, Update,
                  Accept, Reject, Enqueue, Preempt, Add, Reissue
    <3> QED BY <2>1, <2>2, <3>2 DEF GiveUp
  <2>8. CASE OnCycle \/ ReadError \/ ReadNothing
    <3>1. pc' = "read" \/ Proceed(active') \/ GiveUp(active)
      BY <2>8 DEF OnCycle, ReadError, ReadNothing
    <3> QED BY <2>1, <2>2, <3>1 DEF GiveUp
  <2>9. CASE (\E t \in Sessions : PreemptOne(t)) \/ PreemptDone
    <3>1. pc' = "preempt" \/ Proceed(active') \/ GiveUp(active') \/ GiveUp(Nobody)
      BY <2>9 DEF PreemptOne, PreemptDone, Add
    <3> QED BY <2>1, <2>2, <3>1 DEF GiveUp
  <2>10. CASE \E s \in Sessions : AbortOne(s)
    BY <2>2, <2>10 DEF AbortOne
  <2>11. CASE (\E b \in Behaviors : SetBehavior(b)) \/ UNCHANGED vars
              \/ \E s \in Sessions : Send(s) \/ Close(s)
    BY <2>3, <2>11 DEF SetBehavior, Send, Close, vars, loopVars
  <2> QED BY <2>4, <2>5, <2>6, <2>7, <2>8, <2>9, <2>10, <2>11
          DEF Next, Cycle
<1> QED BY <1>1, <1>2, InitIInv, NextIInv, PTL DEF Spec

-----------------------------------------------------------------------------
(* No instance outlives its session.                                       *)

Visible(b, s) == b[s].alive \/ b[s].ack \/ b[s].exe

LEMMA HeldVisible ==
    InstancesHeld <=> \A s \in Sessions : Visible(bus, s) => s \in Held
BY DEF InstancesHeld, Visible

\* The sessions in the queue before and after each change of it.
LEMMA QueueElements ==
    ASSUME NEW q \in Seq(Sessions), NEW s \in Sessions
    PROVE  /\ q # <<>> => ToSet(q) \subseteq {Head(q)} \cup ToSet(Tail(q))
           /\ ToSet(q) \cup {s} \subseteq ToSet(Append(q, s))
           /\ s \in ToSet(q) => ToSet(q) \subseteq {s} \cup ToSet(RemoveFirst(q, s))
<1>0. Len(q) \in Nat /\ DOMAIN q = 1 .. Len(q)
  BY LenProperties
<1>1. ASSUME q # <<>>
      PROVE  ToSet(q) \subseteq {Head(q)} \cup ToSet(Tail(q))
  <2>1. /\ Tail(q) \in Seq(Sessions) /\ Len(Tail(q)) = Len(q) - 1
        /\ \A i \in 1 .. Len(Tail(q)) : Tail(q)[i] = q[i + 1]
    BY <1>1, HeadTailProperties
  <2>2. DOMAIN Tail(q) = 1 .. Len(q) - 1 /\ Head(q) = q[1]
    BY <2>1, LenProperties
  <2>4. ASSUME NEW i \in 1 .. Len(q)
        PROVE  q[i] \in {Head(q)} \cup ToSet(Tail(q))
    <3>1. CASE i = 1
      BY <2>2, <3>1
    <3>2. CASE i # 1
      <4>1. i - 1 \in 1 .. Len(q) - 1 /\ (i - 1) + 1 = i
        BY <1>0, <3>2
      <4>2. Tail(q)[i - 1] = q[i]
        BY <2>1, <4>1
      <4> QED BY <2>2, <4>1, <4>2 DEF ToSet
    <3> QED BY <3>1, <3>2
  <2> QED BY <1>0, <2>4 DEF ToSet
<1>2. ToSet(q) \cup {s} \subseteq ToSet(Append(q, s))
  <2>1. /\ Append(q, s) \in Seq(Sessions) /\ Len(Append(q, s)) = Len(q) + 1
        /\ \A i \in 1 .. Len(q) : Append(q, s)[i] = q[i]
        /\ Append(q, s)[Len(q) + 1] = s
    BY AppendProperties
  <2>2. DOMAIN Append(q, s) = 1 .. Len(q) + 1
    BY <2>1, LenProperties
  <2> QED BY <1>0, <2>1, <2>2 DEF ToSet
<1>3. ASSUME s \in ToSet(q)
      PROVE  ToSet(q) \subseteq {s} \cup ToSet(RemoveFirst(q, s))
  <2>1. PICK i \in 1 .. Len(q) : q[i] = s /\ RemoveFirst(q, s) = RemoveAt(q, i)
    BY <1>3, RemoveFirstFacts
  <2> DEFINE r == RemoveAt(q, i)
  <2>2. /\ r \in Seq(Sessions) /\ Len(r) = Len(q) - 1
        /\ \A j \in 1 .. i - 1 : r[j] = q[j]
        /\ \A j \in i .. Len(q) - 1 : r[j] = q[j + 1]
    BY RemoveAtFacts
  <2>3. DOMAIN r = 1 .. Len(q) - 1
    BY <2>2, LenProperties
  <2> HIDE DEF r
  <2>4. ASSUME NEW j \in 1 .. Len(q)
        PROVE  q[j] \in {s} \cup ToSet(r)
    <3>1. CASE j < i
      <4>1. j \in 1 .. i - 1 /\ j \in 1 .. Len(q) - 1
        BY <1>0, <3>1
      <4> QED BY <2>2, <2>3, <4>1 DEF ToSet
    <3>2. CASE j = i
      BY <2>1, <3>2
    <3>3. CASE j > i
      <4>1. j - 1 \in i .. Len(q) - 1 /\ j - 1 \in 1 .. Len(q) - 1
            /\ (j - 1) + 1 = j
        BY <1>0, <3>3
      <4>2. r[j - 1] = q[j]
        BY <2>2, <4>1
      <4> QED BY <2>3, <4>1, <4>2 DEF ToSet
    <3> QED BY <1>0, <3>1, <3>2, <3>3
  <2> QED BY <1>0, <2>1, <2>4 DEF ToSet, r
<1> QED BY <1>1, <1>2, <1>3

\* A handler's outcome is shown for a session the provider goes on to hold.
LEMMA ShownHeld ==
    ASSUME IInv, InstancesHeld, NEW s \in Sessions, NEW o \in Outcome,
           bus' = Show(bus, s, o), Held \subseteq Held', s \in Held'
    PROVE  InstancesHeld'
<1>1. \A t \in Sessions \ {s} : bus'[t] = bus[t]
  BY ShowFacts DEF IInv, TypeOK, Buses
<1> QED BY <1>1 DEF InstancesHeld

\* The instances of the sessions in D are disposed, and the others that are
\* seen belong to sessions the provider goes on to hold.
LEMMA DisposedHeld ==
    ASSUME NEW b \in Buses, NEW D, bus' = Dispose(b, D),
           \A t \in Sessions \ D : Visible(b, t) => t \in Held'
    PROVE  InstancesHeld'
BY DisposeFacts DEF InstancesHeld, Visible

LEMMA AddHeld ==
    ASSUME NEW b \in Buses, NEW act \in States, NEW s \in Sessions,
           Add(b, act, s), UNCHANGED queue,
           \A t \in Sessions : Visible(b, t) => t \in Ids(act) \cup Queued
    PROVE  InstancesHeld'
<1>1. /\ \A t \in Sessions \ {s} : bus'[t] = b[t]
      /\ Ids(active') = Ids(act) \cup {s}
  BY AddFacts
<1>2. Held' = Ids(act) \cup {s} \cup Queued
  BY <1>1 DEF Held, Queued
<1> QED BY <1>1, <1>2 DEF InstancesHeld, Visible

LEMMA CancelActiveHeld ==
    ASSUME IInv, InstancesHeld, NEW s \in Sessions, CancelActive(s)
    PROVE  InstancesHeld'
<1> DEFINE promoted == IF queue = <<>> THEN {} ELSE {Head(queue)}
           dropped(o) == (promoted \cap Ids(active))
                         \cup (IF o.ok THEN {s} ELSE {})
           left(o) == [t \in Sessions |->
                          IF o.ok /\ t = s THEN NoSession
                          ELSE IF t \in promoted THEN Fresh
                          ELSE IF t = s THEN o.to ELSE active[t]]
<1>1. PICK o \in HandleCancel(active[s]) :
        /\ active' = left(o)
        /\ queue' = IF queue = <<>> THEN queue ELSE Tail(queue)
        /\ bus' = Dispose(Show(bus, s, o), dropped(o))
  BY DEF CancelActive
<1>2. active \in States /\ bus \in Buses /\ active[s] \in CommandState
  BY ActiveFacts DEF CancelActive, IInv, TypeOK, States, Buses
<1>3. o \in Outcome /\ o.to \in CommandState
  BY <1>2, CancelOutcome DEF Outcome
<1>4. Show(bus, s, o) \in Buses
      /\ \A t \in Sessions \ {s} : Show(bus, s, o)[t] = bus[t]
  BY <1>2, <1>3, ShowFacts
<1>5. ASSUME NEW t \in Sessions \ dropped(o), Visible(Show(bus, s, o), t)
      PROVE  t \in Held'
  <2>1. CASE t = s
    <3>1. ~o.ok /\ active'[s].st # "NONE"
      BY <1>1, <1>3, <1>5, <2>1, MachineStates
    <3> QED BY <2>1, <3>1 DEF Held, Ids, IsActive
  <2>2. CASE t # s
    <3>1. t \in Ids(active) \/ t \in ToSet(queue)
      BY <1>4, <1>5, <2>2 DEF InstancesHeld, Visible, Held, Queued
    <3>2. CASE t \in promoted
      <4>1. active'[t] = Fresh
        BY <1>1, <2>2, <3>2
      <4> QED BY <4>1, MachineStates DEF Held, Ids, IsActive
    <3>3. CASE t \in Ids(active) /\ t \notin promoted
      <4>1. active'[t] = active[t]
        BY <1>1, <2>2, <3>3
      <4> QED BY <3>3, <4>1 DEF Held, Ids, IsActive
    <3>4. CASE t \in ToSet(queue) /\ t \notin promoted
      <4>1. queue # <<>> => ToSet(queue) \subseteq {Head(queue)} \cup ToSet(Tail(queue))
        BY QueueElements DEF IInv, TypeOK
      <4>2. t \in ToSet(queue')
        BY <1>1, <3>4, <4>1
      <4> QED BY <4>2 DEF Held, Queued
    <3> QED BY <3>1, <3>2, <3>3, <3>4
  <2> QED BY <2>1, <2>2
<1> HIDE DEF dropped
<1> QED BY <1>1, <1>4, <1>5, DisposedHeld

LEMMA IncomingHeld ==
    ASSUME IInv, InstancesHeld, NEW s \in Sessions, Incoming(s)
    PROVE  InstancesHeld'
<1>0. active \in States /\ bus \in Buses /\ queue \in Seq(Sessions)
  BY DEF IInv, TypeOK, States, Buses
<1>1. CASE CancelActive(s)
  BY <1>1, CancelActiveHeld
<1>2. CASE CancelQueued(s)
  <2>1. PICK o \in HandleCancel(Fresh) : bus' = Dispose(Show(bus, s, o), {s})
    BY <1>2 DEF CancelQueued
  <2>2. o \in Outcome
    BY CancelOutcome, MachineStates
  <2>3. Show(bus, s, o) \in Buses
        /\ \A t \in Sessions \ {s} : Show(bus, s, o)[t] = bus[t]
    BY <1>0, <2>2, ShowFacts
  <2>4. Queued \subseteq {s} \cup Queued' /\ active' = active
    BY <1>0, <1>2, QueueElements DEF CancelQueued, Queued
  <2>5. \A t \in Sessions \ {s} : Visible(Show(bus, s, o), t) => t \in Held'
    BY <2>3, <2>4 DEF InstancesHeld, Visible, Held
  <2> QED BY <2>1, <2>3, <2>5, DisposedHeld
<1>3. CASE CancelUnknown(s) \/ Preempt(s)
  BY <1>3 DEF CancelUnknown, Preempt, InstancesHeld, Held, Queued
<1>4. CASE Update(s)
  <2>1. PICK o \in HandleUpdate(active[s]) :
          active' = [active EXCEPT ![s] = o.to] /\ bus' = Show(bus, s, o)
    BY <1>4 DEF Update
  <2>2. active[s] \in CommandState /\ s \in Ids(active) /\ queue' = queue
    BY <1>0, <1>4, ActiveFacts DEF Update
  <2>3. o \in Outcome /\ o.to \in CommandState
    BY <2>2, UpdateOutcome DEF Outcome
  <2>4. Ids(active') = Ids(active)
    BY <1>0, <2>1, <2>2, <2>3, SetState
  <2>5. Held' = Held /\ s \in Held
    BY <2>2, <2>4 DEF Held, Queued
  <2> QED BY <2>1, <2>3, <2>5, ShownHeld
<1>5. CASE Accept(s)
  <2>1. Add(bus, active, s) /\ UNCHANGED queue
    BY <1>5 DEF Accept
  <2> QED BY <1>0, <2>1, HeldVisible, AddHeld DEF Held
<1>6. CASE Reject(s)
  <2> DEFINE refused(failed) == [to |-> Failed("SERVICE_FAILED"), ok |-> TRUE,
                                 sent |-> failed, exe |-> FALSE]
  <2>1. PICK status \in May("send"), ack \in May("send"), failed \in May("send") :
          bus' = Dispose(Show(Greet(bus, s, status, ack), s, refused(failed)), {s})
    BY <1>6 DEF Reject
  <2>2. status \in BOOLEAN /\ ack \in BOOLEAN /\ failed \in BOOLEAN
    BY MayIsBoolean
  <2>3. refused(failed) \in Outcome
    BY <2>2, MachineStates DEF Outcome, FailureReasons
  <2>4. PICK b \in Buses : /\ bus' = Dispose(b, {s})
                           /\ \A t \in Sessions \ {s} : b[t] = bus[t]
    BY <1>0, <2>1, <2>2, <2>3, GreetFacts, ShowFacts
  <2>5. Held' = Held
    BY <1>6 DEF Reject, Held, Queued
  <2>6. \A t \in Sessions \ {s} : Visible(b, t) => t \in Held'
    BY <2>4, <2>5, HeldVisible DEF Visible
  <2> QED BY <2>4, <2>6, DisposedHeld
<1>7. CASE Enqueue(s)
  <2>1. PICK status \in May("send"), ack \in May("send") :
          bus' = Greet(bus, s, status, ack)
    BY <1>7 DEF Enqueue
  <2>2. \A t \in Sessions \ {s} : bus'[t] = bus[t]
    BY <1>0, <2>1, MayIsBoolean, GreetFacts
  <2>3. Held \subseteq Held' /\ s \in Held'
    BY <1>0, <1>7, QueueElements DEF Enqueue, Held, Queued
  <2> QED BY <2>2, <2>3 DEF InstancesHeld
<1> QED BY <1>1, <1>2, <1>3, <1>4, <1>5, <1>6, <1>7 DEF Incoming

\* Every path that forgets a session, failed cycles included, disposes its
\* status, its ack and its execution status.
THEOREM NoOrphanInstances == Spec => []InstancesHeld
<1>1. Init => InstancesHeld
  BY DEF Init, InstancesHeld, NeverWritten
<1>2. IInv /\ InstancesHeld /\ [Next]_vars => InstancesHeld'
  <2> SUFFICES ASSUME IInv, InstancesHeld, [Next]_vars PROVE InstancesHeld'
    OBVIOUS
  <2>0. active \in States /\ bus \in Buses
    BY DEF IInv, TypeOK, States, Buses
  <2>1. CASE UNCHANGED <<active, queue, bus>>
    BY <2>1 DEF InstancesHeld, Held, Queued
  <2>2. CASE \E s \in Sessions : Incoming(s)
    BY <2>2, IncomingHeld
  <2>3. ASSUME NEW s \in Ids(active), NEW o \in Outcome,
               active' \in {active, [active EXCEPT ![s] = o.to]},
               bus' = Show(bus, s, o), UNCHANGED queue
        PROVE  InstancesHeld'
    <3>1. s \in Sessions /\ o.to \in CommandState
      BY <2>0, <2>3, ActiveFacts DEF Outcome
    <3>2. Ids(active') = Ids(active)
      BY <2>0, <2>3, <3>1, SetState
    <3>3. Held' = Held /\ s \in Held
      BY <2>3, <3>2 DEF Held, Queued
    <3> QED BY <2>3, <3>1, <3>3, ShownHeld
  <2>4. CASE \E s \in Sessions : Reissue(s)
    <3>0. PICK s \in Sessions : Reissue(s)
      BY <2>4
    <3>1. PICK o \in HandleIssued(active[s]) :
            /\ pc = "reissue" /\ cur = s /\ UNCHANGED queue
            /\ active' = [active EXCEPT ![s] = o.to]
            /\ bus' = Show(bus, s, o)
      BY <3>0 DEF Reissue
    <3>2. s \in Ids(active) /\ active[s] = Updated
      BY <3>1 DEF IInv, LoopOK
    <3>3. o \in Outcome
      BY <3>1, <3>2, IssuedOutcome, MachineStates DEF Updated, NonFinal
    <3> QED BY <2>3, <3>1, <3>2, <3>3
  <2>5. CASE \E s \in Sessions : CycleSession(s)
    <3>0. PICK s \in Sessions : CycleSession(s)
      BY <2>5
    <3>1. PICK o \in HandleState(active[s]) :
            /\ pc = "sessions" /\ (cur = s \/ s \in todo) /\ UNCHANGED queue
            /\ active' = [active EXCEPT ![s] = o.to]
            /\ bus' = Show(bus, s, o)
      BY <3>0 DEF CycleSession
    <3>2. s \in Ids(active)
      BY <3>1, ProviderAssumption DEF IInv, LoopOK, ProviderAssumption
    <3>3. o \in Outcome
      BY <2>0, <3>1, <3>2, ActiveFacts, StateOutcome
    <3> QED BY <2>3, <3>1, <3>2, <3>3
  <2>6. CASE \E s \in Sessions : AbortOne(s)
    <3>0. PICK s \in Sessions : AbortOne(s)
      BY <2>6
    <3>1. PICK o \in HandleFailure(active[s], "SERVICE_FAILED") :
            /\ pc = "abort" /\ s \in todo /\ UNCHANGED queue
            /\ active' = [active EXCEPT ![s] = o.to]
            /\ bus' = Show(bus, s, o)
      BY <3>0 DEF AbortOne
    <3>2. s \in Ids(active)
      BY <3>1 DEF IInv, LoopOK
    <3>3. o \in Outcome
      BY <2>0, <3>1, <3>2, ActiveFacts, FailureOutcome DEF FailureReasons
    <3> QED BY <2>3, <3>1, <3>2, <3>3
  <2>7. CASE \E t \in Sessions : PreemptOne(t)
    <3>0. PICK t \in Sessions : PreemptOne(t)
      BY <2>7
    <3>1. PICK o \in IF behavior = "CANCEL_EXISTING" THEN HandleCancel(active[t])
                   ELSE CompleteExisting :
            /\ pc = "preempt" /\ t \in todo /\ UNCHANGED queue
            /\ \/ /\ active' \in {active, [active EXCEPT ![t] = o.to]}
                  /\ bus' = Show(bus, t, o)
               \/ bus' = Dispose(Show(bus, t, o), Ids(active))
      BY <3>0 DEF PreemptOne
    <3>2. t \in Ids(active) /\ active[t] \in CommandState
      BY <2>0, <3>1, ActiveFacts DEF IInv, LoopOK
    <3>3. [st |-> "COMPLETED", why |-> "SUCCEEDED"] \in CommandState
      BY DEF CommandState, Statuses, Reasons
    <3>4. o \in Outcome
      BY <3>1, <3>2, <3>3, CancelOutcome, AnnounceOutcome DEF CompleteExisting
    <3>5. CASE bus' = Dispose(Show(bus, t, o), Ids(active))
      <4>1. Show(bus, t, o) \in Buses
            /\ \A s \in Sessions \ {t} : Show(bus, t, o)[s] = bus[s]
        BY <2>0, <3>4, ShowFacts
      <4>2. \A s \in Sessions \ Ids(active) :
              Visible(Show(bus, t, o), s) => s \in Queued
        BY <3>2, <4>1, HeldVisible DEF Visible, Held
      <4>3. Queued' = Queued
        BY <3>1 DEF Queued
      <4> QED BY <3>5, <4>1, <4>2, <4>3, DisposedHeld DEF Held
    <3> QED BY <2>3, <3>1, <3>2, <3>4, <3>5
  <2>8. CASE PreemptDone
    <3>1. /\ cur \in Sessions /\ UNCHANGED queue
          /\ Add(Dispose(bus, Ids(active)), Nobody, cur)
      BY <2>8 DEF PreemptDone, IInv, LoopOK
    <3>2. Dispose(bus, Ids(active)) \in Buses
          /\ \A t \in Sessions : Visible(Dispose(bus, Ids(active)), t) => t \in Queued
      BY <2>0, DisposeFacts, HeldVisible DEF Visible, Held
    <3> QED BY <3>1, <3>2, NobodyFacts, AddHeld
  <2>9. CASE AbortDone
    <3>1. bus' = Dispose(bus, Ids(active)) /\ Queued' = Queued
      BY <2>9 DEF AbortDone, Queued
    <3>2. \A t \in Sessions \ Ids(active) : Visible(bus, t) => t \in Held'
      BY <3>1, HeldVisible DEF Held
    <3> QED BY <2>0, <3>1, <3>2, DisposedHeld
  <2>10. CASE EndCycle
    <3> DEFINE left == [s \in Sessions |-> IF s \in finals THEN NoSession
                                           ELSE active[s]]
    <3>1. bus' = Dispose(bus, finals)
      BY <2>10 DEF EndCycle
    <3>2. left \in States /\ Ids(active) \ finals \subseteq Ids(left)
      BY <2>0 DEF States, Ids, IsActive
    <3>3. Held \ finals \subseteq Held'
      <4> HIDE DEF left
      <4>1. CASE active' = left /\ queue' = queue
        BY <3>2, <4>1 DEF Held, Queued
      <4>2. CASE /\ Promotes(left) /\ queue' = Tail(queue)
                 /\ active' = [left EXCEPT ![Head(queue)] = Fresh]
        <5>1. Head(queue) \in Sessions /\ queue # <<>>
          BY <4>2, QueueFacts DEF IInv, Promotes
        <5>2. Ids(active') = Ids(left) \cup {Head(queue)}
          BY <3>2, <4>2, <5>1, SetState, MachineStates
        <5>3. Queued \subseteq {Head(queue)} \cup Queued'
          BY <4>2, <5>1, QueueElements DEF IInv, TypeOK, Queued
        <5> QED BY <3>2, <5>2, <5>3 DEF Held
      <4> QED BY <2>10, <4>1, <4>2 DEF EndCycle, left
    <3>4. \A t \in Sessions \ finals : Visible(bus, t) => t \in Held'
      BY <3>3, HeldVisible
    <3> QED BY <2>0, <3>1, <3>4, DisposedHeld
  <2> QED BY <2>1, <2>2, <2>4, <2>5, <2>6, <2>7, <2>8, <2>9, <2>10
          DEF Next, Cycle, OnCycle, ReadError, ReadNothing, SetBehavior, Send,
              Close, vars
<1> QED BY <1>1, <1>2, InitIInv, NextIInv, PTL DEF Spec

-----------------------------------------------------------------------------
(* A terminal status is the last one.                                      *)

\* What one handler's outcome, and a greeting, write.
LEMMA ShownStatus ==
    ASSUME NEW b \in Buses, NEW s \in Sessions, NEW o \in Outcome
    PROVE  /\ Show(b, s, o)[s].st  = IF o.sent THEN o.to.st  ELSE b[s].st
           /\ Show(b, s, o)[s].why = IF o.sent THEN o.to.why ELSE b[s].why
           /\ Show(b, s, o)[s].alive <=> b[s].alive \/ o.sent
BY DEF Show, Buses

LEMMA GreetedStatus ==
    ASSUME NEW b \in Buses, NEW s \in Sessions,
           NEW status \in BOOLEAN, NEW ack \in BOOLEAN
    PROVE  /\ Greet(b, s, status, ack)[s].st  = IF status THEN "ISSUED" ELSE b[s].st
           /\ Greet(b, s, status, ack)[s].why = IF status THEN "SUCCEEDED" ELSE b[s].why
           /\ Greet(b, s, status, ack)[s].alive <=> b[s].alive \/ status
           /\ Greet(b, s, status, ack)[s].ack <=> b[s].ack \/ ack
<1> DEFINE o == [to |-> Fresh, ok |-> TRUE, sent |-> status, exe |-> FALSE]
<1>1. o \in Outcome /\ o.sent = status /\ o.to = Fresh
  BY MachineStates DEF Outcome
<1> HIDE DEF o
<1>2. PICK B \in Buses : B = Show(b, s, o)
  BY <1>1, ShowFacts
<1>3. Greet(b, s, status, ack) = [B EXCEPT ![s].ack = @ \/ ack]
  BY <1>2 DEF Greet, o
<1>4. /\ B[s].st = IF status THEN "ISSUED" ELSE b[s].st
      /\ B[s].why = IF status THEN "SUCCEEDED" ELSE b[s].why
      /\ B[s].alive <=> b[s].alive \/ status
      /\ B[s].ack = b[s].ack
  BY <1>1, <1>2, ShownStatus, ShowFacts DEF Fresh
<1> QED BY <1>3, <1>4 DEF Buses, Instances

\* A command in a final state is left alone by every handler.
LEMMA FinalRefuses ==
    ASSUME NEW c \in CommandState, IsStateFinal(c.st),
           NEW o \in HandleCancel(c) \cup HandleFailure(c, "SERVICE_FAILED")
                     \cup HandleUpdate(c) \cup HandleState(c)
    PROVE  o.to = c /\ ~o.sent
<1>1. \A ok : Quiet(c, ok).to = c /\ ~Quiet(c, ok).sent
  BY DEF Quiet
<1>2. HandleCancel(c) = {Quiet(c, TRUE)}
  BY DEF HandleCancel
<1>3. HandleFailure(c, "SERVICE_FAILED") = {Quiet(c, FALSE)}
  BY DEF HandleFailure, CanFail, FailableFrom, IsStateFinal
<1>4. HandleUpdate(c) = {Quiet(c, FALSE)}
  BY DEF HandleUpdate
<1>5. HandleState(c) = {Quiet(c, TRUE)}
  BY DEF HandleState, IsStateFinal, NonFinal
<1> QED BY <1>1, <1>2, <1>3, <1>4, <1>5

TermInv ==
    \A s \in Sessions :
        bus[s].alive /\ IsStateFinal(bus[s].st) =>
            s \in Ids(active) /\ IsStateFinal(active[s].st)

\* The status of t keeps its terminal value, and a terminal one is that of an active
\* command in a final state.
Fares(t) ==
    bus'[t].alive =>
        /\ bus[t].alive /\ IsStateFinal(bus[t].st) =>
               bus'[t].st = bus[t].st /\ bus'[t].why = bus[t].why
        /\ IsStateFinal(bus'[t].st) =>
               t \in Ids(active') /\ IsStateFinal(active'[t].st)

LEMMA FaresSame ==
    ASSUME TermInv, NEW t \in Sessions, bus'[t] = bus[t],
           t \in Ids(active) => t \in Ids(active') /\ active'[t] = active[t]
    PROVE  Fares(t)
BY DEF TermInv, Fares

\* A session that was not active is greeted.
LEMMA FaresGreeted ==
    ASSUME TermInv, NEW b \in Buses, NEW t \in Sessions \ Ids(active),
           NEW status \in BOOLEAN, NEW ack \in BOOLEAN,
           b[t] = bus[t], bus'[t] = Greet(b, t, status, ack)[t]
    PROVE  Fares(t)
<1>1. ~(bus[t].alive /\ IsStateFinal(bus[t].st))
  BY DEF TermInv
<1>2. /\ bus'[t].st = IF status THEN "ISSUED" ELSE bus[t].st
      /\ bus'[t].alive <=> bus[t].alive \/ status
  BY GreetedStatus
<1>3. ~IsStateFinal("ISSUED")
  BY DEF IsStateFinal, NonFinal
<1> QED BY <1>1, <1>2, <1>3 DEF Fares

\* A handler is called for an active session, which keeps the state it is given or
\* is disposed.
LEMMA FaresShown ==
    ASSUME IInv, TermInv, NEW s \in Ids(active), NEW o \in Outcome,
           IsStateFinal(active[s].st) => o.to = active[s] /\ ~o.sent,
           active'[s] = o.to, bus'[s] = Show(bus, s, o)[s]
    PROVE  Fares(s)
<1>1. s \in Sessions /\ bus \in Buses
  BY DEF IInv, TypeOK, Buses, Ids
<1>2. o.to.st # "NONE"
  BY MachineStates DEF Outcome
<1>3. s \in Ids(active')
  BY <1>1, <1>2 DEF Ids, IsActive
<1> QED BY <1>1, <1>3, ShownStatus DEF TermInv, Fares

LEMMA CancelActiveFares ==
    ASSUME IInv, TermInv, NEW s \in Sessions, CancelActive(s), NEW t \in Sessions
    PROVE  Fares(t)
<1> DEFINE promoted == IF queue = <<>> THEN {} ELSE {Head(queue)}
           dropped(o) == (promoted \cap Ids(active))
                         \cup (IF o.ok THEN {s} ELSE {})
           left(o) == [u \in Sessions |->
                          IF o.ok /\ u = s THEN NoSession
                          ELSE IF u \in promoted THEN Fresh
                          ELSE IF u = s THEN o.to ELSE active[u]]
<1>1. PICK o \in HandleCancel(active[s]) :
        /\ active' = left(o)
        /\ bus' = Dispose(Show(bus, s, o), dropped(o))
  BY DEF CancelActive
<1>2. active \in States /\ bus \in Buses /\ active[s] \in CommandState /\ s \in Ids(active)
  BY ActiveFacts DEF CancelActive, IInv, TypeOK, States, Buses
<1>3. o \in Outcome /\ o.to \in CommandState
  BY <1>2, CancelOutcome DEF Outcome
<1>4. Show(bus, s, o) \in Buses
      /\ \A u \in Sessions \ {s} : Show(bus, s, o)[u] = bus[u]
  BY <1>2, <1>3, ShowFacts
<1>5. CASE t \in dropped(o)
  <2>1. ~bus'[t].alive
    BY <1>1, <1>4, <1>5, DisposeFacts
  <2> QED BY <2>1 DEF Fares
<1>6. CASE t \notin dropped(o) /\ t = s
  <2>1. ~o.ok /\ s \notin promoted
    BY <1>2, <1>6
  <2>2. active'[s] = o.to
    BY <1>1, <2>1
  <2>3. bus'[s] = Show(bus, s, o)[s]
    BY <1>1, <1>4, <1>6, DisposeFacts
  <2>4. IsStateFinal(active[s].st) => o.to = active[s] /\ ~o.sent
    BY <1>1, <1>2, FinalRefuses
  <2> QED BY <1>2, <1>3, <1>6, <2>2, <2>3, <2>4, FaresShown
<1>7. CASE t \notin dropped(o) /\ t # s
  <2>1. bus'[t] = bus[t]
    BY <1>1, <1>4, <1>7, DisposeFacts
  <2>2. t \in Ids(active) => active'[t] = active[t]
    BY <1>1, <1>7
  <2> QED BY <2>1, <2>2, FaresSame DEF Ids, IsActive
<1> QED BY <1>5, <1>6, <1>7

LEMMA AddFares ==
    ASSUME IInv, TermInv, NEW b \in Buses, NEW act \in States, NEW s \in Sessions \ Ids(active),
           Add(b, act, s), b[s] = bus[s],
           \A t \in Sessions : t # s => \/ ~b[t].alive
                                        \/ b[t] = bus[t] /\ (t \in Ids(active) => act[t] = active[t])
    PROVE  \A t \in Sessions : Fares(t)
<1>1. PICK status \in May("send"), ack \in May("send") :
        /\ active' = [act EXCEPT ![s] = Fresh]
        /\ bus' = Greet(b, s, status, status /\ ack)
  BY DEF Add
<1>2. status \in BOOLEAN /\ (status /\ ack) \in BOOLEAN
  BY MayIsBoolean
<1>3. \A t \in Sessions \ {s} : bus'[t] = b[t] /\ active'[t] = act[t]
  <2>1. \A t \in Sessions \ {s} : bus'[t] = b[t]
    BY AddFacts
  <2>2. \A t \in Sessions \ {s} : active'[t] = act[t]
    BY <1>1 DEF States
  <2> QED BY <2>1, <2>2
<1>4. Fares(s)
  BY <1>1, <1>2, FaresGreeted
<1>5. ASSUME NEW t \in Sessions \ {s} PROVE Fares(t)
  <2>1. CASE ~b[t].alive
    BY <1>3, <2>1 DEF Fares
  <2>2. CASE b[t] = bus[t] /\ (t \in Ids(active) => act[t] = active[t])
    BY <1>3, <2>2, FaresSame DEF Ids, IsActive
  <2> QED BY <1>5, <2>1, <2>2
<1> QED BY <1>4, <1>5

LEMMA IncomingFares ==
    ASSUME IInv, TermInv, "COMPLETE_EXISTING" \notin Behaviors,
           NEW s \in Sessions, Incoming(s), NEW t \in Sessions
    PROVE  Fares(t)
<1>0. active \in States /\ bus \in Buses
  BY DEF IInv, TypeOK, States, Buses
<1>1. CASE CancelActive(s)
  BY <1>1, CancelActiveFares
<1>2. CASE CancelQueued(s)
  <2>1. PICK o \in HandleCancel(Fresh) : bus' = Dispose(Show(bus, s, o), {s})
    BY <1>2 DEF CancelQueued
  <2>2. o \in Outcome /\ active' = active
    BY <1>2, CancelOutcome, MachineStates DEF CancelQueued
  <2>3. Show(bus, s, o) \in Buses
        /\ \A u \in Sessions \ {s} : Show(bus, s, o)[u] = bus[u]
    BY <1>0, <2>2, ShowFacts
  <2>4. CASE t = s
    BY <2>1, <2>3, <2>4, DisposeFacts DEF Fares
  <2>5. CASE t # s
    <3>1. bus'[t] = bus[t]
      BY <2>1, <2>3, <2>5, DisposeFacts
    <3> QED BY <2>2, <3>1, FaresSame
  <2> QED BY <2>4, <2>5
<1>3. CASE CancelUnknown(s) \/ Preempt(s)
  BY <1>3, FaresSame DEF CancelUnknown, Preempt
<1>4. CASE Update(s)
  <2>1. PICK o \in HandleUpdate(active[s]) :
          active' = [active EXCEPT ![s] = o.to] /\ bus' = Show(bus, s, o)
    BY <1>4 DEF Update
  <2>2. active[s] \in CommandState /\ s \in Ids(active)
    BY <1>0, <1>4, ActiveFacts DEF Update
  <2>3. o \in Outcome
    BY <2>2, UpdateOutcome
  <2>4. IsStateFinal(active[s].st) => o.to = active[s] /\ ~o.sent
    BY <2>1, <2>2, FinalRefuses
  <2>5. active'[s] = o.to /\ \A u \in Sessions \ {s} : active'[u] = active[u] /\ bus'[u] = bus[u]
    BY <1>0, <2>1, <2>3, ShowFacts DEF States
  <2>6. CASE t = s
    BY <2>1, <2>2, <2>3, <2>4, <2>5, <2>6, FaresShown
  <2>7. CASE t # s
    BY <2>5, <2>7, FaresSame DEF Ids, IsActive
  <2> QED BY <2>6, <2>7
<1>5. CASE Accept(s)
  <2>1. Add(bus, active, s) /\ s \notin Ids(active)
    BY <1>5 DEF Accept, New, Ids
  <2> QED BY <1>0, <2>1, AddFares
<1>6. CASE Reject(s)
  <2> DEFINE refused(failed) == [to |-> Failed("SERVICE_FAILED"), ok |-> TRUE,
                                 sent |-> failed, exe |-> FALSE]
  <2>1. PICK status \in May("send"), ack \in May("send"), failed \in May("send") :
          bus' = Dispose(Show(Greet(bus, s, status, ack), s, refused(failed)), {s})
    BY <1>6 DEF Reject
  <2>2. status \in BOOLEAN /\ ack \in BOOLEAN /\ failed \in BOOLEAN
    BY MayIsBoolean
  <2>3. refused(failed) \in Outcome
    BY <2>2, MachineStates DEF Outcome, FailureReasons
  <2>4. PICK b \in Buses : /\ bus' = Dispose(b, {s})
                           /\ \A u \in Sessions \ {s} : b[u] = bus[u]
    BY <1>0, <2>1, <2>2, <2>3, GreetFacts, ShowFacts
  <2>5. active' = active
    BY <1>6 DEF Reject
  <2>6. CASE t = s
    BY <2>4, <2>6, DisposeFacts DEF Fares
  <2>7. CASE t # s
    <3>1. bus'[t] = bus[t]
      BY <2>4, <2>7, DisposeFacts
    <3> QED BY <2>5, <3>1, FaresSame
  <2> QED BY <2>6, <2>7
<1>7. CASE Enqueue(s)
  <2>1. PICK status \in May("send"), ack \in May("send") :
          bus' = Greet(bus, s, status, ack)
    BY <1>7 DEF Enqueue
  <2>2. status \in BOOLEAN /\ ack \in BOOLEAN /\ active' = active /\ s \notin Ids(active)
    BY <1>7, MayIsBoolean DEF Enqueue, New, Ids
  <2>3. CASE t = s
    BY <1>0, <2>1, <2>2, <2>3, FaresGreeted
  <2>4. CASE t # s
    BY <1>0, <2>1, <2>2, <2>4, GreetFacts, FaresSame
  <2> QED BY <2>3, <2>4
<1> QED BY <1>1, <1>2, <1>3, <1>4, <1>5, <1>6, <1>7 DEF Incoming

\* A handler called in a loop of cycle().
LEMMA HandledFares ==
    ASSUME IInv, TermInv, NEW s \in Ids(active), NEW o \in Outcome,
           IsStateFinal(active[s].st) => o.to = active[s] /\ ~o.sent,
           active' = [active EXCEPT ![s] = o.to], bus' = Show(bus, s, o)
    PROVE  \A t \in Sessions : Fares(t)
<1>0. active \in States /\ bus \in Buses /\ s \in Sessions
  BY DEF IInv, TypeOK, States, Buses, Ids
<1>1. active'[s] = o.to
      /\ \A u \in Sessions \ {s} : active'[u] = active[u] /\ bus'[u] = bus[u]
  BY <1>0, ShowFacts DEF States
<1>2. Fares(s)
  BY <1>1, FaresShown
<1>3. \A u \in Sessions \ {s} : Fares(u)
  BY <1>1, FaresSame DEF Ids, IsActive
<1> QED BY <1>2, <1>3

LEMMA CycleFares ==
    ASSUME IInv, TermInv, "COMPLETE_EXISTING" \notin Behaviors, Cycle
    PROVE  \A t \in Sessions : Fares(t)
<1>0. active \in States /\ bus \in Buses
  BY DEF IInv, TypeOK, States, Buses
<1>1. CASE OnCycle \/ ReadError \/ ReadNothing
  BY <1>1, FaresSame DEF OnCycle, ReadError, ReadNothing
<1>2. CASE \E s \in Sessions : Incoming(s)
  BY <1>2, IncomingFares
<1>3. CASE \E s \in Sessions : Reissue(s)
  <2>0. PICK s \in Sessions : Reissue(s)
    BY <1>3
  <2>1. PICK o \in HandleIssued(active[s]) :
          /\ active' = [active EXCEPT ![s] = o.to]
          /\ bus' = Show(bus, s, o)
    BY <2>0 DEF Reissue
  <2>2. s \in Ids(active) /\ active[s] = Updated
    BY <2>0 DEF Reissue, IInv, LoopOK
  <2>3. o \in Outcome /\ ~IsStateFinal(active[s].st)
    BY <2>1, <2>2, IssuedOutcome, MachineStates DEF Updated, NonFinal, IsStateFinal
  <2> QED BY <2>1, <2>2, <2>3, HandledFares
<1>4. CASE \E s \in Sessions : CycleSession(s)
  <2>0. PICK s \in Sessions : CycleSession(s)
    BY <1>4
  <2>1. PICK o \in HandleState(active[s]) :
          /\ pc = "sessions" /\ (cur = s \/ s \in todo)
          /\ active' = [active EXCEPT ![s] = o.to]
          /\ bus' = Show(bus, s, o)
    BY <2>0 DEF CycleSession
  <2>2. s \in Ids(active) /\ active[s] \in CommandState
    BY <1>0, <2>1, ActiveFacts, ProviderAssumption DEF IInv, LoopOK, ProviderAssumption
  <2>3. o \in Outcome /\ (IsStateFinal(active[s].st) => o.to = active[s] /\ ~o.sent)
    BY <2>1, <2>2, StateOutcome, FinalRefuses
  <2> QED BY <2>1, <2>2, <2>3, HandledFares
<1>5. CASE \E s \in Sessions : AbortOne(s)
  <2>0. PICK s \in Sessions : AbortOne(s)
    BY <1>5
  <2>1. PICK o \in HandleFailure(active[s], "SERVICE_FAILED") :
          /\ pc = "abort" /\ s \in todo
          /\ active' = [active EXCEPT ![s] = o.to]
          /\ bus' = Show(bus, s, o)
    BY <2>0 DEF AbortOne
  <2>2. s \in Ids(active) /\ active[s] \in CommandState
    BY <1>0, <2>1, ActiveFacts DEF IInv, LoopOK
  <2>3. o \in Outcome /\ (IsStateFinal(active[s].st) => o.to = active[s] /\ ~o.sent)
    BY <2>1, <2>2, FailureOutcome, FinalRefuses DEF FailureReasons
  <2> QED BY <2>1, <2>2, <2>3, HandledFares
<1>6. CASE \E s \in Sessions : PreemptOne(s)
  <2>0. PICK s \in Sessions : PreemptOne(s)
    BY <1>6
  <2>1. pc = "preempt" /\ s \in todo
    BY <2>0 DEF PreemptOne
  <2>2. PICK o \in IF behavior = "CANCEL_EXISTING" THEN HandleCancel(active[s])
                   ELSE CompleteExisting :
          \/ /\ active' = IF behavior = "CANCEL_EXISTING"
                          THEN [active EXCEPT ![s] = o.to] ELSE active
             /\ bus' = Show(bus, s, o)
          \/ active' = Nobody /\ bus' = Dispose(Show(bus, s, o), Ids(active))
    BY <2>0 DEF PreemptOne
  <2>3. s \in Ids(active) /\ active[s] \in CommandState
    BY <1>0, <2>1, ActiveFacts DEF IInv, LoopOK
  <2>4. behavior = "CANCEL_EXISTING"
    BY <2>1 DEF IInv, TypeOK, LoopOK
  <2>5. o \in Outcome /\ (IsStateFinal(active[s].st) => o.to = active[s] /\ ~o.sent)
    BY <2>2, <2>3, <2>4, CancelOutcome, FinalRefuses
  <2>6. CASE active' = [active EXCEPT ![s] = o.to] /\ bus' = Show(bus, s, o)
    BY <2>3, <2>5, <2>6, HandledFares
  <2>7. CASE bus' = Dispose(Show(bus, s, o), Ids(active))
    <3>1. Show(bus, s, o) \in Buses
          /\ \A u \in Sessions \ {s} : Show(bus, s, o)[u] = bus[u]
      BY <1>0, <2>3, <2>5, ShowFacts DEF Ids
    <3>2. \A u \in Sessions \cap Ids(active) : Fares(u)
      BY <2>7, <3>1, DisposeFacts DEF Fares
    <3>3. \A u \in Sessions \ Ids(active) : Fares(u)
      BY <2>3, <2>7, <3>1, DisposeFacts, FaresSame
    <3> QED BY <3>2, <3>3
  <2> QED BY <2>2, <2>4, <2>6, <2>7
<1>7. CASE PreemptDone
  <2> DEFINE b == Dispose(bus, Ids(active))
  <2>1. /\ cur \in Sessions \ Ids(active) /\ Add(b, Nobody, cur)
    BY <1>7 DEF PreemptDone, IInv, LoopOK
  <2>2. /\ b \in Buses /\ b[cur] = bus[cur]
        /\ \A t \in Sessions : ~b[t].alive \/ (b[t] = bus[t] /\ t \notin Ids(active))
    BY <1>0, <2>1, DisposeFacts
  <2> HIDE DEF b
  <2> QED BY <2>1, <2>2, NobodyFacts, AddFares
<1>8. CASE AbortDone
  <2>1. bus' = Dispose(bus, Ids(active))
    BY <1>8 DEF AbortDone
  <2>2. \A t \in Sessions \cap Ids(active) : Fares(t)
    BY <1>0, <2>1, DisposeFacts DEF Fares
  <2>3. \A t \in Sessions \ Ids(active) : Fares(t)
    BY <1>0, <2>1, DisposeFacts, FaresSame
  <2> QED BY <2>2, <2>3
<1>9. CASE EndCycle
  <2> DEFINE left == [s \in Sessions |-> IF s \in finals THEN NoSession
                                         ELSE active[s]]
  <2>1. bus' = Dispose(bus, finals)
    BY <1>9 DEF EndCycle
  <2>2. \A t \in Sessions \cap finals : Fares(t)
    BY <1>0, <2>1, DisposeFacts DEF Fares
  <2>3. \A t \in Sessions \ finals : bus'[t] = bus[t]
    BY <1>0, <2>1, DisposeFacts
  <2>4. CASE active' = left
    BY <2>2, <2>3, <2>4, FaresSame DEF Ids, IsActive
  <2>5. CASE Promotes(left)
    <3>1. \A t \in Sessions \ finals : t \notin Ids(active)
      BY <2>5 DEF Promotes, Ids, IsActive
    <3> QED BY <2>2, <2>3, <3>1, FaresSame
  <2> QED BY <1>9, <2>4, <2>5 DEF EndCycle
<1> QED BY <1>1, <1>2, <1>3, <1>4, <1>5, <1>6, <1>7, <1>8, <1>9 DEF Cycle

\* Unless a service completes existing commands, which it publishes whatever their
\* state, a terminal status is the last one of its session while the instance is
\* alive: for any sessions and switches of the behaviour, whatever fails.
THEOREM TerminalStays ==
    ASSUME "COMPLETE_EXISTING" \notin Behaviors
    PROVE  Spec => TerminalIsFinal
<1>1. Init => TermInv
  BY DEF Init, TermInv, NeverWritten
<1>2. IInv /\ TermInv /\ [Next]_vars => \A s \in Sessions : Fares(s)
  <2> SUFFICES ASSUME IInv, TermInv, [Next]_vars PROVE \A s \in Sessions : Fares(s)
    OBVIOUS
  <2>1. CASE Cycle
    BY <2>1, CycleFares
  <2>2. CASE UNCHANGED <<active, bus>>
    BY <2>2, FaresSame
  <2> QED BY <2>1, <2>2 DEF Next, vars, SetBehavior, Send, Close
<1>3. (\A s \in Sessions : Fares(s)) =>
          /\ TermInv'
          /\ \A s \in Sessions :
                /\ bus[s].alive /\ IsStateFinal(bus[s].st)
                /\ bus'[s].alive
                => bus'[s].st = bus[s].st /\ bus'[s].why = bus[s].why
  BY DEF Fares, TermInv
<1>4. IInv /\ TermInv /\ [Next]_vars =>
          /\ TermInv'
          /\ [\A s \in Sessions :
                /\ bus[s].alive /\ IsStateFinal(bus[s].st)
                /\ bus'[s].alive
                => bus'[s].st = bus[s].st /\ bus'[s].why = bus[s].why]_vars
  BY <1>2, <1>3
<1> QED BY <1>1, <1>4, InitIInv, NextIInv, PTL DEF Spec, TerminalIsFinal

-----------------------------------------------------------------------------
(* Patient consumers: what a consumer wrote last is read last.             *)

Written(s) == [kind |-> "write", id |-> s] \in ToSet(inbox)
Disposed(s) == [kind |-> "dispose", id |-> s] \in ToSet(inbox)

\* A session has a command on its way, then its dispose, and no more.
Paired(q) ==
    \A i, j \in DOMAIN q :
        i < j /\ q[i].id = q[j].id => q[i].kind = "write" /\ q[j].kind = "dispose"

\* No session is queued twice.
Single(q) == \A i, j \in DOMAIN q : i < j => q[i] # q[j]

LEMMA TailFacts ==
    ASSUME NEW S, NEW q \in Seq(S), q # <<>>
    PROVE  /\ Tail(q) \in Seq(S) /\ Head(q) \in S
           /\ ToSet(q) = {Head(q)} \cup ToSet(Tail(q))
           /\ \A i \in DOMAIN Tail(q) : i + 1 \in DOMAIN q /\ Tail(q)[i] = q[i + 1]
           /\ 1 \in DOMAIN q /\ q[1] = Head(q) /\ \A i \in DOMAIN Tail(q) : 1 < i + 1
<1> DEFINE t == Tail(q)
<1>1. /\ Len(q) \in Nat /\ Len(q) # 0 /\ DOMAIN q = 1 .. Len(q) /\ Head(q) = q[1]
      /\ q[1] \in S
  OBVIOUS
<1>2. /\ t \in Seq(S) /\ DOMAIN t = 1 .. Len(q) - 1
      /\ \A i \in DOMAIN t : t[i] = q[i + 1]
  BY <1>1
<1> HIDE DEF t
<1>3. 1 \in DOMAIN q /\ \A i \in DOMAIN t : i + 1 \in DOMAIN q /\ 1 < i + 1
  BY <1>1, <1>2
<1>4. \A i \in DOMAIN q : i = 1 \/ (i - 1 \in DOMAIN t /\ t[i - 1] = q[i])
  <2> SUFFICES ASSUME NEW i \in DOMAIN q, i # 1
               PROVE  i - 1 \in DOMAIN t /\ t[i - 1] = q[i]
    OBVIOUS
  <2>1. i - 1 \in 1 .. Len(q) - 1 /\ (i - 1) + 1 = i
    BY <1>1
  <2> QED BY <2>1, <1>2
<1>5. ToSet(q) = {Head(q)} \cup ToSet(t)
  <2>1. \A x \in ToSet(q) : x \in {Head(q)} \cup ToSet(t)
    BY <1>1, <1>4 DEF ToSet
  <2>2. \A x \in {Head(q)} \cup ToSet(t) : x \in ToSet(q)
    BY <1>1, <1>2, <1>3 DEF ToSet
  <2> QED BY <2>1, <2>2
<1> QED BY <1>1, <1>2, <1>3, <1>5 DEF t

LEMMA AppendFacts ==
    ASSUME NEW S, NEW q \in Seq(S), NEW x \in S
    PROVE  /\ Append(q, x) \in Seq(S)
           /\ ToSet(Append(q, x)) = ToSet(q) \cup {x}
           /\ \A i \in DOMAIN Append(q, x) :
                 \/ i \in DOMAIN q /\ Append(q, x)[i] = q[i]
                 \/ Append(q, x)[i] = x /\ \A j \in DOMAIN Append(q, x) : ~(i < j)
<1> DEFINE a == Append(q, x)
<1>1. /\ a \in Seq(S) /\ Len(q) \in Nat /\ DOMAIN q = 1 .. Len(q)
      /\ DOMAIN a = 1 .. Len(q) + 1 /\ a[Len(q) + 1] = x
      /\ \A i \in DOMAIN q : a[i] = q[i]
  OBVIOUS
<1> HIDE DEF a
<1>2. \A i \in DOMAIN a : \/ i \in DOMAIN q
                          \/ i = Len(q) + 1 /\ \A j \in DOMAIN a : ~(i < j)
  BY <1>1
<1>3. Len(q) + 1 \in DOMAIN a /\ \A i \in DOMAIN q : i \in DOMAIN a
  BY <1>1
<1>4. ToSet(a) = ToSet(q) \cup {x}
  BY <1>1, <1>2, <1>3 DEF ToSet
<1> QED BY <1>1, <1>2, <1>4 DEF a

LEMMA PairedTail ==
    ASSUME NEW q \in Seq(Sample), q # <<>>, Paired(q)
    PROVE  /\ Paired(Tail(q))
           /\ \A x \in ToSet(Tail(q)) :
                 x.id = Head(q).id => Head(q).kind = "write" /\ x.kind = "dispose"
<1> DEFINE t == Tail(q)
<1>1. /\ \A i \in DOMAIN t : i \in Nat /\ i + 1 \in DOMAIN q /\ t[i] = q[i + 1]
      /\ 1 \in DOMAIN q /\ q[1] = Head(q) /\ \A i \in DOMAIN t : 1 < i + 1
  <2>1. t \in Seq(Sample)
    BY TailFacts
  <2> QED BY <2>1, TailFacts, LenProperties
<1> HIDE DEF t, Sample
<1>2. Paired(t)
  BY <1>1 DEF Paired
<1>3. \A x \in ToSet(t) :
          x.id = Head(q).id => Head(q).kind = "write" /\ x.kind = "dispose"
  <2> SUFFICES ASSUME NEW i \in DOMAIN t, t[i].id = Head(q).id
               PROVE  Head(q).kind = "write" /\ t[i].kind = "dispose"
    BY DEF ToSet
  <2> QED BY <1>1 DEF Paired
<1> QED BY <1>2, <1>3 DEF t

LEMMA PairedAppend ==
    ASSUME NEW q \in Seq(Sample), Paired(q), NEW x \in Sample,
           \A y \in ToSet(q) : y.id = x.id => y.kind = "write" /\ x.kind = "dispose"
    PROVE  Paired(Append(q, x))
<1> DEFINE a == Append(q, x)
<1>1. \A i \in DOMAIN a : \/ i \in DOMAIN q /\ a[i] = q[i]
                          \/ a[i] = x /\ \A j \in DOMAIN a : ~(i < j)
  BY AppendFacts
<1> HIDE DEF a
<1> SUFFICES ASSUME NEW i \in DOMAIN a, NEW j \in DOMAIN a, i < j, a[i].id = a[j].id
             PROVE  a[i].kind = "write" /\ a[j].kind = "dispose"
  BY DEF a, Paired
<1>2. i \in DOMAIN q /\ a[i] = q[i] /\ q[i] \in ToSet(q)
  BY <1>1 DEF ToSet
<1>3. CASE j \in DOMAIN q /\ a[j] = q[j]
  BY <1>2, <1>3 DEF Paired
<1>4. CASE a[j] = x
  BY <1>2, <1>4
<1> QED BY <1>1, <1>3, <1>4

LEMMA SingleTail ==
    ASSUME NEW q \in Seq(Sessions), q # <<>>, Single(q)
    PROVE  Single(Tail(q)) /\ Head(q) \notin ToSet(Tail(q))
<1> DEFINE t == Tail(q)
<1>1. /\ \A i \in DOMAIN t : i \in Nat /\ i + 1 \in DOMAIN q /\ t[i] = q[i + 1]
      /\ 1 \in DOMAIN q /\ q[1] = Head(q) /\ \A i \in DOMAIN t : 1 < i + 1
  <2>1. t \in Seq(Sessions)
    BY TailFacts
  <2> QED BY <2>1, TailFacts, LenProperties
<1> HIDE DEF t
<1>2. Single(t)
  BY <1>1 DEF Single
<1>3. Head(q) \notin ToSet(t)
  BY <1>1 DEF Single, ToSet
<1> QED BY <1>2, <1>3 DEF t

LEMMA SingleAppend ==
    ASSUME NEW q \in Seq(Sessions), Single(q), NEW s \in Sessions, s \notin ToSet(q)
    PROVE  Single(Append(q, s))
<1> DEFINE a == Append(q, s)
<1>1. \A i \in DOMAIN a : \/ i \in DOMAIN q /\ a[i] = q[i]
                          \/ a[i] = s /\ \A j \in DOMAIN a : ~(i < j)
  BY AppendFacts
<1> HIDE DEF a
<1> SUFFICES ASSUME NEW i \in DOMAIN a, NEW j \in DOMAIN a, i < j
             PROVE  a[i] # a[j]
  BY DEF a, Single
<1>2. i \in DOMAIN q /\ a[i] = q[i] /\ q[i] \in ToSet(q)
  BY <1>1 DEF ToSet
<1> QED BY <1>1, <1>2 DEF Single

\* Where a session is queued once, canceling it takes it out.
LEMMA SingleRemove ==
    ASSUME NEW q \in Seq(Sessions), Single(q), NEW s \in ToSet(q), s \in Sessions
    PROVE  /\ Single(RemoveFirst(q, s))
           /\ ToSet(RemoveFirst(q, s)) = ToSet(q) \ {s}
<1>1. PICK i \in 1 .. Len(q) : q[i] = s /\ RemoveFirst(q, s) = RemoveAt(q, i)
  BY RemoveFirstFacts
<1> DEFINE r == RemoveAt(q, i)
<1>2. /\ r \in Seq(Sessions) /\ Len(r) = Len(q) - 1
      /\ \A j \in 1 .. i - 1 : r[j] = q[j]
      /\ \A j \in i .. Len(q) - 1 : r[j] = q[j + 1]
  BY RemoveAtFacts
<1>3. Len(q) \in Nat /\ DOMAIN q = 1 .. Len(q) /\ DOMAIN r = 1 .. Len(q) - 1
  BY <1>2, LenProperties
<1> HIDE DEF r
<1> DEFINE from(j) == IF j < i THEN j ELSE j + 1
<1>4. \A j \in DOMAIN r : from(j) \in DOMAIN q /\ from(j) # i /\ r[j] = q[from(j)]
  BY <1>2, <1>3
<1>5. \A j, k \in DOMAIN r : j < k => from(j) < from(k)
  BY <1>3
<1>6. \A k \in DOMAIN q : k # i => \E j \in DOMAIN r : k = from(j)
  <2> SUFFICES ASSUME NEW k \in DOMAIN q, k # i PROVE \E j \in DOMAIN r : k = from(j)
    OBVIOUS
  <2>1. CASE k < i
    BY <1>3, <2>1
  <2>2. CASE k > i
    <3>1. k - 1 \in DOMAIN r /\ k = from(k - 1)
      BY <1>3, <2>2
    <3> QED BY <3>1
  <2> QED BY <1>3, <2>1, <2>2
<1> HIDE DEF from
<1>7. \A k \in DOMAIN q : k # i => q[k] # s
  <2>1. \A k \in DOMAIN q : k # i => k < i \/ i < k
    BY <1>3
  <2> QED BY <1>1, <1>3, <2>1 DEF Single
<1>8. Single(r)
  BY <1>4, <1>5 DEF Single
<1>9. ToSet(r) = ToSet(q) \ {s}
  <2>1. \A x \in ToSet(r) : x \in ToSet(q) /\ x # s
    BY <1>4, <1>7 DEF ToSet
  <2>2. \A x \in ToSet(q) \ {s} : x \in ToSet(r)
    BY <1>1, <1>4, <1>6 DEF ToSet
  <2> QED BY <2>1, <2>2
<1> QED BY <1>1, <1>8, <1>9 DEF r

\* The sessions that are held or will be, should no cycle fail.
Coming(s) ==
    \/ s \in Queued \/ Written(s)
    \/ s \in Ids(active) /\ pc # "abort"
    \/ pc = "preempt" /\ cur = s

\* A queued session is nowhere else.  A session that comes to be held has a consumer
\* that has not closed it, or its dispose is on its way.
OrderOf(s) ==
    /\ s \in Queued => s \notin Ids(active) /\ ~Written(s) /\ ~(pc = "preempt" /\ cur = s)
    /\ client[s] = "unused" => ~Coming(s) /\ ~Disposed(s)
    /\ client[s] = "open" => ~Disposed(s)
    /\ client[s] = "closed" /\ Coming(s) => Disposed(s)

Orderly == Paired(inbox) /\ Single(queue) /\ \A s \in Sessions : OrderOf(s)

\* A sample is taken: nothing else of its session is left, but for its dispose.
LEMMA TakeOrder ==
    ASSUME IInv, Paired(inbox), NEW s \in Sessions, NEW kind \in {"write", "dispose"},
           Take(kind, s)
    PROVE  /\ Paired(inbox') /\ ~Written(s)' /\ client' = client /\ pc = "read"
           /\ \A t \in Sessions \ {s} : (Written(t)' <=> Written(t)) /\ (Disposed(t)' <=> Disposed(t))
           /\ kind = "write" => Written(s) /\ (Disposed(s)' <=> Disposed(s))
           /\ kind = "dispose" => ~Disposed(s)'
<1>1. /\ inbox \in Seq(Sample) /\ inbox # <<>> /\ Head(inbox) = [kind |-> kind, id |-> s]
      /\ inbox' = Tail(inbox) /\ client' = client /\ pc = "read"
  BY DEF Take, IInv, TypeOK
<1>2. /\ ToSet(inbox) = {Head(inbox)} \cup ToSet(inbox')
      /\ Paired(inbox')
      /\ \A x \in ToSet(inbox') :
             x.id = s => kind = "write" /\ x.kind = "dispose"
  BY <1>1, TailFacts, PairedTail
<1> DEFINE w(t) == [kind |-> "write", id |-> t]
           d(t) == [kind |-> "dispose", id |-> t]
<1>3. \A t \in Sessions : /\ w(t).id = t /\ w(t).kind = "write"
                          /\ d(t).id = t /\ d(t).kind = "dispose"
  OBVIOUS
<1>4. \A t \in Sessions : /\ Written(t) <=> w(t) \in ToSet(inbox)
                          /\ Written(t)' <=> w(t) \in ToSet(inbox')
                          /\ Disposed(t) <=> d(t) \in ToSet(inbox)
                          /\ Disposed(t)' <=> d(t) \in ToSet(inbox')
  BY DEF Written, Disposed
<1>5. /\ kind = "write" => Head(inbox) = w(s)
      /\ kind = "dispose" => Head(inbox) = d(s)
      /\ Head(inbox).id = s /\ Head(inbox).kind = kind
  BY <1>1
<1> HIDE DEF w, d
<1> QED BY <1>1, <1>2, <1>3, <1>4, <1>5

LEMMA WriteOrder ==
    ASSUME IInv, Orderly, NEW s \in Sessions, Take("write", s), Single(queue'),
           Queued' \subseteq Queued \cup {s}, Ids(active') \subseteq Ids(active) \cup {s},
           pc' = "preempt" => cur' = s,
           s \in Queued' => s \notin Ids(active') /\ pc' # "preempt"
    PROVE  Orderly'
<1>1. /\ Paired(inbox') /\ ~Written(s)' /\ client' = client /\ pc = "read"
      /\ \A t \in Sessions \ {s} : (Written(t)' <=> Written(t)) /\ (Disposed(t)' <=> Disposed(t))
      /\ Written(s) /\ (Disposed(s)' <=> Disposed(s))
  BY TakeOrder DEF Orderly
<1>2. \A t \in Sessions : Coming(t)' => Coming(t)
  BY <1>1 DEF Coming
<1>3. ASSUME NEW t \in Sessions PROVE OrderOf(t)'
  <2>1. OrderOf(t)
    BY DEF Orderly
  <2>2. t \in Queued' =>
            t \notin Ids(active') /\ ~Written(t)' /\ ~(pc' = "preempt" /\ cur' = t)
    BY <1>1, <2>1 DEF OrderOf
  <2> QED BY <1>1, <1>2, <2>1, <2>2 DEF OrderOf
<1> QED BY <1>1, <1>3 DEF Orderly

LEMMA DisposeOrder ==
    ASSUME IInv, Orderly, NEW s \in Sessions, Take("dispose", s), Single(queue'),
           Queued' \subseteq Queued \ {s},
           Ids(active') \subseteq Ids(active) \cup (Queued \ Queued'),
           s \in Ids(active') => pc' = "abort", pc' # "preempt"
    PROVE  Orderly'
<1>1. /\ Paired(inbox') /\ ~Written(s)' /\ client' = client /\ pc = "read"
      /\ \A t \in Sessions \ {s} : (Written(t)' <=> Written(t)) /\ (Disposed(t)' <=> Disposed(t))
      /\ ~Disposed(s)'
  BY TakeOrder DEF Orderly
<1>2. \A t \in Sessions : Coming(t)' => t # s /\ Coming(t)
  BY <1>1 DEF Coming
<1>3. ASSUME NEW t \in Sessions PROVE OrderOf(t)'
  <2>1. OrderOf(t)
    BY DEF Orderly
  <2>2. t \in Queued' =>
            t \notin Ids(active') /\ ~Written(t)' /\ ~(pc' = "preempt" /\ cur' = t)
    BY <1>1, <2>1 DEF OrderOf
  <2> QED BY <1>1, <1>2, <2>1, <2>2 DEF OrderOf
<1> QED BY <1>1, <1>3 DEF Orderly

LEMMA OtherOrder ==
    ASSUME IInv, Orderly, UNCHANGED <<client, inbox>>, Single(queue'),
           Queued' \subseteq Queued,
           \A t \in Ids(active') : t \notin Queued' /\ (pc' # "abort" => Coming(t)),
           pc' = "preempt" => pc = "preempt" /\ cur' = cur
    PROVE  Orderly'
<1>1. \A t \in Sessions : (Written(t)' <=> Written(t)) /\ (Disposed(t)' <=> Disposed(t))
  BY DEF Written, Disposed
<1>2. \A t \in Sessions : Coming(t)' => Coming(t)
  BY <1>1 DEF Coming
<1>3. ASSUME NEW t \in Sessions PROVE OrderOf(t)'
  <2>1. OrderOf(t)
    BY DEF Orderly
  <2>2. t \in Queued' =>
            t \notin Ids(active') /\ ~Written(t)' /\ ~(pc' = "preempt" /\ cur' = t)
    BY <1>1, <2>1 DEF OrderOf
  <2> QED BY <1>1, <1>2, <2>1, <2>2 DEF OrderOf
<1> QED BY <1>3 DEF Orderly

\* A patient consumer writes.
LEMMA SendOrder ==
    ASSUME IInv, Orderly, NEW s \in Sessions, PatientSend(s) \/ Close(s)
    PROVE  Orderly'
<1>1. /\ inbox \in Seq(Sample) /\ client \in [Sessions -> {"unused", "open", "closed"}]
      /\ UNCHANGED <<behavior, active, queue, pc, cur>>
  BY DEF IInv, TypeOK, PatientSend, Send, Close, loopVars
<1>2. \/ /\ client[s] = "unused" \/ (client[s] = "open" /\ IsActive(active, s)
                                     /\ \A i \in DOMAIN inbox : inbox[i].id # s)
         /\ client' = [client EXCEPT ![s] = "open"]
         /\ inbox' = Append(inbox, [kind |-> "write", id |-> s])
      \/ /\ client[s] = "open"
         /\ client' = [client EXCEPT ![s] = "closed"]
         /\ inbox' = Append(inbox, [kind |-> "dispose", id |-> s])
  BY DEF PatientSend, Send, Close
<1>3. \A t \in Sessions \ {s} : client'[t] = client[t]
  BY <1>1, <1>2
<1>4. OrderOf(s) /\ Paired(inbox) /\ Single(queue)
  BY DEF Orderly
<1>5. \A y \in ToSet(inbox) : y \in Sample /\ (y.id = s => y = [kind |-> "write", id |-> s]
                                                 \/ y = [kind |-> "dispose", id |-> s])
  <2>1. \A y \in ToSet(inbox) : y \in Sample
    BY <1>1, ElementOfSeq, LenProperties DEF ToSet
  <2> QED BY <2>1 DEF Sample
<1>6. CASE client' = [client EXCEPT ![s] = "open"]
           /\ inbox' = Append(inbox, [kind |-> "write", id |-> s])
           /\ (client[s] = "unused" \/ (client[s] = "open" /\ IsActive(active, s)
                                        /\ \A i \in DOMAIN inbox : inbox[i].id # s))
  <2> DEFINE w == [kind |-> "write", id |-> s]
  <2>1. w \in Sample /\ w.id = s /\ w.kind = "write"
    BY DEF Sample
  <2>2. \A y \in ToSet(inbox) : y.id # s
    <3>1. CASE client[s] = "unused"
      BY <1>4, <1>5, <3>1 DEF OrderOf, Coming, Written, Disposed
    <3>2. CASE \A i \in DOMAIN inbox : inbox[i].id # s
      BY <3>2 DEF ToSet
    <3> QED BY <1>6, <3>1, <3>2
  <2>3. inbox' = Append(inbox, w) /\ client'[s] = "open"
    BY <1>1, <1>6
  <2> HIDE DEF w
  <2>4. Paired(inbox') /\ ToSet(inbox') = ToSet(inbox) \cup {w}
    BY <1>1, <1>4, <2>1, <2>2, <2>3, PairedAppend, AppendFacts
  <2>5. \A t \in Sessions : Disposed(t)' <=> Disposed(t)
    BY <2>1, <2>4 DEF Disposed
  <2>6. \A t \in Sessions \ {s} : (Written(t)' <=> Written(t)) /\ (Coming(t)' <=> Coming(t))
    BY <1>1, <2>1, <2>4 DEF Written, Coming, Queued
  <2>7. s \notin Queued
    <3>1. CASE client[s] = "unused"
      BY <1>4, <3>1 DEF OrderOf, Coming
    <3>2. CASE IsActive(active, s)
      BY <1>4, <3>2 DEF OrderOf, Ids
    <3> QED BY <1>6, <3>1, <3>2
  <2>8. ~Disposed(s)
    BY <1>4, <1>6 DEF OrderOf
  <2>9. OrderOf(s)'
    BY <1>1, <2>3, <2>5, <2>7, <2>8 DEF OrderOf, Queued
  <2>10. ASSUME NEW t \in Sessions \ {s} PROVE OrderOf(t)'
    <3>1. OrderOf(t)
      BY DEF Orderly
    <3> QED BY <1>1, <1>3, <2>5, <2>6, <3>1 DEF OrderOf, Queued
  <2> QED BY <1>1, <1>4, <2>4, <2>9, <2>10 DEF Orderly
<1>7. CASE client' = [client EXCEPT ![s] = "closed"] /\ client[s] = "open"
           /\ inbox' = Append(inbox, [kind |-> "dispose", id |-> s])
  <2> DEFINE d == [kind |-> "dispose", id |-> s]
  <2>1. d \in Sample /\ d.id = s /\ d.kind = "dispose"
    BY DEF Sample
  <2>2. \A y \in ToSet(inbox) : y.id = s => y.kind = "write"
    BY <1>4, <1>5, <1>7 DEF OrderOf, Disposed
  <2>3. inbox' = Append(inbox, d) /\ client'[s] = "closed"
    BY <1>1, <1>7
  <2>0. \A t \in Sessions : t # s => d # [kind |-> "dispose", id |-> t]
    OBVIOUS
  <2>00. \A t \in Sessions : d # [kind |-> "write", id |-> t]
    OBVIOUS
  <2>01. Disposed(s)' <=> d \in ToSet(inbox')
    BY DEF Disposed
  <2> HIDE DEF d
  <2>4. Paired(inbox') /\ ToSet(inbox') = ToSet(inbox) \cup {d}
    BY <1>1, <1>4, <2>1, <2>2, <2>3, PairedAppend, AppendFacts
  <2>5. \A t \in Sessions \ {s} : Disposed(t)' <=> Disposed(t)
    BY <2>0, <2>4 DEF Disposed
  <2>6. \A t \in Sessions : (Written(t)' <=> Written(t)) /\ (Coming(t)' <=> Coming(t))
    <3>1. \A t \in Sessions : Written(t)' <=> Written(t)
      BY <2>00, <2>4 DEF Written
    <3> QED BY <1>1, <3>1 DEF Coming, Queued
  <2>7. Disposed(s)'
    BY <2>01, <2>4
  <2>8. OrderOf(s)'
    BY <1>1, <1>4, <2>3, <2>6, <2>7 DEF OrderOf, Queued
  <2>9. ASSUME NEW t \in Sessions \ {s} PROVE OrderOf(t)'
    <3>1. OrderOf(t)
      BY DEF Orderly
    <3> QED BY <1>1, <1>3, <2>5, <2>6, <3>1 DEF OrderOf, Queued
  <2> QED BY <1>1, <1>4, <2>4, <2>8, <2>9 DEF Orderly
<1> QED BY <1>2, <1>6, <1>7

LEMMA IncomingOrder ==
    ASSUME IInv, Orderly, NEW s \in Sessions, Incoming(s)
    PROVE  Orderly'
<1>0. /\ active \in States /\ queue \in Seq(Sessions) /\ Single(queue)
      /\ OrderOf(s) /\ \A t \in Sessions : OrderOf(t)
  BY DEF IInv, TypeOK, States, Orderly
<1>1. CASE CancelActive(s)
  <2> DEFINE promoted == IF queue = <<>> THEN {} ELSE {Head(queue)}
             left(o) == [t \in Sessions |->
                            IF o.ok /\ t = s THEN NoSession
                            ELSE IF t \in promoted THEN Fresh
                            ELSE IF t = s THEN o.to ELSE active[t]]
  <2>1. PICK o \in HandleCancel(active[s]) :
          active' = left(o) /\ IF o.ok THEN Proceed(left(o)) ELSE GiveUp(left(o))
    BY <1>1 DEF CancelActive
  <2>2. Take("dispose", s) /\ s \in Ids(active) /\ s \notin Queued
    BY <1>0, <1>1 DEF CancelActive, Ids, OrderOf
  <2>3. /\ queue' = IF queue = <<>> THEN queue ELSE Tail(queue)
        /\ Single(queue') /\ Queued' \subseteq Queued /\ promoted = Queued \ Queued'
    <3>1. queue' = IF queue = <<>> THEN queue ELSE Tail(queue)
      BY <1>1 DEF CancelActive
    <3>2. CASE queue = <<>>
      BY <1>0, <3>1, <3>2 DEF Queued, ToSet
    <3>3. CASE queue # <<>>
      BY <1>0, <3>1, <3>3, TailFacts, SingleTail DEF Queued
    <3> QED BY <3>1, <3>2, <3>3
  <2>4. /\ Ids(active') \subseteq Ids(active) \cup (Queued \ Queued')
        /\ s \in Ids(active') => pc' = "abort"
        /\ pc' # "preempt"
    <3>1. Ids(left(o)) \subseteq Ids(active) \cup promoted
      BY <2>2 DEF Ids, IsActive, NoSession
    <3>2. o.ok => s \notin Ids(left(o))
      BY DEF Ids, IsActive, NoSession
    <3>3. pc' \in {"abort", "idle", "sessions"} /\ (~o.ok => pc' = "abort")
      BY <2>1 DEF Proceed, GiveUp
    <3> QED BY <2>1, <2>3, <3>1, <3>2, <3>3
  <2> QED BY <2>2, <2>3, <2>4, DisposeOrder
<1>2. CASE CancelQueued(s)
  <2>1. /\ Take("dispose", s) /\ s \in Queued /\ active' = active
        /\ queue' = RemoveFirst(queue, s) /\ s \notin Ids(active) /\ pc' # "preempt"
    BY <1>0, <1>2 DEF CancelQueued, Proceed, GiveUp, OrderOf
  <2>2. Single(queue') /\ Queued' = Queued \ {s}
    BY <1>0, <2>1, SingleRemove DEF Queued
  <2> QED BY <2>1, <2>2, DisposeOrder
<1>3. CASE CancelUnknown(s)
  <2>1. /\ Take("dispose", s) /\ s \notin Queued /\ active' = active
        /\ queue' = queue /\ s \notin Ids(active) /\ pc' # "preempt"
    BY <1>3 DEF CancelUnknown, Proceed, Ids
  <2> QED BY <1>0, <2>1, DisposeOrder DEF Queued
<1>4. ASSUME Take("write", s) PROVE s \notin Queued
  BY <1>0, <1>4, TakeOrder DEF OrderOf, Orderly
<1>5. CASE Update(s)
  <2>1. PICK o \in HandleUpdate(active[s]) : active' = [active EXCEPT ![s] = o.to]
    BY <1>5 DEF Update
  <2>2. /\ Take("write", s) /\ queue' = queue /\ pc' # "preempt" /\ s \notin Queued
        /\ s \in Ids(active) /\ active[s] \in CommandState
    BY <1>0, <1>4, <1>5, ActiveFacts DEF Update, GiveUp
  <2>3. Ids(active') = Ids(active) \cup {s}
    BY <1>0, <2>1, <2>2, UpdateOutcome, SetState DEF Outcome
  <2> QED BY <1>0, <2>2, <2>3, WriteOrder DEF Queued
<1>6. CASE Accept(s)
  <2>1. Take("write", s) /\ queue' = queue /\ s \notin Queued /\ Add(bus, active, s)
    BY <1>4, <1>6 DEF Accept, New
  <2>2. Ids(active') = Ids(active) \cup {s} /\ pc' # "preempt"
    <3>1. Ids(active') = Ids(active) \cup {s}
      BY <1>0, <2>1, AddFacts DEF IInv, TypeOK, Buses
    <3>2. pc' # "preempt"
      BY <2>1 DEF Add, Proceed, GiveUp
    <3> QED BY <3>1, <3>2
  <2> QED BY <1>0, <2>1, <2>2, WriteOrder DEF Queued
<1>7. CASE Reject(s) \/ Preempt(s)
  <2>1. /\ Take("write", s) /\ queue' = queue /\ s \notin Queued /\ active' = active
        /\ pc' = "preempt" => cur' = s
    BY <1>4, <1>7 DEF Reject, Preempt, New, Proceed
  <2> QED BY <1>0, <2>1, WriteOrder DEF Queued
<1>8. CASE Enqueue(s)
  <2>1. /\ Take("write", s) /\ queue' = Append(queue, s) /\ s \notin Queued
        /\ active' = active /\ s \notin Ids(active) /\ pc' # "preempt"
    BY <1>4, <1>8 DEF Enqueue, New, Proceed, Ids
  <2>2. Single(queue') /\ Queued' = Queued \cup {s}
    BY <1>0, <2>1, SingleAppend, AppendFacts DEF Queued
  <2> QED BY <2>1, <2>2, WriteOrder
<1> QED BY <1>1, <1>2, <1>3, <1>5, <1>6, <1>7, <1>8 DEF Incoming

LEMMA CycleOrder ==
    ASSUME IInv, Orderly, Cycle
    PROVE  Orderly'
<1>0. /\ active \in States /\ queue \in Seq(Sessions) /\ Single(queue)
      /\ \A t \in Sessions : OrderOf(t)
  BY DEF IInv, TypeOK, States, Orderly
<1>1. ASSUME UNCHANGED <<client, inbox, queue>>, Ids(active') \subseteq Ids(active),
             pc = "abort" => pc' = "abort" \/ Ids(active') = {},
             pc' = "preempt" => pc = "preempt" /\ cur' = cur
      PROVE  Orderly'
  <2>1. \A t \in Ids(active') : t \notin Queued' /\ (pc' # "abort" => Coming(t))
    BY <1>0, <1>1 DEF Coming, OrderOf, Queued, Ids
  <2> QED BY <1>0, <1>1, <2>1, OtherOrder DEF Queued
<1>2. ASSUME NEW s \in Ids(active), NEW o \in Outcome, pc # "abort" \/ pc' = "abort",
             active' = [active EXCEPT ![s] = o.to], UNCHANGED <<client, inbox, queue>>,
             pc' = "preempt" => pc = "preempt" /\ cur' = cur
      PROVE  Orderly'
  <2>1. s \in Sessions /\ o.to \in CommandState
    BY <1>0, <1>2, ActiveFacts DEF Outcome
  <2>2. Ids(active') = Ids(active)
    BY <1>0, <1>2, <2>1, SetState
  <2> QED BY <1>1, <1>2, <2>2
<1>3. CASE OnCycle \/ ReadError \/ ReadNothing
  BY <1>1, <1>3 DEF OnCycle, ReadError, ReadNothing, GiveUp, Proceed, clientVars
<1>4. CASE \E s \in Sessions : Incoming(s)
  BY <1>4, IncomingOrder
<1>5. CASE \E s \in Sessions : Reissue(s)
  <2>0. PICK s \in Sessions : Reissue(s)
    BY <1>5
  <2>1. PICK o \in HandleIssued(active[s]) :
          /\ active' = [active EXCEPT ![s] = o.to]
          /\ IF o.ok THEN Proceed(active') ELSE GiveUp(active')
    BY <2>0 DEF Reissue
  <2>2. s \in Ids(active) /\ active[s] = Updated
    BY <2>0 DEF Reissue, IInv, LoopOK
  <2>3. o \in Outcome
    BY <2>1, <2>2, IssuedOutcome, MachineStates DEF Updated, NonFinal
  <2>4. pc # "abort" /\ pc' # "preempt" /\ UNCHANGED <<client, inbox, queue>>
    BY <2>0, <2>1 DEF Reissue, clientVars, Proceed, GiveUp
  <2> QED BY <1>2, <2>1, <2>2, <2>3, <2>4
<1>6. CASE \E s \in Sessions : CycleSession(s)
  <2>0. PICK s \in Sessions : CycleSession(s)
    BY <1>6
  <2>1. PICK o \in HandleState(active[s]) : active' = [active EXCEPT ![s] = o.to]
    BY <2>0 DEF CycleSession
  <2>2. /\ pc = "sessions" /\ pc' = pc /\ (cur = s \/ s \in todo)
        /\ UNCHANGED <<client, inbox, queue>>
    BY <2>0 DEF CycleSession, clientVars
  <2>3. s \in Ids(active) /\ active[s] \in CommandState
    BY <1>0, <2>2, ActiveFacts, ProviderAssumption DEF IInv, LoopOK, ProviderAssumption
  <2>4. o \in Outcome
    BY <2>1, <2>3, StateOutcome
  <2> QED BY <1>2, <2>1, <2>2, <2>3, <2>4
<1>7. CASE \E s \in Sessions : AbortOne(s)
  <2>0. PICK s \in Sessions : AbortOne(s)
    BY <1>7
  <2>1. PICK o \in HandleFailure(active[s], "SERVICE_FAILED") :
          active' = [active EXCEPT ![s] = o.to]
    BY <2>0 DEF AbortOne
  <2>2. pc = "abort" /\ pc' = pc /\ s \in todo /\ UNCHANGED <<client, inbox, queue>>
    BY <2>0 DEF AbortOne, clientVars
  <2>3. s \in Ids(active) /\ active[s] \in CommandState
    BY <1>0, <2>2, ActiveFacts DEF IInv, LoopOK
  <2>4. o \in Outcome
    BY <2>1, <2>3, FailureOutcome DEF FailureReasons
  <2> QED BY <1>2, <2>1, <2>2, <2>3, <2>4
<1>8. CASE \E t \in Sessions : PreemptOne(t)
  <2>0. PICK t \in Sessions : PreemptOne(t)
    BY <1>8
  <2>1. PICK o \in IF behavior = "CANCEL_EXISTING" THEN HandleCancel(active[t])
                   ELSE CompleteExisting :
          \/ /\ active' \in {active, [active EXCEPT ![t] = o.to]}
             /\ UNCHANGED <<pc, cur>>
          \/ active' = Nobody /\ pc' = "abort"
    BY <2>0 DEF PreemptOne, GiveUp
  <2>2. pc = "preempt" /\ t \in todo /\ UNCHANGED <<client, inbox, queue>>
    BY <2>0 DEF PreemptOne, clientVars
  <2>3. t \in Ids(active) /\ active[t] \in CommandState
    BY <1>0, <2>2, ActiveFacts DEF IInv, LoopOK
  <2>4. o \in Outcome
    <3>1. [st |-> "COMPLETED", why |-> "SUCCEEDED"] \in CommandState
      BY DEF CommandState, Statuses, Reasons
    <3> QED BY <2>1, <2>3, <3>1, CancelOutcome, AnnounceOutcome DEF CompleteExisting
  <2>5. CASE active' = Nobody /\ pc' = "abort"
    BY <1>1, <2>2, <2>5, NobodyFacts
  <2> QED BY <1>1, <1>2, <2>1, <2>2, <2>3, <2>4, <2>5
<1>9. CASE PreemptDone
  <2>1. /\ pc = "preempt" /\ cur \in Sessions /\ UNCHANGED <<client, inbox, queue>>
        /\ Add(Dispose(bus, Ids(active)), Nobody, cur)
    BY <1>9 DEF PreemptDone, clientVars, IInv, LoopOK
  <2>2. Ids(active') = {cur}
    BY <2>1, AddFacts, NobodyFacts, DisposeFacts DEF IInv, TypeOK, Buses
  <2>3. pc' # "preempt"
    BY <2>1 DEF Add, Proceed, GiveUp
  <2>4. cur \notin Queued /\ Coming(cur)
    BY <1>0, <2>1 DEF OrderOf, Coming
  <2>5. Queued' = Queued /\ Single(queue')
    BY <1>0, <2>1 DEF Queued
  <2> QED BY <2>1, <2>2, <2>3, <2>4, <2>5, OtherOrder
<1>10. CASE AbortDone
  BY <1>1, <1>10, NobodyFacts DEF AbortDone, clientVars
<1>11. CASE EndCycle
  <2> DEFINE left == [s \in Sessions |-> IF s \in finals THEN NoSession
                                         ELSE active[s]]
  <2>1. /\ pc = "sessions" /\ pc' = "idle" /\ UNCHANGED <<client, inbox>>
        /\ left \in States
    BY <1>0, <1>11 DEF EndCycle, clientVars, States
  <2>2. CASE active' = left /\ queue' = queue
    <3>1. Ids(active') \subseteq Ids(active)
      BY <2>2 DEF Ids, IsActive, NoSession
    <3> QED BY <1>1, <2>1, <2>2, <3>1
  <2>3. CASE /\ Promotes(left) /\ queue' = Tail(queue)
             /\ active' = [left EXCEPT ![Head(queue)] = Fresh]
    <3> DEFINE h == Head(queue)
    <3>1. /\ queue # <<>> /\ h \in Queued /\ h \notin Queued' /\ h \in Sessions
          /\ Single(queue') /\ Queued' \subseteq Queued
      BY <1>0, <2>3, TailFacts, SingleTail DEF Promotes, Queued
    <3>2. Ids(active') = {h}
      <4> HIDE DEF left
      <4>1. Ids(left) = {}
        BY <2>3 DEF Promotes
      <4>2. Ids([left EXCEPT ![h] = Fresh]) = Ids(left) \cup {h}
        BY <2>1, <3>1, SetState, MachineStates
      <4> QED BY <2>3, <4>1, <4>2
    <3> HIDE DEF h
    <3> QED BY <2>1, <3>1, <3>2, OtherOrder DEF Coming
  <2> QED BY <1>11, <2>2, <2>3 DEF EndCycle
<1> QED BY <1>3, <1>4, <1>5, <1>6, <1>7, <1>8, <1>9, <1>10, <1>11 DEF Cycle

LEMMA InitOrder == Init => Orderly
<1> SUFFICES ASSUME Init PROVE Orderly
  OBVIOUS
<1>1. ToSet(<<>>) = {} /\ Paired(<<>>) /\ Single(<<>>)
  BY DEF ToSet, Paired, Single
<1>2. \A s \in Sessions : ~Coming(s) /\ ~Disposed(s) /\ s \notin Queued
  BY <1>1, NobodyFacts DEF Init, Coming, Written, Disposed, Queued
<1> QED BY <1>1, <1>2 DEF Init, Orderly, OrderOf

LEMMA NextOrder ==
    ASSUME IInv, Orderly, [PatientNext]_vars
    PROVE  Orderly'
<1>1. CASE Cycle
  BY <1>1, CycleOrder
<1>2. CASE \E s \in Sessions : PatientSend(s) \/ Close(s)
  BY <1>2, SendOrder
<1>3. CASE (\E b \in Behaviors : SetBehavior(b)) \/ UNCHANGED vars
  <2>1. UNCHANGED <<client, inbox, active, queue, pc, cur>>
    BY <1>3 DEF SetBehavior, clientVars, loopVars, vars
  <2>2. \A s \in Sessions : OrderOf(s) => OrderOf(s)'
    BY <2>1 DEF OrderOf, Coming, Written, Disposed, Queued
  <2> QED BY <2>1, <2>2 DEF Orderly
<1> QED BY <1>1, <1>2, <1>3 DEF PatientNext

LEMMA PatientIsNext == [PatientNext]_vars => [Next]_vars
BY DEF PatientNext, Next, PatientSend

LEMMA OrderCloses == IInv /\ Orderly => ClosedSessionsDropped
<1> SUFFICES ASSUME IInv, Orderly, pc = "idle", NEW s \in Held, client[s] = "closed"
             PROVE  \E i \in 1 .. Len(inbox) : inbox[i].id = s
  BY DEF ClosedSessionsDropped
<1>1. s \in Sessions
  <2>1. \A t \in ToSet(queue) : t \in Sessions
    BY ElementOfSeq, LenProperties DEF ToSet, IInv, TypeOK
  <2> QED BY <2>1 DEF Held, Queued, Ids
<1>2. Disposed(s)
  BY <1>1 DEF Orderly, OrderOf, Coming, Held
<1>3. PICK i \in DOMAIN inbox : inbox[i] = [kind |-> "dispose", id |-> s]
  BY <1>2 DEF Disposed, ToSet
<1>4. i \in 1 .. Len(inbox) /\ inbox[i].id = s
  BY <1>3, LenProperties DEF IInv, TypeOK
<1> QED BY <1>4

\* Where consumers send a command again only while it is active and all they sent
\* was read, a session its consumer has closed is dropped, whatever fails.
THEOREM ClosedDropped == PatientSpec => []ClosedSessionsDropped
<1>1. IInv /\ Orderly /\ [PatientNext]_vars => (IInv /\ Orderly)'
  BY NextOrder, PatientIsNext, NextIInv
<1> QED BY <1>1, InitOrder, InitIInv, OrderCloses, PTL DEF PatientSpec

\* Where no consumer sends a command again, any consumer is patient.
LEMMA OnceIsPatient ==
    ASSUME Updating = {}
    PROVE  Spec => PatientSpec
<1>1. [Next]_vars => [PatientNext]_vars
  BY DEF Next, PatientNext, PatientSend, Send
<1> QED BY <1>1, PTL DEF Spec, PatientSpec

\* The same with any consumers, when none sends a command again.
THEOREM ClosedDroppedOnce ==
    ASSUME Updating = {}
    PROVE  Spec => []ClosedSessionsDropped
BY OnceIsPatient, ClosedDropped, PTL

-----------------------------------------------------------------------------
(* Where no call fails, the instances show the states of the sessions.     *)

Shows(b, s, c) == b[s].alive /\ b[s].ack /\ b[s].st = c.st /\ b[s].why = c.why

Completed == [st |-> "COMPLETED", why |-> "SUCCEEDED"]

\* COMPLETE_EXISTING has published the end of s, which it did not end.
Early(s) ==
    /\ pc = "preempt" /\ behavior = "COMPLETE_EXISTING" /\ s \notin todo
    /\ Shows(bus, s, Completed)

Current ==
    /\ \A s \in Queued : Shows(bus, s, Fresh)
    /\ \A s \in Ids(active) : Shows(bus, s, active[s]) \/ Early(s)

LEMMA NoFaults == ASSUME Faults = {} PROVE \A kind : May(kind) = {TRUE}
BY DEF May

\* A handler announces any change it makes, and a cancellation cannot fail.
LEMMA Announced ==
    ASSUME Faults = {}, NEW c \in CommandState
    PROVE  /\ \A o \in HandleCancel(c) : o.ok
           /\ \A o \in CompleteExisting : o.ok /\ o.sent /\ o.to = Completed
           /\ \A o \in HandleCancel(c) \cup HandleFailure(c, "SERVICE_FAILED")
                       \cup HandleUpdate(c) \cup HandleIssued(c) \cup HandleState(c) :
                 o.sent \/ o.to = c
<1>0. \A kind : \A r \in May(kind) : r = TRUE
  BY NoFaults
<1>1. ASSUME NEW d, NEW o \in Conclude(d) PROVE o.ok /\ o.sent
  <2>1. PICK hook \in May("hook"), status \in May("send"), exe \in May("send") :
          o = [to   |-> d,
               ok   |-> hook /\ status /\ (HasExeStatus => exe),
               sent |-> hook /\ status,
               exe  |-> hook /\ status /\ HasExeStatus /\ exe]
    BY <1>1 DEF Conclude
  <2>2. hook = TRUE /\ status = TRUE /\ exe = TRUE
    BY <1>0
  <2> QED BY <2>1, <2>2
<1>2. ASSUME NEW d, NEW o \in Announce(d) PROVE o.ok /\ o.sent /\ o.to = d
  <2>1. PICK p \in May("send") : o = [to |-> d, ok |-> p, sent |-> p, exe |-> FALSE]
    BY <1>2 DEF Announce
  <2>2. p = TRUE
    BY <1>0
  <2> QED BY <2>1, <2>2
<1>3. \A ok \in BOOLEAN : Quiet(c, ok).to = c /\ Quiet(c, ok).ok = ok
  BY DEF Quiet
<1>4. \A o \in HandleCancel(c) : o.ok /\ (o.sent \/ o.to = c)
  BY <1>1, <1>3 DEF HandleCancel
<1>5. \A r : \A o \in HandleFailure(c, r) : o.sent \/ o.to = c
  BY <1>1, <1>3 DEF HandleFailure
<1>6. \A o \in HandleUpdate(c) : o.sent \/ o.to = c
  <2>1. IsStateFinal(c.st) => HandleUpdate(c) = {Quiet(c, FALSE)}
    BY DEF HandleUpdate
  <2>2. ASSUME ~IsStateFinal(c.st), NEW o \in HandleUpdate(c) PROVE o.sent
    <3>1. PICK hook \in May("hook"), status \in May("send") :
            o = [to |-> Updated, ok |-> hook /\ status, sent |-> hook /\ status,
                 exe |-> FALSE]
      BY <2>2 DEF HandleUpdate
    <3>2. hook = TRUE /\ status = TRUE
      BY <1>0
    <3> QED BY <3>1, <3>2
  <2> QED BY <1>3, <2>1, <2>2
<1>7. \A o \in HandleIssued(c) \cup HandleCommanded(c) : o.sent \/ o.to = c
  BY <1>2, <1>3, <1>5 DEF HandleIssued, HandleCommanded
<1>8. \A o \in HandleExecuting(c) : o.sent \/ o.to = c
  <2>1. \A o \in SendExecutionStatus(c) : o.to = c
    <3>1. \A x \in BOOLEAN :
            [to |-> c, ok |-> x, sent |-> FALSE, exe |-> x].to = c
      OBVIOUS
    <3> QED BY <1>3, <3>1, MayIsBoolean DEF SendExecutionStatus
  <2> QED BY <1>1, <1>5, <2>1 DEF HandleExecuting, HandleCompleted
<1>9. \A o \in HandleState(c) : o.sent \/ o.to = c
  BY <1>3, <1>7, <1>8 DEF HandleState
<1> QED BY <1>2, <1>4, <1>5, <1>6, <1>7, <1>9 DEF CompleteExisting, Completed

LEMMA ShowsOutcome ==
    ASSUME NEW b \in Buses, NEW s \in Sessions, NEW o \in Outcome, NEW c,
           Shows(b, s, c), o.sent \/ o.to = c
    PROVE  Shows(Show(b, s, o), s, o.to)
<1>1. Show(b, s, o)[s].ack
  BY ShowFacts DEF Shows
<1>2. Show(b, s, o)[s].alive
  BY ShownStatus DEF Shows
<1>3. Show(b, s, o)[s].st = o.to.st /\ Show(b, s, o)[s].why = o.to.why
  BY ShownStatus DEF Shows
<1> QED BY <1>1, <1>2, <1>3 DEF Shows

\* One session changes, and the front of the queue may become active.
LEMMA KeepsCurrent ==
    ASSUME Current, pc # "preempt", NEW s,
           \A t \in Sessions \ {s} :
               /\ t \in Queued' => t \in Queued /\ bus'[t] = bus[t]
               /\ t \in Ids(active') =>
                      /\ bus'[t] = bus[t]
                      /\ \/ t \in Ids(active) /\ active'[t] = active[t]
                         \/ t \in Queued /\ active'[t] = Fresh,
           s \in Queued' => Shows(bus', s, Fresh),
           s \in Ids(active') => Shows(bus', s, active'[s]),
           Queued' \subseteq Sessions
    PROVE  Current'
<1>1. \A t \in Queued' : Shows(bus', t, Fresh)
  BY DEF Current, Shows
<1>2. \A t \in Ids(active') : Shows(bus', t, active'[t])
  <2>1. \A t \in Ids(active') : t \in Sessions
    BY DEF Ids
  <2> QED BY <2>1 DEF Current, Shows, Early
<1> QED BY <1>1, <1>2 DEF Current

LEMMA QueuedSessions == ASSUME TypeOK PROVE Queued \subseteq Sessions
<1>1. \A t \in ToSet(queue) : t \in Sessions
  BY ElementOfSeq, LenProperties DEF ToSet, TypeOK
<1> QED BY <1>1 DEF Queued

LEMMA GreetingCurrent ==
    ASSUME Faults = {}, NEW b \in Buses, NEW s \in Sessions,
           NEW status \in May("send"), NEW ack \in May("send")
    PROVE  /\ status = TRUE /\ ack = TRUE
           /\ Shows(Greet(b, s, status, ack), s, Fresh)
<1>1. status = TRUE /\ ack = TRUE
  BY NoFaults
<1>2. Shows(Greet(b, s, TRUE, TRUE), s, Fresh)
  BY GreetedStatus DEF Shows, Fresh
<1> QED BY <1>1, <1>2

\* A queued session is queued once, and is nowhere else.
Apart ==
    /\ Single(queue)
    /\ \A s \in Queued :
          s \notin Ids(active) /\ ~Written(s) /\ ~(pc = "preempt" /\ cur = s)

LEMMA OrderlyApart == IInv /\ Orderly => Apart
BY QueuedSessions DEF Orderly, OrderOf, Apart, IInv

LEMMA NobodyQueued == queue = <<>> => Apart
BY DEF Apart, Single, Queued, ToSet

LEMMA TakeWritten ==
    ASSUME IInv, Apart, NEW s \in Sessions, Take("write", s)
    PROVE  s \notin Queued
<1>1. /\ inbox \in Seq(Sample) /\ inbox # <<>>
      /\ Head(inbox) = [kind |-> "write", id |-> s]
  BY DEF Take, IInv, TypeOK
<1>2. Head(inbox) \in ToSet(inbox)
  BY <1>1, TailFacts
<1> QED BY <1>1, <1>2 DEF Written, Apart

LEMMA IncomingCurrent ==
    ASSUME Faults = {}, IInv, IInv', Apart, Current, NEW s \in Sessions, Incoming(s)
    PROVE  Current'
<1>0. /\ active \in States /\ bus \in Buses /\ queue \in Seq(Sessions)
      /\ Single(queue) /\ pc = "read" /\ Queued' \subseteq Sessions
      /\ \A t \in Queued : t \notin Ids(active) /\ ~Written(t)
  <2>1. pc = "read"
    BY DEF Incoming, CancelActive, CancelQueued, CancelUnknown, Update,
           Accept, Reject, Enqueue, Preempt, New, Take
  <2>2. Queued' \subseteq Sessions /\ Queued \subseteq Sessions
    <3>1. TypeOK /\ TypeOK'
      BY DEF IInv
    <3>2. \A t \in ToSet(queue') : t \in Sessions
      BY <3>1, ElementOfSeq, LenProperties DEF ToSet, TypeOK
    <3> QED BY <3>1, <3>2, QueuedSessions DEF Queued
  <2> QED BY <2>1, <2>2 DEF IInv, TypeOK, States, Buses, Apart
<1>1. CASE CancelActive(s)
  <2> DEFINE promoted == IF queue = <<>> THEN {} ELSE {Head(queue)}
             dropped(o) == (promoted \cap Ids(active))
                           \cup (IF o.ok THEN {s} ELSE {})
             left(o) == [t \in Sessions |->
                            IF o.ok /\ t = s THEN NoSession
                            ELSE IF t \in promoted THEN Fresh
                            ELSE IF t = s THEN o.to ELSE active[t]]
  <2>1. PICK o \in HandleCancel(active[s]) :
          active' = left(o) /\ bus' = Dispose(Show(bus, s, o), dropped(o))
    BY <1>1 DEF CancelActive
  <2>2. s \in Ids(active) /\ active[s] \in CommandState /\ s \notin Queued
    BY <1>0, <1>1, ActiveFacts DEF CancelActive, Ids
  <2>3. o \in Outcome /\ o.ok
    BY <2>1, <2>2, CancelOutcome, Announced
  <2>4. promoted \subseteq Queued /\ Queued' \subseteq Queued
    <3>1. queue' = IF queue = <<>> THEN queue ELSE Tail(queue)
      BY <1>1 DEF CancelActive
    <3>2. CASE queue = <<>>
      BY <3>1, <3>2 DEF Queued
    <3>3. CASE queue # <<>>
      BY <1>0, <3>1, <3>3, TailFacts DEF Queued
    <3> QED BY <3>2, <3>3
  <2>5. dropped(o) = {s}
    BY <1>0, <2>3, <2>4
  <2>6. \A t \in Sessions \ {s} : bus'[t] = bus[t]
    <3>1. Show(bus, s, o) \in Buses
          /\ \A t \in Sessions \ {s} : Show(bus, s, o)[t] = bus[t]
      BY <1>0, <2>3, ShowFacts
    <3> QED BY <2>1, <2>5, <3>1, DisposeFacts
  <2>7. s \notin Ids(active') /\ s \notin Queued'
    BY <2>1, <2>2, <2>3, <2>4 DEF Ids, IsActive, NoSession
  <2>8. \A t \in Sessions \ {s} : t \in Ids(active') =>
            \/ t \in Ids(active) /\ active'[t] = active[t]
            \/ t \in Queued /\ active'[t] = Fresh
    BY <2>1, <2>4 DEF Ids, IsActive
  <2> QED BY <1>0, <2>4, <2>6, <2>7, <2>8, KeepsCurrent
<1>2. CASE CancelQueued(s)
  <2>1. PICK o \in HandleCancel(Fresh) : bus' = Dispose(Show(bus, s, o), {s})
    BY <1>2 DEF CancelQueued
  <2>2. o \in Outcome /\ active' = active /\ s \notin Ids(active) /\ Queued' = Queued \ {s}
    BY <1>0, <1>2, CancelOutcome, MachineStates, SingleRemove DEF CancelQueued, Queued
  <2>3. Show(bus, s, o) \in Buses
        /\ \A t \in Sessions \ {s} : Show(bus, s, o)[t] = bus[t]
    BY <1>0, <2>2, ShowFacts
  <2>4. \A t \in Sessions \ {s} : bus'[t] = bus[t]
    BY <2>1, <2>3, DisposeFacts
  <2> QED BY <1>0, <2>2, <2>4, KeepsCurrent
<1>3. CASE CancelUnknown(s) \/ Preempt(s)
  <2>1. UNCHANGED <<active, queue, bus>>
    BY <1>3 DEF CancelUnknown, Preempt
  <2>2. (s \in Queued => Shows(bus, s, Fresh)) /\ (s \in Ids(active) => Shows(bus, s, active[s]))
    BY <1>0 DEF Current, Early
  <2> QED BY <1>0, <2>1, <2>2, KeepsCurrent DEF Queued
<1>4. ASSUME Take("write", s) PROVE s \notin Queued
  BY <1>4, TakeWritten
<1>5. CASE Update(s)
  <2>1. PICK o \in HandleUpdate(active[s]) :
          active' = [active EXCEPT ![s] = o.to] /\ bus' = Show(bus, s, o)
    BY <1>5 DEF Update
  <2>2. /\ s \in Ids(active) /\ active[s] \in CommandState /\ s \notin Queued
        /\ queue' = queue
    BY <1>0, <1>4, <1>5, ActiveFacts DEF Update
  <2>3. o \in Outcome /\ (o.sent \/ o.to = active[s])
    BY <2>1, <2>2, UpdateOutcome, Announced
  <2>4. Shows(bus', s, o.to)
    BY <1>0, <2>1, <2>2, <2>3, ShowsOutcome DEF Current, Early
  <2>5. active'[s] = o.to /\ \A t \in Sessions \ {s} : active'[t] = active[t] /\ bus'[t] = bus[t]
    BY <1>0, <2>1, <2>3, ShowFacts DEF States
  <2>6. \A t \in Sessions \ {s} : t \in Ids(active') => t \in Ids(active)
    BY <2>5 DEF Ids, IsActive
  <2> QED BY <1>0, <2>2, <2>4, <2>5, <2>6, KeepsCurrent DEF Queued
<1>6. CASE Accept(s)
  <2>1. PICK status \in May("send"), ack \in May("send") :
          /\ active' = [active EXCEPT ![s] = Fresh]
          /\ bus' = Greet(bus, s, status, status /\ ack)
    BY <1>6 DEF Accept, Add
  <2>2. /\ status = TRUE /\ (status /\ ack) = TRUE
        /\ Shows(bus', s, Fresh) /\ queue' = queue /\ s \notin Queued
    <3>1. Shows(Greet(bus, s, TRUE, TRUE), s, Fresh)
      BY <1>0, NoFaults, GreetingCurrent
    <3>2. status = TRUE /\ ack = TRUE
      BY NoFaults
    <3>3. Shows(bus', s, Fresh)
      BY <2>1, <3>1, <3>2
    <3> QED BY <1>4, <1>6, <3>2, <3>3 DEF Accept, New
  <2>3. active'[s] = Fresh /\ \A t \in Sessions \ {s} : active'[t] = active[t] /\ bus'[t] = bus[t]
    BY <1>0, <2>1, <2>2, GreetFacts DEF States
  <2>4. \A t \in Sessions \ {s} : t \in Ids(active') => t \in Ids(active)
    BY <2>3 DEF Ids, IsActive
  <2> QED BY <1>0, <2>2, <2>3, <2>4, KeepsCurrent DEF Queued
<1>7. CASE Reject(s)
  <2> DEFINE refused(failed) == [to |-> Failed("SERVICE_FAILED"), ok |-> TRUE,
                                 sent |-> failed, exe |-> FALSE]
  <2>1. PICK status \in May("send"), ack \in May("send"), failed \in May("send") :
          bus' = Dispose(Show(Greet(bus, s, status, ack), s, refused(failed)), {s})
    BY <1>7 DEF Reject
  <2>2. status \in BOOLEAN /\ ack \in BOOLEAN /\ failed \in BOOLEAN
    BY MayIsBoolean
  <2>3. refused(failed) \in Outcome
    BY <2>2, MachineStates DEF Outcome, FailureReasons
  <2>4. PICK b \in Buses : /\ bus' = Dispose(b, {s})
                           /\ \A t \in Sessions \ {s} : b[t] = bus[t]
    BY <1>0, <2>1, <2>2, <2>3, GreetFacts, ShowFacts
  <2>5. \A t \in Sessions \ {s} : bus'[t] = bus[t]
    BY <2>4, DisposeFacts
  <2>6. /\ active' = active /\ queue' = queue
        /\ s \notin Queued /\ s \notin Ids(active)
    BY <1>4, <1>7 DEF Reject, New, Ids
  <2> QED BY <1>0, <2>5, <2>6, KeepsCurrent DEF Queued
<1>8. CASE Enqueue(s)
  <2>1. PICK status \in May("send"), ack \in May("send") :
          bus' = Greet(bus, s, status, ack)
    BY <1>8 DEF Enqueue
  <2>2. /\ status \in BOOLEAN /\ ack \in BOOLEAN /\ Shows(bus', s, Fresh)
        /\ \A t \in Sessions \ {s} : bus'[t] = bus[t]
    <3>1. status \in BOOLEAN /\ ack \in BOOLEAN
      BY MayIsBoolean
    <3>2. Shows(Greet(bus, s, status, ack), s, Fresh)
      BY <1>0, GreetingCurrent
    <3> QED BY <1>0, <2>1, <3>1, <3>2, GreetFacts
  <2>3. Queued' = Queued \cup {s} /\ active' = active /\ s \notin Ids(active)
    BY <1>0, <1>8, AppendFacts DEF Enqueue, Queued, New, Ids
  <2> QED BY <1>0, <2>2, <2>3, KeepsCurrent
<1> QED BY <1>1, <1>2, <1>3, <1>5, <1>6, <1>7, <1>8 DEF Incoming

LEMMA CycleCurrent ==
    ASSUME Faults = {}, IInv, IInv', Apart, Current, Cycle
    PROVE  Current'
<1>0. /\ active \in States /\ bus \in Buses /\ queue \in Seq(Sessions)
      /\ Queued \subseteq Sessions /\ Single(queue)
      /\ \A t \in Queued : t \notin Ids(active) /\ ~(pc = "preempt" /\ cur = t)
  <2>1. Queued \subseteq Sessions
    BY QueuedSessions DEF IInv
  <2> QED BY <2>1 DEF IInv, TypeOK, States, Buses, Apart
<1>1. ASSUME UNCHANGED <<active, queue, bus>>, pc # "preempt" PROVE Current'
  BY <1>1 DEF Current, Early, Queued, Shows
<1>2. ASSUME NEW s \in Ids(active), NEW o \in Outcome, o.sent \/ o.to = active[s],
             pc # "preempt", UNCHANGED queue,
             active' = [active EXCEPT ![s] = o.to], bus' = Show(bus, s, o)
      PROVE  Current'
  <2>1. s \in Sessions /\ s \notin Queued
    BY <1>0, <1>2, ActiveFacts
  <2>2. Shows(bus', s, o.to)
    BY <1>0, <1>2, <2>1, ShowsOutcome DEF Current, Early
  <2>3. active'[s] = o.to /\ \A t \in Sessions \ {s} : active'[t] = active[t] /\ bus'[t] = bus[t]
    BY <1>0, <1>2, <2>1, ShowFacts DEF States
  <2>4. \A t \in Sessions \ {s} : t \in Ids(active') => t \in Ids(active)
    BY <2>3 DEF Ids, IsActive
  <2>5. Queued' = Queued
    BY <1>2 DEF Queued
  <2> QED BY <1>0, <1>2, <2>1, <2>2, <2>3, <2>4, <2>5, KeepsCurrent
<1>3. CASE OnCycle \/ ReadError \/ ReadNothing
  BY <1>1, <1>3 DEF OnCycle, ReadError, ReadNothing
<1>4. CASE \E s \in Sessions : Incoming(s)
  BY <1>4, IncomingCurrent
<1>5. CASE \E s \in Sessions : Reissue(s)
  <2>0. PICK s \in Sessions : Reissue(s)
    BY <1>5
  <2>1. PICK o \in HandleIssued(active[s]) :
          active' = [active EXCEPT ![s] = o.to] /\ bus' = Show(bus, s, o)
    BY <2>0 DEF Reissue
  <2>2. /\ pc # "preempt" /\ queue' = queue
        /\ s \in Ids(active) /\ active[s] = Updated /\ active[s] \in CommandState
    BY <2>0, MachineStates DEF Reissue, IInv, LoopOK
  <2>3. o \in Outcome /\ (o.sent \/ o.to = active[s])
    <3>1. o \in Outcome
      BY <2>1, <2>2, IssuedOutcome DEF Updated, NonFinal
    <3> QED BY <2>1, <2>2, <3>1, Announced
  <2> QED BY <1>2, <2>1, <2>2, <2>3
<1>6. CASE \E s \in Sessions : CycleSession(s)
  <2>0. PICK s \in Sessions : CycleSession(s)
    BY <1>6
  <2>1. PICK o \in HandleState(active[s]) :
          active' = [active EXCEPT ![s] = o.to] /\ bus' = Show(bus, s, o)
    BY <2>0 DEF CycleSession
  <2>2. /\ pc = "sessions" /\ (cur = s \/ s \in todo) /\ queue' = queue
    BY <2>0 DEF CycleSession
  <2>3. s \in Ids(active) /\ active[s] \in CommandState
    BY <1>0, <2>2, ActiveFacts, ProviderAssumption DEF IInv, LoopOK, ProviderAssumption
  <2>4. o \in Outcome /\ (o.sent \/ o.to = active[s])
    BY <2>1, <2>3, StateOutcome, Announced
  <2> QED BY <1>2, <2>1, <2>2, <2>3, <2>4
<1>7. CASE \E s \in Sessions : AbortOne(s)
  <2>0. PICK s \in Sessions : AbortOne(s)
    BY <1>7
  <2>1. PICK o \in HandleFailure(active[s], "SERVICE_FAILED") :
          active' = [active EXCEPT ![s] = o.to] /\ bus' = Show(bus, s, o)
    BY <2>0 DEF AbortOne
  <2>2. pc = "abort" /\ s \in todo /\ queue' = queue
    BY <2>0 DEF AbortOne
  <2>3. s \in Ids(active) /\ active[s] \in CommandState
    BY <1>0, <2>2, ActiveFacts DEF IInv, LoopOK
  <2>4. o \in Outcome /\ (o.sent \/ o.to = active[s])
    BY <2>1, <2>3, FailureOutcome, Announced DEF FailureReasons
  <2> QED BY <1>2, <2>1, <2>2, <2>3, <2>4
<1>8. CASE \E t \in Sessions : PreemptOne(t)
  <2>0. PICK t \in Sessions : PreemptOne(t)
    BY <1>8
  <2>1. /\ pc = "preempt" /\ t \in todo /\ queue' = queue /\ behavior' = behavior
        /\ t \in Ids(active) /\ active[t] \in CommandState /\ t \in Sessions
        /\ behavior \in {"CANCEL_EXISTING", "COMPLETE_EXISTING"}
    BY <2>0, <1>0, ActiveFacts DEF PreemptOne, IInv, LoopOK
  <2>2. Shows(bus, t, active[t])
    BY <2>1 DEF Current, Early
  <2>3. PICK o \in IF behavior = "CANCEL_EXISTING" THEN HandleCancel(active[t])
                   ELSE CompleteExisting :
          \/ /\ active' = IF behavior = "CANCEL_EXISTING"
                          THEN [active EXCEPT ![t] = o.to] ELSE active
             /\ bus' = Show(bus, t, o) /\ todo' = todo \ {t}
             /\ UNCHANGED pc
          \/ ~o.ok
    BY <2>0 DEF PreemptOne
  <2>4. o \in Outcome /\ o.ok /\ (o.sent \/ o.to = active[t])
    <3>1. [st |-> "COMPLETED", why |-> "SUCCEEDED"] \in CommandState
      BY DEF CommandState, Statuses, Reasons
    <3> QED BY <2>1, <2>3, <3>1, CancelOutcome, AnnounceOutcome, Announced
            DEF CompleteExisting
  <2>5. /\ active' = IF behavior = "CANCEL_EXISTING"
                     THEN [active EXCEPT ![t] = o.to] ELSE active
        /\ bus' = Show(bus, t, o) /\ todo' = todo \ {t}
        /\ UNCHANGED pc
    BY <2>3, <2>4
  <2>6. Shows(bus', t, o.to) /\ \A u \in Sessions \ {t} : bus'[u] = bus[u]
    BY <1>0, <2>1, <2>2, <2>4, <2>5, ShowsOutcome, ShowFacts
  <2>7. Ids(active') = Ids(active)
        /\ \A u \in Sessions \ {t} : active'[u] = active[u]
    <3>1. o.to \in CommandState
      BY <2>4 DEF Outcome
    <3>2. \A u \in Sessions \ {t} : active'[u] = active[u]
      BY <1>0, <2>5 DEF States
    <3>3. Ids([active EXCEPT ![t] = o.to]) = Ids(active)
      BY <1>0, <2>1, <3>1, SetState
    <3> QED BY <2>5, <3>2, <3>3
  <2>8. \A u \in Queued' : Shows(bus', u, Fresh)
    <3>1. \A u \in Queued' : u \in Queued /\ u \in Sessions \ {t}
      BY <1>0, <2>1 DEF Queued
    <3> QED BY <2>6, <3>1 DEF Current, Shows
  <2>9. ASSUME NEW u \in Ids(active'), u # t
        PROVE  Shows(bus', u, active'[u]) \/ Early(u)'
    <3>1. u \in Ids(active) /\ u \in Sessions \ {t}
      BY <2>7, <2>9 DEF Ids
    <3>2. bus'[u] = bus[u] /\ active'[u] = active[u] /\ todo' \subseteq todo
      BY <2>5, <2>6, <2>7, <3>1
    <3>3. Shows(bus, u, active[u]) \/ Early(u)
      BY <3>1 DEF Current
    <3> QED BY <2>1, <2>5, <3>2, <3>3 DEF Early, Shows
  <2>10. Shows(bus', t, active'[t]) \/ Early(t)'
    <3>1. CASE behavior = "CANCEL_EXISTING"
      <4>1. active'[t] = o.to
        BY <1>0, <2>1, <2>5, <3>1 DEF States
      <4> QED BY <2>6, <4>1
    <3>2. CASE behavior = "COMPLETE_EXISTING"
      <4>1. o.to = Completed
        BY <2>1, <2>3, <3>2, Announced
      <4> QED BY <2>1, <2>5, <2>6, <3>2, <4>1 DEF Early
    <3> QED BY <2>1, <3>1, <3>2
  <2> QED BY <2>8, <2>9, <2>10 DEF Current
<1>9. CASE PreemptDone
  <2> DEFINE b == Dispose(bus, Ids(active))
  <2>1. /\ pc = "preempt" /\ cur \in Sessions /\ cur \notin Queued /\ queue' = queue
        /\ Add(b, Nobody, cur)
    BY <1>0, <1>9 DEF PreemptDone, IInv, LoopOK
  <2>2. b \in Buses /\ \A t \in Sessions \ Ids(active) : b[t] = bus[t]
    BY <1>0, DisposeFacts
  <2> HIDE DEF b
  <2>3. /\ active' = [Nobody EXCEPT ![cur] = Fresh] /\ Ids(active') = {cur}
        /\ \A t \in Sessions \ {cur} : bus'[t] = b[t]
    BY <2>1, <2>2, AddFacts, NobodyFacts
  <2>4. Shows(bus', cur, Fresh) /\ active'[cur] = Fresh
    <3>1. PICK status \in May("send"), ack \in May("send") :
            bus' = Greet(b, cur, status, status /\ ack)
      BY <2>1 DEF Add
    <3>2. status = TRUE /\ ack = TRUE
      BY NoFaults
    <3>3. TRUE \in May("send")
      BY NoFaults
    <3>4. Shows(Greet(b, cur, TRUE, TRUE), cur, Fresh)
      BY <2>1, <2>2, <3>3, GreetingCurrent
    <3>5. Shows(bus', cur, Fresh)
      BY <3>1, <3>2, <3>4
    <3> QED BY <2>1, <2>3, <3>5 DEF Nobody
  <2>5. \A t \in Queued' : Shows(bus', t, Fresh)
    <3>1. \A t \in Queued' : t \in Queued /\ t \in Sessions \ {cur} /\ bus'[t] = bus[t]
      BY <1>0, <2>1, <2>2, <2>3 DEF Queued
    <3> QED BY <3>1 DEF Current, Shows
  <2> QED BY <2>3, <2>4, <2>5 DEF Current
<1>10. CASE AbortDone
  <2>1. Ids(active') = {} /\ bus' = Dispose(bus, Ids(active)) /\ Queued' = Queued
    BY <1>10, NobodyFacts DEF AbortDone, Queued
  <2>2. \A t \in Queued' : t \in Queued /\ bus'[t] = bus[t]
    BY <1>0, <2>1, DisposeFacts
  <2> QED BY <2>1, <2>2 DEF Current, Shows
<1>11. CASE EndCycle
  <2> DEFINE left == [s \in Sessions |-> IF s \in finals THEN NoSession
                                         ELSE active[s]]
  <2>1. pc = "sessions" /\ bus' = Dispose(bus, finals) /\ finals \subseteq Ids(active)
    BY <1>11 DEF EndCycle, IInv, LoopOK
  <2>2. \A t \in Sessions \ finals : bus'[t] = bus[t]
    BY <1>0, <2>1, DisposeFacts
  <2>3. Queued' \subseteq Queued /\
        \A t \in Ids(active') : \/ t \in Ids(active) \ finals /\ active'[t] = active[t]
                                \/ t \in Queued /\ active'[t] = Fresh
    <3>1. CASE active' = left /\ queue' = queue
      BY <3>1 DEF Ids, IsActive, NoSession, Queued
    <3>2. CASE /\ Promotes(left) /\ queue' = Tail(queue)
               /\ active' = [left EXCEPT ![Head(queue)] = Fresh]
      <4>1. queue # <<>> /\ Ids(left) = {}
        BY <3>2 DEF Promotes
      <4>2. Head(queue) \in Queued /\ Queued' \subseteq Queued
        BY <1>0, <3>2, <4>1, TailFacts DEF Queued
      <4>3. \A t \in Sessions : t # Head(queue) => t \notin Ids(active')
        <5>1. \A t \in Sessions : left[t].st = "NONE"
          BY <4>1 DEF Ids, IsActive
        <5>2. \A t \in Sessions : t # Head(queue) => active'[t] = left[t]
          BY <3>2
        <5> HIDE DEF left
        <5> QED BY <5>1, <5>2 DEF Ids, IsActive
      <4>4. active'[Head(queue)] = Fresh
        BY <1>0, <3>2, <4>2
      <4> QED BY <4>2, <4>3, <4>4 DEF Ids
    <3> QED BY <1>11, <3>1, <3>2 DEF EndCycle
  <2>4. \A t \in Queued' : Shows(bus', t, Fresh)
    BY <1>0, <2>1, <2>2, <2>3 DEF Current, Shows
  <2>5. \A t \in Ids(active') : Shows(bus', t, active'[t])
    <3>1. \A t \in Ids(active) : Shows(bus, t, active[t])
      BY <2>1 DEF Current, Early
    <3>2. \A t \in Ids(active') : t \in Sessions
      BY DEF Ids
    <3> QED BY <1>0, <2>1, <2>2, <2>3, <3>1, <3>2 DEF Current, Shows
  <2> QED BY <2>4, <2>5 DEF Current
<1> QED BY <1>3, <1>4, <1>5, <1>6, <1>7, <1>8, <1>9, <1>10, <1>11 DEF Cycle

LEMMA NextCurrent ==
    ASSUME Faults = {}, IInv, IInv', Apart, Current, [Next]_vars
    PROVE  Current'
<1>1. CASE Cycle
  BY <1>1, CycleCurrent
<1>2. CASE \E b \in Behaviors : SetBehavior(b)
  <2>1. UNCHANGED <<active, queue, bus>> /\ pc = "idle"
    BY <1>2 DEF SetBehavior
  <2> QED BY <2>1 DEF Current, Queued, Early, Shows
<1>3. CASE UNCHANGED <<active, queue, bus, pc, behavior, todo>>
  BY <1>3 DEF Current, Queued, Early, Shows
<1> QED BY <1>1, <1>2, <1>3 DEF Next, Send, Close, loopVars, vars

LEMMA CurrentShows == IInv /\ Apart /\ Current => StatusIsCurrent
<1> SUFFICES ASSUME IInv, Apart, Current, pc # "preempt", NEW s \in Held
             PROVE  /\ bus[s].alive /\ bus[s].ack
                    /\ [st |-> bus[s].st, why |-> bus[s].why] =
                           IF IsActive(active, s) THEN active[s] ELSE Fresh
  BY DEF StatusIsCurrent
<1>1. active \in States /\ s \in Sessions
  BY QueuedSessions DEF IInv, TypeOK, States, Held, Ids
<1>2. CASE s \in Ids(active)
  <2>1. Shows(bus, s, active[s]) /\ IsActive(active, s) /\ active[s] \in CommandState
    BY <1>1, <1>2, ActiveFacts DEF Current, Early
  <2>2. active[s] = [st |-> active[s].st, why |-> active[s].why]
    BY <2>1 DEF CommandState
  <2> QED BY <2>1, <2>2 DEF Shows
<1>3. CASE s \in Queued
  <2>1. Shows(bus, s, Fresh) /\ ~IsActive(active, s)
    BY <1>1, <1>3 DEF Current, Apart, Ids
  <2> QED BY <2>1 DEF Shows, Fresh
<1> QED BY <1>2, <1>3 DEF Held

LEMMA PatientApart == PatientSpec => Spec /\ []Apart
<1>1. IInv /\ Orderly /\ [PatientNext]_vars => (IInv /\ Orderly)'
  BY NextOrder, PatientIsNext, NextIInv
<1> QED BY <1>1, InitOrder, InitIInv, OrderlyApart, PatientIsNext, PTL DEF PatientSpec, Spec

\* Without QUEUE_INCOMING nothing is ever queued.
LEMMA UnqueuedApart ==
    ASSUME "QUEUE_INCOMING" \notin Behaviors
    PROVE  Spec => []Apart
<1> DEFINE NoQueue == queue = <<>>
<1>1. Init => NoQueue
  BY DEF Init
<1>2. IInv /\ NoQueue /\ [Next]_vars => NoQueue'
  <2> SUFFICES ASSUME IInv, queue = <<>>, [Next]_vars PROVE queue' = <<>>
    OBVIOUS
  <2>1. behavior # "QUEUE_INCOMING" /\ Queued = {}
    BY DEF IInv, TypeOK, Queued, ToSet
  <2>2. CASE \E s \in Sessions : Incoming(s)
    BY <2>1, <2>2 DEF Incoming, CancelActive, CancelQueued, CancelUnknown, Update,
                      Accept, Reject, Enqueue, Preempt
  <2>3. CASE EndCycle
    BY <2>1, <2>3 DEF EndCycle, Promotes
  <2> QED BY <2>2, <2>3 DEF Next, Cycle, OnCycle, ReadError, ReadNothing, Reissue,
             PreemptOne, PreemptDone, CycleSession, AbortOne, AbortDone, SetBehavior,
             Send, Close, vars
<1>3. NoQueue => Apart
  BY NobodyQueued
<1> HIDE DEF NoQueue
<1> QED BY <1>1, <1>2, <1>3, InitIInv, NextIInv, PTL DEF Spec

LEMMA CurrentAlways ==
    ASSUME Faults = {}
    PROVE  Spec /\ []Apart => []StatusIsCurrent
<1>1. Init => Current
  BY NobodyFacts DEF Init, Current, Queued, ToSet
<1>2. IInv /\ Current /\ Apart /\ [Next]_vars => (IInv /\ Current)'
  BY NextIInv, NextCurrent
<1> QED BY <1>1, <1>2, InitIInv, CurrentShows, PTL DEF Spec

\* While no call fails, what consumers see of a session the provider holds is its
\* state, whether it is active or queued: with patient consumers under any behaviours
\* and switches, and with any consumers under any behaviours that do not queue.
THEOREM StatusesAreCurrent ==
    ASSUME Faults = {}
    PROVE  PatientSpec => []StatusIsCurrent
BY CurrentAlways, PatientApart, PTL

\* With any consumers, what they see is the state of the session where no
\* behaviour queues.
THEOREM StatusesAreCurrentUnqueued ==
    ASSUME Faults = {}, "QUEUE_INCOMING" \notin Behaviors
    PROVE  Spec => []StatusIsCurrent
BY CurrentAlways, UnqueuedApart, PTL

-----------------------------------------------------------------------------
(* Where, besides, a service fails commands only for reasons the state     *)
(* machine accepts, no cycle fails, and the status instances live the life *)
(* CommandLifecycle describes.                                             *)

Smooth ==
    /\ Faults = {}
    /\ \A r \in CheckReasons : "EXECUTING" \in FailableFrom(r)

Valid(c, d) == <<c.st, d.st, d.why>> \in Lifecycle!ValidTransitions

LEMMA ValidMoves ==
    ASSUME NEW c \in CommandState, c.st \in NonFinal
    PROVE  /\ Valid(c, Updated) /\ Valid(c, Canceled) /\ Valid(c, Advanced(c))
           /\ \A r \in FailureReasons : CanFail(c, r) => Valid(c, Failed(r))
           /\ "COMPLETE_EXISTING" \in Behaviors => Valid(c, Completed)
<1> USE DEF Lifecycle!ValidTransitions, Lifecycle!NonTerminal, Valid, NonFinal
<1>1. Valid(c, Updated)
  BY DEF Updated
<1>2. Valid(c, Canceled)
  BY DEF Canceled
<1>3. Valid(c, Advanced(c))
  BY DEF Advanced, Successor
<1>4. ASSUME NEW r \in FailureReasons, CanFail(c, r) PROVE Valid(c, Failed(r))
  BY <1>4 DEF CanFail, FailableFrom, FailureReasons, Failed
<1>5. ASSUME "COMPLETE_EXISTING" \in Behaviors PROVE Valid(c, Completed)
  BY <1>5 DEF Completed
<1> QED BY <1>1, <1>2, <1>3, <1>4, <1>5

\* A handler called for a command that is not final succeeds and makes a valid move.
LEMMA SmoothMoves ==
    ASSUME Smooth, NEW c \in CommandState, c.st \in NonFinal
    PROVE  /\ \A o \in HandleCancel(c) : o.ok /\ o.sent /\ o.to = Canceled
           /\ \A o \in HandleUpdate(c) : o.ok /\ o.sent /\ o.to = Updated
           /\ \A o \in HandleState(c) : o.ok /\ (o.to # c => Valid(c, o.to))
           /\ c.st = "ISSUED" =>
                \A o \in HandleIssued(c) : o.ok /\ (o.to # c => Valid(c, o.to))
<1>0. Faults = {} /\ \A kind : \A r \in May(kind) : r = TRUE
  BY NoFaults DEF Smooth
<1>1. ASSUME NEW d, NEW o \in Conclude(d) PROVE o.ok /\ o.sent /\ o.to = d
  <2>1. PICK hook \in May("hook"), status \in May("send"), exe \in May("send") :
          o = [to   |-> d,
               ok   |-> hook /\ status /\ (HasExeStatus => exe),
               sent |-> hook /\ status,
               exe  |-> hook /\ status /\ HasExeStatus /\ exe]
    BY <1>1 DEF Conclude
  <2>2. hook = TRUE /\ status = TRUE /\ exe = TRUE
    BY <1>0
  <2> QED BY <2>1, <2>2
<1>2. ASSUME NEW d, NEW o \in Announce(d) PROVE o.ok /\ o.to = d
  <2>1. PICK p \in May("send") : o = [to |-> d, ok |-> p, sent |-> p, exe |-> FALSE]
    BY <1>2 DEF Announce
  <2>2. p = TRUE
    BY <1>0
  <2> QED BY <2>1, <2>2
<1>3. Quiet(c, TRUE).to = c /\ Quiet(c, TRUE).ok
  BY DEF Quiet
<1>4. ASSUME NEW r \in FailureReasons, CanFail(c, r), NEW o \in HandleFailure(c, r)
      PROVE  o.ok /\ Valid(c, o.to)
  <2>1. o \in Conclude(Failed(r))
    BY <1>4 DEF HandleFailure
  <2> QED BY <1>1, <1>4, <2>1, ValidMoves
<1>5. CanFail(c, "SERVICE_FAILED") /\ "SERVICE_FAILED" \in FailureReasons
  BY DEF CanFail, FailableFrom, FailureReasons
<1>6. \A o \in HandleCancel(c) : o.ok /\ o.sent /\ o.to = Canceled
  BY <1>1 DEF HandleCancel, IsStateFinal
<1>7. ASSUME NEW o \in HandleUpdate(c) PROVE o.ok /\ o.sent /\ o.to = Updated
  <2>0. ~IsStateFinal(c.st)
    BY DEF IsStateFinal
  <2>1. PICK hook \in May("hook"), status \in May("send") :
          o = [to |-> Updated, ok |-> hook /\ status, sent |-> hook /\ status,
               exe |-> FALSE]
    BY <1>7, <2>0 DEF HandleUpdate
  <2>2. hook = TRUE /\ status = TRUE
    BY <1>0
  <2> QED BY <2>1, <2>2
<1>8. \A o \in Announce(Advanced(c)) : o.ok /\ Valid(c, o.to)
  BY <1>2, ValidMoves
<1>9. ASSUME c.st = "ISSUED", NEW o \in HandleIssued(c)
      PROVE  o.ok /\ (o.to # c => Valid(c, o.to))
  <2>1. CanFail(c, "VALIDATION_FAILED") /\ "VALIDATION_FAILED" \in FailureReasons
    BY <1>9 DEF CanFail, FailableFrom, FailureReasons
  <2> QED BY <1>3, <1>4, <1>5, <1>8, <1>9, <2>1 DEF HandleIssued
<1>10. ASSUME NEW o \in HandleCommanded(c)
       PROVE  o.ok /\ (o.to # c => Valid(c, o.to))
  BY <1>3, <1>4, <1>5, <1>8, <1>10 DEF HandleCommanded
<1>11. ASSUME c.st = "EXECUTING", NEW o \in HandleExecuting(c)
       PROVE  o.ok /\ (o.to # c => Valid(c, o.to))
  <2>1. \A r \in CheckReasons : r \in FailureReasons /\ CanFail(c, r)
    BY <1>11, ProviderAssumption DEF Smooth, CanFail, ProviderAssumption
  <2>2. ASSUME o \in SendExecutionStatus(c) PROVE o.ok /\ o.to = c
    <3>1. CASE HasExeStatus
      <4>1. PICK x \in May("send") : o = [to |-> c, ok |-> x, sent |-> FALSE, exe |-> x]
        BY <2>2, <3>1 DEF SendExecutionStatus
      <4>2. x = TRUE
        BY <1>0
      <4> QED BY <4>1, <4>2
    <3>2. CASE ~HasExeStatus
      BY <1>3, <2>2, <3>2 DEF SendExecutionStatus
    <3> QED BY <3>1, <3>2
  <2>3. o \in HandleCompleted(c) => o.ok /\ Valid(c, o.to)
    BY <1>1, ValidMoves DEF HandleCompleted
  <2> QED BY <1>4, <1>5, <1>11, <2>1, <2>2, <2>3 DEF HandleExecuting
<1>12. \A o \in HandleState(c) : o.ok /\ (o.to # c => Valid(c, o.to))
  BY <1>9, <1>10, <1>11 DEF HandleState, NonFinal
<1> QED BY <1>6, <1>7, <1>9, <1>12

\* A final command is noticed: the loop over the sessions comes to it or has found
\* it, or it was canceled to make room.
Noticed(s) ==
    \/ pc = "sessions" /\ s \in todo \cup finals \cup {cur}
    \/ pc = "preempt" /\ behavior = "CANCEL_EXISTING" /\ s \notin todo

SmoothInv ==
    /\ pc # "abort"
    /\ \A s \in finals : IsStateFinal(active[s].st)
    /\ \A s \in Ids(active) : IsStateFinal(active[s].st) => Noticed(s)
    /\ pc = "preempt" =>
          \A s \in Ids(active) : s \in todo \/ bus[s].st \in {"COMPLETED", "CANCELED"}

Inst(b, t) == [st |-> b[t].st, why |-> b[t].why, alive |-> b[t].alive]

\* The step is one of the life of session t.
Lives(t) ==
    \/ Inst(bus', t) = Inst(bus, t)
    \/ Lifecycle!Opens(Inst(bus, t), Inst(bus', t))
    \/ Lifecycle!Reports(Inst(bus, t), Inst(bus', t))
    \/ Lifecycle!Closes(Inst(bus, t), Inst(bus', t))

LEMMA LivesSame == ASSUME NEW t, bus'[t] = bus[t] PROVE Lives(t)
BY DEF Lives, Inst

LEMMA LivesReported ==
    ASSUME bus \in Buses, bus' \in Buses, NEW t \in Sessions, NEW c, NEW d,
           Shows(bus, t, c), Shows(bus', t, d), c = d \/ Valid(c, d)
    PROVE  Lives(t)
<1>1. CASE c = d
  <2>1. bus[t].alive = TRUE /\ bus'[t].alive = TRUE
    BY DEF Buses, Instances, Shows
  <2> QED BY <1>1, <2>1 DEF Lives, Inst, Shows
<1>2. CASE Valid(c, d)
  BY <1>2 DEF Lives, Inst, Shows, Lifecycle!Reports, Lifecycle!Moves, Valid
<1> QED BY <1>1, <1>2

LEMMA LivesOpened ==
    ASSUME NEW t, ~bus[t].alive, Shows(bus', t, Fresh)
    PROVE  Lives(t)
BY DEF Lives, Inst, Shows, Fresh, Lifecycle!Opens

LEMMA LivesRefused ==
    ASSUME NEW t, ~bus[t].alive, ~bus'[t].alive,
           bus'[t].st = "FAILED", bus'[t].why = "SERVICE_FAILED"
    PROVE  Lives(t)
BY DEF Lives, Inst, Lifecycle!Opens

LEMMA LivesClosed ==
    ASSUME NEW t, NEW c, Shows(bus, t, c), ~bus'[t].alive,
           bus'[t].st \in Lifecycle!Terminal,
           \/ bus'[t].st = c.st /\ bus'[t].why = c.why
           \/ Valid(c, bus'[t])
    PROVE  Lives(t)
BY DEF Lives, Inst, Shows, Valid, Lifecycle!Closes, Lifecycle!SameStatus, Lifecycle!Moves

LEMMA DisposedStatus ==
    ASSUME NEW b \in Buses, NEW D, NEW t \in Sessions
    PROVE  Dispose(b, D)[t].st = b[t].st /\ Dispose(b, D)[t].why = b[t].why
BY DEF Dispose, Buses, Instances

\* A handler was called for session s.
LEMMA LivesHandled ==
    ASSUME IInv, NEW s \in Ids(active), NEW o \in Outcome, Shows(bus, s, active[s]),
           bus' = Show(bus, s, o), o.sent \/ o.to = active[s],
           o.to = active[s] \/ Valid(active[s], o.to)
    PROVE  \A t \in Sessions : Lives(t)
<1>1. bus \in Buses /\ s \in Sessions
  BY DEF IInv, TypeOK, Buses, Ids
<1>2. Shows(bus', s, o.to) /\ bus' \in Buses /\ \A t \in Sessions \ {s} : bus'[t] = bus[t]
  BY <1>1, ShowsOutcome, ShowFacts
<1> QED BY <1>1, <1>2, LivesReported, LivesSame

LEMMA SmoothProceeds ==
    ASSUME Proceed(active'), finals' = {}
    PROVE  SmoothInv'
BY DEF Proceed, SmoothInv, Noticed

LEMMA SmoothStarts ==
    ASSUME finals' = {}, pc' # "abort",
           \A t \in Ids(active') : ~IsStateFinal(active'[t].st),
           pc' = "preempt" => Ids(active') \subseteq todo'
    PROVE  SmoothInv'
BY DEF SmoothInv

\* A session that is not held has no instances, so that its life opens.
LEMMA NewIsNotAlive ==
    ASSUME InstancesHeld, IInv, Apart, NEW s \in Sessions, New(s)
    PROVE  ~bus[s].alive /\ s \notin Queued /\ s \notin Ids(active)
<1>1. s \notin Queued /\ s \notin Ids(active)
  BY TakeWritten DEF New, Ids
<1> QED BY <1>1 DEF InstancesHeld, Held

LEMMA IncomingSmooth ==
    ASSUME Smooth, IInv, Apart, Current, SmoothInv, InstancesHeld,
           NEW s \in Sessions, Incoming(s)
    PROVE  SmoothInv' /\ \A t \in Sessions : Lives(t)
<1>0. /\ active \in States /\ bus \in Buses /\ queue \in Seq(Sessions)
      /\ pc = "read" /\ finals' = {} /\ Faults = {}
      /\ \A t \in Ids(active) : active[t].st \in NonFinal /\ Shows(bus, t, active[t])
      /\ \A t \in Queued : t \notin Ids(active) /\ Shows(bus, t, Fresh)
  <2>1. pc = "read" /\ finals' = finals
    BY DEF Incoming, CancelActive, CancelQueued, CancelUnknown, Update,
           Accept, Reject, Enqueue, Preempt, New, Take
  <2>2. finals = {}
    BY <2>1 DEF IInv, LoopOK
  <2>3. \A t \in Ids(active) : active[t].st \in NonFinal /\ Shows(bus, t, active[t])
    BY <2>1 DEF SmoothInv, Noticed, Current, Early, IsStateFinal
  <2> QED BY <2>1, <2>2, <2>3 DEF IInv, TypeOK, States, Buses, Apart, Current, Smooth
<1>1. CASE CancelActive(s)
  <2> DEFINE promoted == IF queue = <<>> THEN {} ELSE {Head(queue)}
             dropped(o) == (promoted \cap Ids(active))
                           \cup (IF o.ok THEN {s} ELSE {})
             left(o) == [t \in Sessions |->
                            IF o.ok /\ t = s THEN NoSession
                            ELSE IF t \in promoted THEN Fresh
                            ELSE IF t = s THEN o.to ELSE active[t]]
  <2>1. PICK o \in HandleCancel(active[s]) :
          /\ active' = left(o) /\ bus' = Dispose(Show(bus, s, o), dropped(o))
          /\ IF o.ok THEN Proceed(left(o)) ELSE GiveUp(left(o))
    BY <1>1 DEF CancelActive
  <2>2. s \in Ids(active) /\ active[s] \in CommandState
    BY <1>0, <1>1, ActiveFacts DEF CancelActive, Ids
  <2>3. o \in Outcome /\ o.ok /\ o.sent /\ o.to = Canceled
    BY <1>0, <2>1, <2>2, CancelOutcome, SmoothMoves
  <2>4. promoted \subseteq Queued
    BY <1>0, TailFacts DEF Queued
  <2>5. dropped(o) = {s}
    BY <1>0, <2>3, <2>4
  <2>6. SmoothInv'
    BY <1>0, <2>1, <2>3, SmoothProceeds
  <2>7. Show(bus, s, o) \in Buses
        /\ \A t \in Sessions \ {s} : Show(bus, s, o)[t] = bus[t]
    BY <1>0, <2>3, ShowFacts
  <2>8. \A t \in Sessions \ {s} : bus'[t] = bus[t]
    BY <2>1, <2>5, <2>7, DisposeFacts
  <2>9. Lives(s)
    <3>1. ~bus'[s].alive /\ bus'[s].st = "CANCELED" /\ bus'[s].why = "CANCELED"
      BY <1>0, <2>1, <2>3, <2>5, <2>7, DisposeFacts, DisposedStatus, ShownStatus
         DEF Canceled
    <3>2. Valid(active[s], bus'[s])
      BY <1>0, <2>2, <3>1, ValidMoves DEF Valid, Canceled
    <3> QED BY <1>0, <2>2, <3>1, <3>2, LivesClosed DEF Lifecycle!Terminal
  <2> QED BY <2>6, <2>8, <2>9, LivesSame
<1>2. CASE CancelQueued(s)
  <2>1. PICK o \in HandleCancel(Fresh) :
          /\ bus' = Dispose(Show(bus, s, o), {s})
          /\ IF o.ok THEN Proceed(active) ELSE GiveUp(active)
    BY <1>2 DEF CancelQueued
  <2>2. Fresh \in CommandState /\ Fresh.st \in NonFinal /\ s \in Queued /\ active' = active
    BY <1>2, MachineStates DEF CancelQueued, Fresh, NonFinal
  <2>3. o \in Outcome /\ o.ok /\ o.sent /\ o.to = Canceled
    BY <2>1, <2>2, CancelOutcome, SmoothMoves
  <2>4. Show(bus, s, o) \in Buses
        /\ \A t \in Sessions \ {s} : Show(bus, s, o)[t] = bus[t]
    BY <1>0, <2>3, ShowFacts
  <2>5. \A t \in Sessions \ {s} : bus'[t] = bus[t]
    BY <2>1, <2>4, DisposeFacts
  <2>6. Lives(s)
    <3>1. ~bus'[s].alive /\ bus'[s].st = "CANCELED" /\ bus'[s].why = "CANCELED"
      BY <1>0, <2>1, <2>3, <2>4, DisposeFacts, DisposedStatus, ShownStatus
         DEF Canceled
    <3>2. Valid(Fresh, bus'[s])
      BY <2>2, <3>1, ValidMoves DEF Valid, Canceled
    <3> QED BY <1>0, <2>2, <3>1, <3>2, LivesClosed DEF Lifecycle!Terminal
  <2>7. SmoothInv'
    BY <1>0, <2>1, <2>2, <2>3, SmoothProceeds
  <2> QED BY <2>5, <2>6, <2>7, LivesSame
<1>3. CASE CancelUnknown(s)
  BY <1>0, <1>3, SmoothProceeds, LivesSame DEF CancelUnknown
<1>4. CASE Preempt(s)
  <2>1. active' = active /\ bus' = bus /\ pc' = "preempt" /\ todo' = Ids(active)
    BY <1>4 DEF Preempt
  <2> QED BY <1>0, <2>1, SmoothStarts, LivesSame DEF IsStateFinal
<1>5. CASE Update(s)
  <2>1. PICK o \in HandleUpdate(active[s]) :
          /\ active' = [active EXCEPT ![s] = o.to] /\ bus' = Show(bus, s, o)
          /\ o.ok => pc' = "reissue"
    BY <1>5 DEF Update
  <2>2. s \in Ids(active) /\ active[s] \in CommandState
    BY <1>0, <1>5, ActiveFacts DEF Update
  <2>3. o \in Outcome /\ o.ok /\ o.sent /\ o.to = Updated
    BY <1>0, <2>1, <2>2, UpdateOutcome, SmoothMoves
  <2>4. \A t \in Ids(active') : ~IsStateFinal(active'[t].st)
    <3>1. active'[s] = Updated /\ \A t \in Sessions \ {s} : active'[t] = active[t]
      BY <1>0, <2>1, <2>3 DEF States
    <3>2. \A t \in Ids(active') : t = s \/ (t \in Ids(active) /\ active'[t] = active[t])
      BY <3>1 DEF Ids, IsActive
    <3> QED BY <1>0, <3>1, <3>2 DEF IsStateFinal, Updated, NonFinal
  <2>5. SmoothInv'
    BY <1>0, <2>1, <2>3, <2>4, SmoothStarts
  <2>6. Valid(active[s], o.to)
    BY <1>0, <2>2, <2>3, ValidMoves
  <2> QED BY <1>0, <2>1, <2>2, <2>3, <2>5, <2>6, LivesHandled
<1>6. CASE Accept(s)
  <2>1. PICK status \in May("send"), ack \in May("send") :
          /\ bus' = Greet(bus, s, status, status /\ ack)
          /\ IF status /\ ack THEN Proceed(active') ELSE GiveUp(active')
    BY <1>6 DEF Accept, Add
  <2>2. status = TRUE /\ ack = TRUE
    BY <1>0, NoFaults
  <2>3. SmoothInv'
    BY <1>0, <2>1, <2>2, SmoothProceeds
  <2>4. Shows(bus', s, Fresh)
    <3>1. TRUE \in May("send")
      BY <1>0, NoFaults
    <3>2. Shows(Greet(bus, s, TRUE, TRUE), s, Fresh)
      BY <1>0, <3>1, GreetingCurrent
    <3> QED BY <2>1, <2>2, <3>2
  <2>5. \A t \in Sessions \ {s} : bus'[t] = bus[t]
    BY <1>0, <2>1, <2>2, GreetFacts
  <2>6. ~bus[s].alive
    BY <1>6, NewIsNotAlive DEF Accept
  <2> QED BY <2>3, <2>4, <2>5, <2>6, LivesOpened, LivesSame
<1>7. CASE Reject(s)
  <2> DEFINE refused(failed) == [to |-> Failed("SERVICE_FAILED"), ok |-> TRUE,
                                 sent |-> failed, exe |-> FALSE]
  <2>1. PICK status \in May("send"), ack \in May("send"), failed \in May("send") :
          bus' = Dispose(Show(Greet(bus, s, status, ack), s, refused(failed)), {s})
    BY <1>7 DEF Reject
  <2>2. status \in BOOLEAN /\ ack \in BOOLEAN /\ failed \in BOOLEAN /\ failed = TRUE
    BY <1>0, MayIsBoolean, NoFaults
  <2>3. refused(failed) \in Outcome /\ refused(failed).sent
        /\ refused(failed).to.st = "FAILED" /\ refused(failed).to.why = "SERVICE_FAILED"
    BY <2>2, MachineStates DEF Outcome, FailureReasons, Failed
  <2>4. PICK b \in Buses : /\ bus' = Dispose(b, {s})
                           /\ \A t \in Sessions \ {s} : b[t] = bus[t]
                           /\ b[s].st = "FAILED" /\ b[s].why = "SERVICE_FAILED"
    <3>1. PICK g \in Buses : /\ g = Greet(bus, s, status, ack)
                             /\ \A t \in Sessions \ {s} : g[t] = bus[t]
      BY <1>0, <2>2, GreetFacts
    <3> HIDE DEF refused
    <3>2. PICK b \in Buses : /\ b = Show(g, s, refused(failed))
                             /\ \A t \in Sessions \ {s} : b[t] = g[t]
      BY <2>3, ShowFacts
    <3>3. b[s].st = "FAILED" /\ b[s].why = "SERVICE_FAILED"
      BY <2>3, <3>2, ShownStatus
    <3> QED BY <2>1, <3>1, <3>2, <3>3
  <2>5. \A t \in Sessions \ {s} : bus'[t] = bus[t]
    BY <2>4, DisposeFacts
  <2>6. ~bus[s].alive /\ Proceed(active') /\ ~bus'[s].alive
    BY <1>7, <2>4, NewIsNotAlive, DisposeFacts DEF Reject
  <2>7. bus'[s].st = "FAILED" /\ bus'[s].why = "SERVICE_FAILED"
    BY <2>4, DisposedStatus
  <2> QED BY <1>0, <2>5, <2>6, <2>7, SmoothProceeds, LivesRefused, LivesSame
<1>8. CASE Enqueue(s)
  <2>1. PICK status \in May("send"), ack \in May("send") :
          bus' = Greet(bus, s, status, ack)
    BY <1>8 DEF Enqueue
  <2>2. status \in BOOLEAN /\ ack \in BOOLEAN
    BY MayIsBoolean
  <2>3. Shows(bus', s, Fresh) /\ \A t \in Sessions \ {s} : bus'[t] = bus[t]
    BY <1>0, <2>1, <2>2, GreetFacts, GreetingCurrent
  <2>4. ~bus[s].alive /\ Proceed(active')
    BY <1>8, NewIsNotAlive DEF Enqueue
  <2> QED BY <1>0, <2>3, <2>4, SmoothProceeds, LivesOpened, LivesSame
<1> QED BY <1>1, <1>2, <1>3, <1>4, <1>5, <1>6, <1>7, <1>8 DEF Incoming

LEMMA CycleSmooth ==
    ASSUME Smooth, IInv, Apart, Current, SmoothInv, InstancesHeld, Cycle
    PROVE  SmoothInv' /\ \A t \in Sessions : Lives(t)
<1>0. /\ active \in States /\ bus \in Buses /\ pc # "abort" /\ Faults = {}
      /\ finals \subseteq Ids(active) /\ \A t \in Ids(active) : active[t] \in CommandState
  <2>1. finals \subseteq Ids(active)
    BY DEF IInv, LoopOK
  <2>2. active \in States /\ bus \in Buses
    BY DEF IInv, TypeOK, States, Buses
  <2> QED BY <2>1, <2>2, ActiveFacts DEF SmoothInv, Smooth
<1>1. FALSE \notin May("cycle") /\ FALSE \notin May("read")
  BY <1>0, NoFaults
<1>2. CASE OnCycle
  <2>1. pc = "idle" /\ pc' = "read" /\ UNCHANGED <<active, bus, finals>>
    BY <1>1, <1>2 DEF OnCycle
  <2>2. finals' = {} /\ \A t \in Ids(active') : ~IsStateFinal(active'[t].st)
    BY <2>1 DEF SmoothInv, Noticed, IInv, LoopOK
  <2> QED BY <2>1, <2>2, SmoothStarts, LivesSame
<1>3. CASE ReadError \/ ReadNothing
  <2>1. Proceed(active') /\ finals' = {} /\ bus' = bus
    BY <1>1, <1>3 DEF ReadError, ReadNothing, IInv, LoopOK
  <2> QED BY <2>1, SmoothProceeds, LivesSame
<1>4. CASE \E s \in Sessions : Incoming(s)
  BY <1>4, IncomingSmooth
<1>5. CASE \E s \in Sessions : Reissue(s)
  <2>0. PICK s \in Sessions : Reissue(s)
    BY <1>5
  <2>1. PICK o \in HandleIssued(active[s]) :
          /\ active' = [active EXCEPT ![s] = o.to] /\ bus' = Show(bus, s, o)
          /\ IF o.ok THEN Proceed(active') ELSE GiveUp(active')
    BY <2>0 DEF Reissue
  <2>2. /\ pc = "reissue" /\ s \in Ids(active) /\ finals' = {}
        /\ active[s] = Updated /\ active[s].st = "ISSUED" /\ active[s].st \in NonFinal
    BY <2>0 DEF Reissue, IInv, LoopOK, Updated, NonFinal
  <2>3. /\ o \in Outcome /\ (o.sent \/ o.to = active[s])
        /\ o.ok /\ (o.to = active[s] \/ Valid(active[s], o.to))
    BY <1>0, <2>1, <2>2, IssuedOutcome, Announced, SmoothMoves
  <2>4. Shows(bus, s, active[s])
    BY <2>2 DEF Current, Early
  <2> QED BY <2>1, <2>2, <2>3, <2>4, SmoothProceeds, LivesHandled
<1>6. CASE \E s \in Sessions : CycleSession(s)
  <2>0. PICK s \in Sessions : CycleSession(s)
    BY <1>6
  <2>1. PICK o \in HandleState(active[s]) :
          /\ active' = [active EXCEPT ![s] = o.to] /\ bus' = Show(bus, s, o)
          /\ cur' = IF Again(active[s], o) THEN s ELSE None
          /\ todo' = IF o.ok THEN todo \ {s} ELSE {}
    BY <2>0 DEF CycleSession
  <2>2. /\ pc = "sessions" /\ pc' = "sessions"
        /\ cur = s \/ (cur = None /\ s \in todo)
        /\ finals' = finals \cup {t \in {s} : IsStateFinal(active[t].st)}
    BY <2>0 DEF CycleSession
  <2>3. s \in Ids(active) /\ active[s] \in CommandState /\ Shows(bus, s, active[s])
    BY <1>0, <2>2, ProviderAssumption DEF IInv, LoopOK, ProviderAssumption, Current, Early
  <2>4. o \in Outcome /\ (o.sent \/ o.to = active[s])
    BY <1>0, <2>1, <2>3, StateOutcome, Announced
  <2>5. /\ o.ok /\ (o.to = active[s] \/ Valid(active[s], o.to))
        /\ IsStateFinal(active[s].st) => o.to = active[s]
    <3>1. CASE active[s].st \in NonFinal
      BY <2>1, <2>3, <3>1, SmoothMoves DEF IsStateFinal
    <3>2. CASE active[s].st \notin NonFinal
      <4>1. HandleState(active[s]) = {Quiet(active[s], TRUE)}
        BY <3>2 DEF HandleState, NonFinal
      <4>2. o.to = active[s] /\ o.ok
        BY <2>1, <4>1 DEF Quiet
      <4> QED BY <4>2
    <3> QED BY <3>1, <3>2
  <2>6. active'[s] = o.to /\ \A t \in Sessions \ {s} : active'[t] = active[t]
    BY <1>0, <2>1, <2>3 DEF States
  <2>7. \A t \in finals' : IsStateFinal(active'[t].st)
    <3>1. \A t \in finals : IsStateFinal(active[t].st) /\ t \in Sessions
      BY <1>0, ActiveFacts DEF SmoothInv
    <3> QED BY <2>2, <2>5, <2>6, <3>1
  <2>8. ASSUME NEW t \in Ids(active'), IsStateFinal(active'[t].st)
        PROVE  t \in todo' \cup finals' \cup {cur'}
    <3>1. CASE t = s
      BY <2>1, <2>2, <2>5, <2>6, <2>8, <3>1 DEF Again
    <3>2. CASE t # s
      <4>1. t \in Ids(active) /\ IsStateFinal(active[t].st) /\ t \in Sessions
        BY <2>6, <2>8, <3>2 DEF Ids, IsActive
      <4>2. t \in todo \cup finals /\ t \in Sessions
        BY <2>2, <3>2, <4>1, ProviderAssumption DEF SmoothInv, Noticed, ProviderAssumption
      <4> QED BY <2>1, <2>2, <2>5, <3>2, <4>2
    <3> QED BY <3>1, <3>2
  <2>9. SmoothInv'
    BY <2>2, <2>7, <2>8 DEF SmoothInv, Noticed
  <2> QED BY <2>1, <2>3, <2>4, <2>5, <2>9, LivesHandled
<1>7. CASE \E s \in Sessions : AbortOne(s)
  BY <1>0, <1>7 DEF AbortOne
<1>8. CASE \E t \in Sessions : PreemptOne(t)
  <2>0. PICK t \in Sessions : PreemptOne(t)
    BY <1>8
  <2>1. /\ pc = "preempt" /\ t \in todo /\ behavior' = behavior
        /\ t \in Ids(active) /\ active[t] \in CommandState /\ t \in Sessions
        /\ behavior \in {"CANCEL_EXISTING", "COMPLETE_EXISTING"} /\ behavior \in Behaviors
        /\ finals' = {}
    BY <2>0, <1>0, ActiveFacts DEF PreemptOne, IInv, LoopOK, TypeOK
  <2>2. Shows(bus, t, active[t]) /\ active[t].st \in NonFinal
    BY <2>1 DEF Current, Early, SmoothInv, Noticed, IsStateFinal
  <2>3. PICK o \in IF behavior = "CANCEL_EXISTING" THEN HandleCancel(active[t])
                   ELSE CompleteExisting :
          \/ /\ active' = IF behavior = "CANCEL_EXISTING"
                          THEN [active EXCEPT ![t] = o.to] ELSE active
             /\ bus' = Show(bus, t, o) /\ todo' = todo \ {t}
             /\ UNCHANGED pc
          \/ ~o.ok
    BY <2>0 DEF PreemptOne
  <2>4. /\ o \in Outcome /\ o.ok /\ o.sent /\ Valid(active[t], o.to)
        /\ o.to.st \in {"COMPLETED", "CANCELED"}
    <3>1. CASE behavior = "CANCEL_EXISTING"
      BY <2>1, <2>2, <2>3, <3>1, CancelOutcome, SmoothMoves, ValidMoves DEF Canceled
    <3>2. CASE behavior = "COMPLETE_EXISTING"
      <4>1. [st |-> "COMPLETED", why |-> "SUCCEEDED"] \in CommandState
        BY DEF CommandState, Statuses, Reasons
      <4>2. o \in CompleteExisting
        BY <2>3, <3>2
      <4> QED BY <1>0, <2>1, <2>2, <3>2, <4>1, <4>2, AnnounceOutcome, Announced, ValidMoves
              DEF CompleteExisting, Completed
    <3> QED BY <2>1, <3>1, <3>2
  <2>5. /\ active' = IF behavior = "CANCEL_EXISTING"
                     THEN [active EXCEPT ![t] = o.to] ELSE active
        /\ bus' = Show(bus, t, o) /\ todo' = todo \ {t}
        /\ UNCHANGED pc
    BY <2>3, <2>4
  <2>6. \A u \in Sessions : Lives(u)
    <3>1. bus' \in Buses /\ Shows(bus', t, o.to) /\ \A u \in Sessions \ {t} : bus'[u] = bus[u]
      BY <1>0, <2>1, <2>2, <2>4, <2>5, ShowsOutcome, ShowFacts
    <3> QED BY <1>0, <2>1, <2>2, <2>4, <3>1, LivesReported, LivesSame
  <2>7. ASSUME NEW u \in Ids(active'), u # t
        PROVE  /\ u \in todo' \/ bus'[u].st \in {"COMPLETED", "CANCELED"}
               /\ IsStateFinal(active'[u].st) => Noticed(u)'
    <3>1. active'[u] = active[u] /\ u \in Sessions
      BY <1>0, <2>1, <2>5, <2>7 DEF States, Ids
    <3>2. u \in Ids(active) /\ bus'[u] = bus[u]
      BY <1>0, <2>1, <2>4, <2>5, <2>7, <3>1, ShowFacts DEF Ids, IsActive
    <3>3. /\ u \in todo \/ bus[u].st \in {"COMPLETED", "CANCELED"}
          /\ IsStateFinal(active[u].st) => behavior = "CANCEL_EXISTING" /\ u \notin todo
      BY <2>1, <3>2 DEF SmoothInv, Noticed
    <3> QED BY <2>1, <2>5, <2>7, <3>1, <3>2, <3>3 DEF Noticed
  <2>8. /\ bus'[t].st \in {"COMPLETED", "CANCELED"}
        /\ IsStateFinal(active'[t].st) => Noticed(t)'
    <3>1. bus'[t].st = o.to.st
      BY <1>0, <2>1, <2>4, <2>5, ShownStatus
    <3>2. behavior # "CANCEL_EXISTING" => ~IsStateFinal(active'[t].st)
      BY <2>2, <2>5 DEF IsStateFinal
    <3> QED BY <2>1, <2>4, <2>5, <3>1, <3>2 DEF Noticed
  <2>9. SmoothInv'
    BY <2>1, <2>5, <2>7, <2>8 DEF SmoothInv
  <2> QED BY <2>6, <2>9
<1>9. CASE PreemptDone
  <2> DEFINE b == Dispose(bus, Ids(active))
  <2>1. /\ pc = "preempt" /\ todo = {} /\ finals' = {}
        /\ cur \in Sessions \ Ids(active) /\ cur \notin Queued
        /\ Add(b, Nobody, cur)
    BY <1>9 DEF PreemptDone, IInv, LoopOK, Apart
  <2>2. PICK status \in May("send"), ack \in May("send") :
          /\ bus' = Greet(b, cur, status, status /\ ack)
          /\ IF status /\ ack THEN Proceed(active') ELSE GiveUp(active')
    BY <2>1 DEF Add
  <2>3. status = TRUE /\ ack = TRUE /\ TRUE \in May("send")
    BY <1>0, NoFaults
  <2>4. SmoothInv'
    BY <2>1, <2>2, <2>3, SmoothProceeds
  <2>5. /\ b \in Buses /\ \A t \in Sessions \ Ids(active) : b[t] = bus[t]
        /\ \A t \in Ids(active) : t \in Sessions /\ ~b[t].alive
        /\ \A t \in Sessions : b[t].st = bus[t].st /\ b[t].why = bus[t].why
    BY <1>0, DisposeFacts, DisposedStatus, ActiveFacts
  <2> HIDE DEF b
  <2>6. Shows(bus', cur, Fresh) /\ \A t \in Sessions \ {cur} : bus'[t] = b[t]
    <3>1. Shows(Greet(b, cur, TRUE, TRUE), cur, Fresh)
      BY <1>0, <2>1, <2>3, <2>5, GreetingCurrent
    <3>2. bus' = Greet(b, cur, TRUE, TRUE)
      BY <2>2, <2>3
    <3> QED BY <2>1, <2>5, <3>1, <3>2, GreetFacts
  <2>7. Lives(cur)
    <3>1. ~bus[cur].alive
      BY <2>1 DEF InstancesHeld, Held
    <3> QED BY <2>6, <3>1, LivesOpened
  <2>8. ASSUME NEW t \in Ids(active) PROVE Lives(t)
    <3>1. t \in Sessions \ {cur} /\ bus'[t] = b[t]
      BY <2>1, <2>5, <2>6, <2>8
    <3>2. bus[t].st \in {"COMPLETED", "CANCELED"}
      BY <2>1 DEF SmoothInv
    <3>3. PICK c : Shows(bus, t, c)
      BY DEF Current, Early
    <3>4. /\ ~bus'[t].alive /\ bus'[t].st = c.st /\ bus'[t].why = c.why
          /\ bus'[t].st \in Lifecycle!Terminal
      BY <2>5, <3>1, <3>2, <3>3 DEF Shows, Lifecycle!Terminal
    <3> QED BY <3>3, <3>4, LivesClosed
  <2>9. ASSUME NEW t \in Sessions \ Ids(active), t # cur PROVE Lives(t)
    BY <2>5, <2>6, <2>9, LivesSame
  <2> QED BY <2>4, <2>7, <2>8, <2>9
<1>10. CASE AbortDone
  BY <1>0, <1>10 DEF AbortDone
<1>11. CASE EndCycle
  <2> DEFINE left == [s \in Sessions |-> IF s \in finals THEN NoSession
                                         ELSE active[s]]
  <2>1. /\ pc = "sessions" /\ bus' = Dispose(bus, finals) /\ pc' = "idle"
        /\ cur = None /\ todo = {} /\ finals' = {}
    BY <1>11 DEF EndCycle
  <2>2. \A t \in Sessions \ finals : bus'[t] = bus[t]
    BY <1>0, <2>1, DisposeFacts
  <2>3. ASSUME NEW t \in finals PROVE Lives(t)
    <3>1. /\ t \in Ids(active) /\ t \in Sessions /\ IsStateFinal(active[t].st)
          /\ active[t] \in CommandState /\ Shows(bus, t, active[t])
      BY <1>0, <2>1, ActiveFacts DEF SmoothInv, Current, Early
    <3>2. ~bus'[t].alive /\ bus'[t].st = active[t].st /\ bus'[t].why = active[t].why
      BY <1>0, <2>1, <3>1, DisposeFacts, DisposedStatus DEF Shows
    <3>3. active[t].st \in Lifecycle!Terminal
      BY <3>1 DEF CommandState, Statuses, IsStateFinal, NonFinal, Lifecycle!Terminal
    <3> QED BY <3>1, <3>2, <3>3, LivesClosed
  <2>4. \A t \in Ids(left) : ~IsStateFinal(left[t].st)
    <3> SUFFICES ASSUME NEW t \in Ids(left) PROVE ~IsStateFinal(left[t].st)
      OBVIOUS
    <3>1. t \in Ids(active) /\ t \notin finals /\ left[t] = active[t] /\ t # None
      BY ProviderAssumption DEF Ids, IsActive, NoSession, ProviderAssumption
    <3> QED BY <2>1, <3>1 DEF SmoothInv, Noticed
  <2>5. \A t \in Ids(active') : ~IsStateFinal(active'[t].st)
    <3>1. CASE active' = left
      BY <2>4, <3>1
    <3>2. CASE Promotes(left) /\ active' = [left EXCEPT ![Head(queue)] = Fresh]
      <4>1. \A t \in Sessions : left[t].st = "NONE"
        BY <3>2 DEF Promotes, Ids, IsActive
      <4>2. \A t \in Sessions : active'[t] = Fresh \/ active'[t] = left[t]
        BY <3>2
      <4> HIDE DEF left
      <4> QED BY <4>1, <4>2 DEF Ids, IsActive, Fresh, IsStateFinal, NonFinal
    <3> QED BY <1>11, <3>1, <3>2 DEF EndCycle
  <2>6. SmoothInv'
    BY <2>1, <2>5, SmoothStarts
  <2> QED BY <2>2, <2>3, <2>6, LivesSame
<1> QED BY <1>2, <1>3, <1>4, <1>5, <1>6, <1>7, <1>8, <1>9, <1>10, <1>11 DEF Cycle

LEMMA NextSmooth ==
    ASSUME Smooth, IInv, Apart, Current, SmoothInv, InstancesHeld, [Next]_vars
    PROVE  SmoothInv' /\ \A t \in Sessions : Lives(t)
<1>1. CASE Cycle
  BY <1>1, CycleSmooth
<1>2. CASE \E b \in Behaviors : SetBehavior(b)
  <2>1. UNCHANGED <<active, bus, finals>> /\ pc = "idle" /\ pc' = "idle"
    BY <1>2 DEF SetBehavior, loopVars
  <2> QED BY <2>1, LivesSame DEF SmoothInv, Noticed
<1>3. CASE UNCHANGED <<active, bus, pc, cur, behavior, todo, finals>>
  BY <1>3, LivesSame DEF SmoothInv, Noticed
<1> QED BY <1>1, <1>2, <1>3 DEF Next, Send, Close, loopVars, vars

LEMMA InitLife ==
    Init => Current /\ SmoothInv /\ Lifecycle!Init
<1> SUFFICES ASSUME Init PROVE Current /\ SmoothInv /\ Lifecycle!Init
  OBVIOUS
<1>1. Ids(active) = {} /\ Queued = {}
  BY NobodyFacts DEF Init, Queued, ToSet
<1> QED BY <1>1 DEF Init, Current, SmoothInv, NeverWritten, Lifecycle!Init

\* With the queued sessions apart from the others, whatever the consumers do.
LEMMA LifeFollowed ==
    ASSUME Smooth
    PROVE  Spec /\ []Apart => ImplementsLifecycle
<1>1. Faults = {}
  BY DEF Smooth
<1> DEFINE Inv == IInv /\ Current /\ SmoothInv
<1>2. Inv /\ Apart /\ InstancesHeld /\ [Next]_vars => Inv' /\ \A t \in Sessions : Lives(t)
  BY <1>1, NextIInv, NextCurrent, NextSmooth
<1>3. (\A t \in Sessions : Lives(t)) => Lifecycle!Next
  BY DEF Lives, Inst, Lifecycle!Next
<1>4. Inv /\ Apart /\ InstancesHeld /\ [Next]_vars => Inv' /\ Lifecycle!Next
  BY <1>2, <1>3
<1>5. Init => Inv /\ Lifecycle!Init
  BY InitIInv, InitLife
<1> HIDE DEF Inv
<1> QED BY <1>4, <1>5, NoOrphanInstances, PTL
        DEF Spec, ImplementsLifecycle, Lifecycle!Spec

\* Every step of a service writes instances as CommandLifecycle allows: with patient
\* consumers under any behaviours and switches, and with any consumers under any
\* behaviours that do not queue.
THEOREM LifeIsFollowed ==
    ASSUME Smooth
    PROVE  PatientSpec => ImplementsLifecycle
BY LifeFollowed, PatientApart, PTL

\* Any consumers see the life of a command where no behaviour queues.
THEOREM LifeIsFollowedUnqueued ==
    ASSUME Smooth, "QUEUE_INCOMING" \notin Behaviors
    PROVE  Spec => ImplementsLifecycle
BY LifeFollowed, UnqueuedApart, PTL

-----------------------------------------------------------------------------
(* Commands take their turns.                                              *)

\* While the behaviour is QUEUE_INCOMING, commands wait only behind an active one;
\* under another they do not wait.
Turns ==
    /\ behavior = "QUEUE_INCOMING" => queue = <<>> \/ Busy
    /\ behavior # "QUEUE_INCOMING" => queue = <<>>

\* The body of NoQueueJump.
InTurn ==
    \A s \in Sessions :
        ~IsActive(active, s) /\ IsActive(active', s) =>
            queue = <<>> \/ s = Head(queue)

LEMMA TurnsKept ==
    ASSUME Turns, UNCHANGED <<behavior, queue>>, Ids(active') = Ids(active)
    PROVE  Turns' /\ InTurn
<1>1. \A s \in Sessions : IsActive(active', s) <=> IsActive(active, s)
  BY DEF Ids
<1> QED BY <1>1 DEF Turns, InTurn, Busy

LEMMA IncomingTurns ==
    ASSUME IInv, Apart, Turns, NEW s \in Sessions, Incoming(s)
    PROVE  Turns' /\ InTurn
<1>0. /\ active \in States /\ bus \in Buses /\ queue \in Seq(Sessions)
      /\ behavior' = behavior
  <2>1. behavior' = behavior
    BY DEF Incoming, CancelActive, CancelQueued, CancelUnknown, Update,
           Accept, Reject, Enqueue, Preempt, New, Take
  <2> QED BY <2>1 DEF IInv, TypeOK, States, Buses
<1>1. CASE CancelActive(s)
  <2> DEFINE promoted == IF queue = <<>> THEN {} ELSE {Head(queue)}
             left(o) == [t \in Sessions |->
                            IF o.ok /\ t = s THEN NoSession
                            ELSE IF t \in promoted THEN Fresh
                            ELSE IF t = s THEN o.to ELSE active[t]]
  <2>1. PICK o \in HandleCancel(active[s]) : active' = left(o)
    BY <1>1 DEF CancelActive
  <2>2. /\ IsActive(active, s) /\ s \in Ids(active) /\ s \notin Queued
        /\ queue' = IF queue = <<>> THEN queue ELSE Tail(queue)
    BY <1>1 DEF CancelActive, Ids, Apart
  <2>3. InTurn
    <3>1. ASSUME NEW t \in Sessions, t # s, t \notin promoted
          PROVE  active'[t] = active[t]
      BY <2>1, <3>1
    <3>2. \A t \in promoted : queue # <<>> /\ t = Head(queue)
      OBVIOUS
    <3> QED BY <2>2, <3>1, <3>2 DEF InTurn, IsActive
  <2>4. CASE queue = <<>>
    <3>1. Turns'
      BY <1>0, <2>2, <2>4 DEF Turns
    <3> QED BY <2>3, <3>1
  <2>5. CASE queue # <<>>
    <3>1. Head(queue) \in Sessions /\ Head(queue) # s
      BY <1>0, <2>2, <2>5, TailFacts DEF Queued
    <3>2. active'[Head(queue)] = Fresh
      BY <2>1, <2>5, <3>1
    <3>3. Head(queue) \in Ids(active')
      BY <3>1, <3>2, MachineStates DEF Ids, IsActive
    <3>4. behavior = "QUEUE_INCOMING"
      BY <2>5 DEF Turns
    <3> QED BY <1>0, <2>3, <3>3, <3>4 DEF Turns, Busy
  <2> QED BY <2>3, <2>4, <2>5
<1>2. CASE CancelQueued(s)
  <2>1. active' = active /\ queue # <<>>
    BY <1>2 DEF CancelQueued, Queued, ToSet
  <2>2. Busy /\ behavior = "QUEUE_INCOMING"
    BY <2>1 DEF Turns
  <2> QED BY <1>0, <2>1, <2>2 DEF Turns, InTurn, Busy
<1>3. CASE CancelUnknown(s) \/ Reject(s) \/ Preempt(s)
  BY <1>0, <1>3, TurnsKept DEF CancelUnknown, Reject, Preempt
<1>4. CASE Update(s)
  <2>1. PICK o \in HandleUpdate(active[s]) : active' = [active EXCEPT ![s] = o.to]
    BY <1>4 DEF Update
  <2>2. s \in Ids(active) /\ active[s] \in CommandState /\ queue' = queue
    BY <1>0, <1>4, ActiveFacts DEF Update
  <2>3. Ids(active') = Ids(active)
    BY <1>0, <2>1, <2>2, UpdateOutcome, SetState DEF Outcome
  <2> QED BY <1>0, <2>2, <2>3, TurnsKept
<1>5. CASE Accept(s)
  <2>1. Add(bus, active, s) /\ queue' = queue /\ queue = <<>>
    BY <1>5 DEF Accept, Turns
  <2> QED BY <1>0, <2>1 DEF Turns, InTurn
<1>6. CASE Enqueue(s)
  <2>1. active' = active /\ Busy /\ behavior = "QUEUE_INCOMING"
    BY <1>6 DEF Enqueue
  <2> QED BY <1>0, <2>1 DEF Turns, InTurn, Busy
<1> QED BY <1>1, <1>2, <1>3, <1>4, <1>5, <1>6 DEF Incoming

LEMMA NextTurns ==
    ASSUME ~Switching, IInv, Apart, SmoothInv, Turns, [Next]_vars
    PROVE  Turns' /\ InTurn
<1>0. active \in States /\ bus \in Buses /\ queue \in Seq(Sessions) /\ pc # "abort"
  BY DEF IInv, TypeOK, States, Buses, SmoothInv
<1>1. CASE UNCHANGED <<behavior, queue, active>>
  BY <1>1, TurnsKept
<1>2. CASE \E s \in Sessions : Incoming(s)
  BY <1>2, IncomingTurns
<1>3. CASE \E s \in Sessions : Reissue(s)
  <2>0. PICK s \in Sessions : Reissue(s)
    BY <1>3
  <2>1. PICK o \in HandleIssued(active[s]) : active' = [active EXCEPT ![s] = o.to]
    BY <2>0 DEF Reissue
  <2>2. s \in Ids(active) /\ active[s] = Updated /\ UNCHANGED <<behavior, queue>>
    BY <2>0 DEF Reissue, IInv, LoopOK
  <2>3. o.to \in CommandState
    BY <2>1, <2>2, IssuedOutcome, MachineStates DEF Updated, NonFinal, Outcome
  <2>4. Ids(active') = Ids(active)
    BY <1>0, <2>1, <2>2, <2>3, SetState
  <2> QED BY <2>2, <2>4, TurnsKept
<1>4. CASE \E s \in Sessions : CycleSession(s)
  <2>0. PICK s \in Sessions : CycleSession(s)
    BY <1>4
  <2>1. PICK o \in HandleState(active[s]) : active' = [active EXCEPT ![s] = o.to]
    BY <2>0 DEF CycleSession
  <2>2. s \in Ids(active) /\ active[s] \in CommandState /\ UNCHANGED <<behavior, queue>>
    BY <1>0, <2>0, ActiveFacts, ProviderAssumption
       DEF CycleSession, IInv, LoopOK, ProviderAssumption
  <2>3. o.to \in CommandState
    BY <2>1, <2>2, StateOutcome DEF Outcome
  <2>4. Ids(active') = Ids(active)
    BY <1>0, <2>1, <2>2, <2>3, SetState
  <2> QED BY <2>2, <2>4, TurnsKept
<1>5. CASE PreemptDone \/ \E s \in Sessions : PreemptOne(s)
  <2>1. queue = <<>> /\ UNCHANGED <<behavior, queue>> /\ behavior # "QUEUE_INCOMING"
    BY <1>5 DEF PreemptOne, PreemptDone, IInv, LoopOK, Turns
  <2> QED BY <2>1 DEF Turns, InTurn
<1>6. CASE EndCycle
  <2> DEFINE left == [s \in Sessions |-> IF s \in finals THEN NoSession
                                         ELSE active[s]]
  <2>1. behavior' = behavior /\ left \in States
    BY <1>0, <1>6 DEF EndCycle, States
  <2>2. \A s \in Sessions : IsActive(left, s) => IsActive(active, s)
    BY DEF IsActive, NoSession
  <2>3. CASE ~Promotes(left) /\ active' = left /\ queue' = queue
    <3>1. behavior = "QUEUE_INCOMING" /\ queue # <<>> => Ids(active') # {}
      BY <2>3 DEF Promotes
    <3> QED BY <2>1, <2>2, <2>3, <3>1 DEF Turns, InTurn, Busy
  <2>4. CASE /\ Promotes(left) /\ queue' = Tail(queue)
             /\ active' = [left EXCEPT ![Head(queue)] = Fresh]
    <3>1. behavior = "QUEUE_INCOMING" /\ Head(queue) \in Sessions
      BY <2>4, QueueFacts DEF Promotes, IInv
    <3> HIDE DEF left
    <3>2. Ids([left EXCEPT ![Head(queue)] = Fresh]) = Ids(left) \cup {Head(queue)}
      BY <2>1, <3>1, SetState, MachineStates
    <3>3. Ids(active') = Ids(left) \cup {Head(queue)}
      BY <2>4, <3>2
    <3>4. InTurn
      BY <2>2, <3>3 DEF InTurn, Ids
    <3> QED BY <2>1, <3>1, <3>3, <3>4 DEF Turns, Busy
  <2> QED BY <1>6, <2>3, <2>4 DEF EndCycle
<1> QED BY <1>0, <1>1, <1>2, <1>3, <1>4, <1>5, <1>6
        DEF Next, Cycle, OnCycle, ReadError, ReadNothing, AbortOne, AbortDone,
            SetBehavior, Send, Close, vars

LEMMA TurnsTaken ==
    ASSUME Smooth, ~Switching
    PROVE  Spec /\ []Apart => []Turns /\ NoQueueJump
<1>1. Faults = {}
  BY DEF Smooth
<1> DEFINE Inv == IInv /\ Current /\ SmoothInv /\ Turns
<1>2. Inv /\ Apart /\ InstancesHeld /\ [Next]_vars => Inv' /\ InTurn
  BY <1>1, NextIInv, NextCurrent, NextSmooth, NextTurns
<1>3. Init => Inv
  BY InitIInv, InitLife DEF Init, Turns
<1>4. InTurn => [\A s \in Sessions :
                    ~IsActive(active, s) /\ IsActive(active', s) =>
                        queue = <<>> \/ s = Head(queue)]_vars
  BY DEF InTurn
<1>5. Inv => Turns
  OBVIOUS
<1> HIDE DEF Inv
<1> QED BY <1>2, <1>3, <1>4, <1>5, NoOrphanInstances, PTL DEF Spec, NoQueueJump

\* While no cycle fails and the behaviour stays, no command overtakes a queued one,
\* although a command becomes active in four places of the code.
THEOREM QueueIsFair ==
    ASSUME Smooth, ~Switching
    PROVE  PatientSpec => NoQueueJump
BY TurnsTaken, PatientApart, PTL

\* Nor does a command wait in the queue of an idle provider.
THEOREM NobodyIsStranded ==
    ASSUME Smooth, ~Switching
    PROVE  PatientSpec => []NoStranding
<1>1. Turns => NoStranding
  BY DEF Turns, NoStranding
<1> QED BY <1>1, TurnsTaken, PatientApart, PTL
=============================================================================
