------------------------ MODULE ConditionalConstraints ------------------------
(***************************************************************************)
(* The process that evaluates conditionals, composed with the one that     *)
(* reports them: ConditionalReportConsumer, which reads the report, its    *)
(* set (LargeSetReader) and the payloads (SpecializationCache) and has the *)
(* conditionals created, and ActiveConstraintsControlProvider, its         *)
(* observer, which applies the constraints commanded last.  A turn is one  *)
(* of ObjectiveController::cycle(): the consumer, the constraints, and the *)
(* objective, which evaluates the constraints that are applied.            *)
(*                                                                         *)
(* The three topics are delivered each in order and any number of samples  *)
(* at a time.  A conditional object is known by its id and its payload;    *)
(* the logical ones hold a weak pointer to another, so they can be         *)
(* evaluated only as long as somebody holds that.  A command that cannot   *)
(* be executed in the cycle it arrives is one of the standing session.     *)
(***************************************************************************)
EXTENDS ConditionalReport

CONSTANTS
    Leaf,       \* the conditional the logical ones refer to
    Logical,    \* the conditionals that have it as operand
    Ordered,    \* a report does not overtake the samples sent before it
    MaxReports  \* bound on the reports that are not read yet

ASSUME ConditionalConstraintsAssumption ==
    /\ Leaf \in Conds /\ Logical \subseteq Conds \ {Leaf}
    /\ Ordered \in BOOLEAN /\ MaxReports \in Nat

VARIABLES
    standing,     \* standingSession_, which the constructor is given
    table,        \* elementTable_ of the reader's set, by conditional
    latest,       \* latest_metadata_ of the reader's set
    lookup,       \* lookup_ of the specialization caches: times, by ids
    conditionals, \* conditionals_ of the constraints provider, or None
    cmd,          \* whether a command of the constraints provider is executing
    ids,          \* constraintConditionalIds_, or None
    reason,       \* lastReason_
    dirty,        \* conditionalsDirty_
    applied,      \* constraintConditionals_, or None
    bound,        \* whether these objects are those of conditionals_
    pc            \* where the turn is

consumerVars == <<table, latest, lookup, conditionals>>
constraintVars == <<cmd, ids, reason, applied>>
vars == <<standing, providerVars, consumerVars, constraintVars, dirty, bound, pc>>

None == [is |-> FALSE]
Just(x) == [is |-> TRUE, of |-> x]

-----------------------------------------------------------------------------
(* ConditionalReportConsumer.                                              *)

\* Mutant of NotifyEmpty: nobody is told of an empty set.
NotifyNobody == UNCHANGED <<conditionals, dirty, bound>>

\* Subject::notify(): the provider's update() takes the new objects, and lets
\* go of the old ones.
Notify(objects) ==
    /\ conditionals' = Just(objects)
    /\ dirty' = TRUE
    /\ bound' = FALSE

NotifyEmpty == Notify([c \in Conds |-> NoPayload])

\* SpecializationCache::getSpecialization() and the operands of a logical
\* conditional: createConditionals() creates all of the set or nothing.
Creatable(s, cache) ==
    \A c \in Held(s) : /\ cache[s[c].id] = s[c].ts
                       /\ c \in Logical => Leaf \in Held(s)

\* The reports left when j elements and i payloads have been read.
Nearer(seq, j, i) ==
    [n \in DOMAIN seq |->
        [seq[n] EXCEPT !.els  = IF @ > j THEN @ - j ELSE 0,
                       !.pays = IF @ > i THEN @ - i ELSE 0]]

Rest(seq, n) == SubSeq(seq, n + 1, Len(seq))

\* Metadata older than the latest are refused.
Stale(m) == m.ts # Never /\ latest.ts # Never /\ m.ts < latest.ts

Invalid(tab, m) ==
    \/ Cardinality(Held(tab)) # m.size
    \/ m.ts # Never /\ \E c \in Held(tab) : tab[c].ts > m.ts

\* cycle() without a new report.
NoNewReport ==
    /\ pc = "report"
    /\ pc' = "constraints"
    /\ UNCHANGED <<providerVars, consumerVars, constraintVars, dirty, bound>>

\* cycle() with one, the newest of those that have arrived: the elements are
\* read, the set generated, and of a valid set the payloads read and the
\* objects created.
NewReport ==
    /\ pc = "report"
    /\ \E n \in DOMAIN reports, j \in 0 .. Len(els), i \in 0 .. Len(pays) :
        LET m   == reports[n].m
            tab == Received(table, SubSeq(els, 1, j))
            all == Received(lookup, SubSeq(pays, 1, i))
        IN  /\ Ordered => reports[n].els <= j
            /\ table' = tab /\ els' = Rest(els, j)
            /\ reports' = Nearer(Rest(reports, n), j, i)
            /\ latest' = IF Stale(m) THEN latest ELSE m
            /\ \/ /\ ~Stale(m) /\ m.size = 0 /\ i = 0
                  /\ NotifyEmpty
                  /\ pc' = "constraints"
               \/ /\ Stale(m) \/ (m.size # 0 /\ Invalid(tab, m))
                  /\ i = 0
                  /\ pc' = "exited"
                  /\ UNCHANGED <<conditionals, dirty, bound>>
               \/ /\ ~Stale(m) /\ m.size # 0 /\ ~Invalid(tab, m)
                  /\ Ordered => reports[n].pays <= i
                  /\ IF Creatable(tab, all) THEN Notify(tab)
                     ELSE UNCHANGED <<conditionals, dirty, bound>>
                  /\ pc' = "constraints"
            /\ lookup' = all /\ pays' = Rest(pays, i)
    /\ UNCHANGED <<cached, add, set, live, clock, metadata, published, torn, failed,
                   constraintVars>>

-----------------------------------------------------------------------------
(* ActiveConstraintsControlProvider.                                       *)

Existing == IF conditionals.is THEN Held(conditionals.of) ELSE {}

\* Mutant of Unchanged: a standing session looks only at a new command.
UnchangedAlways(news) == standing

\* isCommandCompleted() of a standing session that has nothing to do.
Unchanged(news) == standing /\ ~news

\* handleExecuting() of the command with these ids, when why is the reason
\* isCommandFailed() gives and news is conditionalsDirty_.
Executing(want, why, news) ==
    LET missing == want.of \ Existing
    IN  \/ /\ why # "SUCCEEDED"
           /\ cmd' = FALSE /\ reason' = why /\ dirty' = news
           /\ UNCHANGED <<applied, bound>>
        \/ /\ why = "SUCCEEDED"
           /\ ~conditionals.is \/ ~want.is \/ Unchanged(news)
           /\ cmd' = TRUE /\ reason' = why /\ dirty' = news
           /\ UNCHANGED <<applied, bound>>
        \/ /\ why = "SUCCEEDED" /\ conditionals.is /\ want.is /\ ~Unchanged(news)
           /\ missing # {} /\ ~standing
           /\ cmd' = TRUE /\ reason' = "SERVICE_FAILED" /\ dirty' = news
           /\ UNCHANGED <<applied, bound>>
        \/ /\ why = "SUCCEEDED" /\ conditionals.is /\ want.is /\ ~Unchanged(news)
           /\ missing = {} \/ standing
           /\ applied' = Just([c \in want.of \cap Existing |-> conditionals.of[c]])
           /\ bound' = TRUE /\ dirty' = FALSE
           /\ cmd' = standing /\ reason' = why

\* A new command, which cancels the one before, or an update of it: if it is
\* valid it is commanded and executed in the same cycle.
Constrain(want) ==
    /\ pc = "constraints"
    /\ IF want \subseteq Existing
       THEN /\ ids' = Just(want)
            /\ Executing(ids', "SUCCEEDED", TRUE)
       ELSE /\ cmd' = FALSE /\ reason' = "VALIDATION_FAILED"
            /\ UNCHANGED <<ids, applied, bound, dirty>>
    /\ pc' = "objective"
    /\ UNCHANGED <<providerVars, consumerVars>>

\* The commander's command is disposed: a standing session ignores that.
Dispose ==
    /\ pc = "constraints"
    /\ cmd /\ ~standing
    /\ cmd' = FALSE
    /\ pc' = "objective"
    /\ UNCHANGED <<providerVars, consumerVars, ids, reason, applied, bound, dirty>>

\* A cycle without a command to read.
Cycle ==
    /\ pc = "constraints"
    /\ IF cmd THEN Executing(ids, reason, dirty)
       ELSE UNCHANGED <<cmd, reason, applied, bound, dirty>>
    /\ pc' = "objective"
    /\ UNCHANGED <<providerVars, consumerVars, ids>>

\* ObjectiveController evaluates the constraints and waits for the next turn.
Evaluate ==
    /\ pc = "objective"
    /\ pc' = "report"
    /\ UNCHANGED <<providerVars, consumerVars, constraintVars, dirty, bound>>

-----------------------------------------------------------------------------
Init ==
    /\ InitReport
    /\ standing \in BOOLEAN
    /\ table = [c \in Conds |-> NoPayload]
    /\ latest = Described(table, Never)
    /\ lookup = [i \in 0 .. MaxTime |-> Never]
    /\ conditionals = None
    /\ cmd = FALSE /\ ids = None /\ reason = "SUCCEEDED"
    /\ dirty = FALSE /\ applied = None /\ bound = TRUE
    /\ pc = "report"

Turn ==
    \/ NoNewReport \/ NewReport
    \/ \E want \in SUBSET Conds : Constrain(want)
    \/ Dispose \/ Cycle \/ Evaluate

\* The other process, whose commands are those of Direct here: it adds,
\* updates and deletes conditionals and sends the report.
Elsewhere ==
    /\ Len(reports) < MaxReports
    /\ \/ Direct \/ Delete
    /\ UNCHANGED <<consumerVars, constraintVars, dirty, bound, pc>>

Next == (Turn \/ Elsewhere) /\ UNCHANGED standing

Spec == Init /\ [][Next]_vars

-----------------------------------------------------------------------------
(* Properties.                                                             *)

TypeOK ==
    /\ ReportTypeOK
    /\ \A c \in Held(table) : table[c].ts <= clock
    /\ applied.is => ids.is /\ DOMAIN applied.of \subseteq Conds
    /\ bound /\ applied.is =>
        \A c \in DOMAIN applied.of : applied.of[c] = conditionals.of[c]
    /\ reason \in {"SUCCEEDED", "VALIDATION_FAILED", "SERVICE_FAILED"}
    /\ pc \in {"report", "constraints", "objective", "exited"}

\* The reader has read the last report, which describes the set as it is.
Quiet == pc \in {"constraints", "objective"} /\ published /\ reports = <<>>

\* The conditionals of the report are those that can be created: no logical
\* one is without its operand.
Closed == Held(set) \cap Logical # {} => Leaf \in Held(set)

\* When the last report has been read the observers have the conditionals of
\* the report, in the versions of the report: a payload or an element under
\* way, or an empty set, does not leave them with others.
CatchesUp == Quiet /\ Closed => conditionals.is /\ conditionals.of = set

\* While a standing session executes, the constraints the objective evaluates
\* are the commanded ones as far as they exist, and are the objects its
\* conditionals refer to: none has lost its operand, none was deleted.
StandingCurrent ==
    standing /\ cmd /\ pc = "objective" /\ conditionals.is =>
        bound /\ applied = Just([c \in ids.of \cap Existing |-> conditionals.of[c]])

\* What the objective evaluates is what was commanded, of what there is.
ConstraintsInv == TypeOK /\ StandingCurrent

\* Observers "would keep evaluating conditionals that no longer exist": they
\* do not when the last report has been read.
NoGhosts == Quiet => Existing \subseteq Held(set)

\* "exactly one live ack mirrors the applied set".
OneAckMirrors ==
    standing /\ pc = "objective" /\ applied.is => cmd
=============================================================================
