-------------------------- MODULE ConditionalReport --------------------------
(***************************************************************************)
(* The process that owns the conditional report: ConditionalAddProvider    *)
(* and ConditionalDeleteProvider, two command providers, and the           *)
(* ConditionalReportProvider they and its user change.  A conditional is   *)
(* an element of a large set that names a payload, its specialization,     *)
(* published on another topic; the report carries the set's metadata.      *)
(*                                                                         *)
(* The providers' sessions are those of CommandProvider: a cycle takes a   *)
(* command through all its states, so one action is one cycle.  A command  *)
(* that is not valid changes nothing here and is left out, and a command   *)
(* in the queue is one that arrives later.  The set is that of LargeSet,   *)
(* one element per conditional.  A payload is known by its reference id    *)
(* and reference time stamp; the time of its creation serves as the id.    *)
(***************************************************************************)
EXTENDS Naturals, FiniteSets, SequencesExt

CONSTANTS
    Conds,       \* conditional ids
    Offers,      \* payloads commanders publish for their Add commands
    Faults,      \* which sends may fail
    Followed,    \* whether a consumer follows the report (else nothing is on its way)
    MaxWait,     \* maxSpecializationWaitCycles
    MaxTime      \* bound on the time stamps taken

AllFaults == {"payload", "dispose", "element", "report"}

ASSUME ConditionalReportAssumption ==
    /\ Faults \subseteq AllFaults /\ Followed \in BOOLEAN
    /\ MaxWait \in Nat /\ MaxTime \in Nat

VARIABLES
    cached,    \* the offers in the caches of factoryIo_
    add,       \* the active Add command with its PendingAdd, or NoAdd
    set,       \* the element of each conditional: its payload, or NoPayload
    live,      \* payloads on the bus: their reference times, by their ids
    clock,     \* the last time stamp getTimestamp() returned
    metadata,  \* metadata_ of the set
    published, \* history: whether the report describes the set
    torn,      \* history: conditionals whose last change failed half-way
    failed,    \* history: whether a change ever failed half-way
    pays,      \* payload samples on their way
    els,       \* set element samples on their way
    reports    \* reports on their way

reportVars == <<set, live, clock, metadata, published, torn, failed, pays, els, reports>>
providerVars == <<cached, add, reportVars>>

Times == 1 .. MaxTime
Never == 0
NoPayload == [id |-> Never, ts |-> Never]
NoAdd == [is |-> FALSE]

Held(s) == {c \in Conds : s[c] # NoPayload}

\* Mutant of Described: the size of the set before the change.
DescribedBefore(s, ts) == [size |-> Cardinality(Held(set)), ts |-> ts]

Described(s, ts) == [size |-> Cardinality(Held(s)), ts |-> ts]

-----------------------------------------------------------------------------
(* ConditionalReportProvider.                                              *)

\* The sends that fail in one operation.
Failing == SUBSET Faults

\* What is sent is on its way if someone follows.
Queue(seq, samples) == IF Followed THEN seq \o samples ELSE seq

\* A payload sample has the id of the payload and its time stamp, or Never when
\* it is disposed; that of a set element its conditional and payload.
Sample(key, val) == [key |-> key, val |-> val]
PayloadSample(p) == Sample(p.id, p.ts)
Disposed(id) == Sample(id, Never)

\* What a topic shows after these samples: the last one of a key counts.
Received(shown, samples) ==
    [key \in DOMAIN shown |->
        LET own == {i \in DOMAIN samples : samples[i].key = key}
        IN  IF own = {} THEN shown[key] ELSE samples[Max(own)].val]

Payloads(samples) ==
    /\ live' = Received(live, samples)
    /\ pays' = Queue(pays, samples)

\* Mutant of Elements: an element that is there keeps its payload.
ElementsKept(cs, p) ==
    /\ set' = [c \in Conds |-> IF c \notin ToSet(cs) THEN set[c]
                                ELSE IF p = NoPayload \/ set[c] = NoPayload THEN p
                                ELSE set[c]]
    /\ metadata' = IF cs = <<>> THEN metadata ELSE Described(set', p.ts)
    /\ els' = Queue(els, [i \in DOMAIN cs |-> Sample(cs[i], p)])

\* LargeSetWriter: the elements of cs are sent with their new payload, or
\* disposed if it is NoPayload.
Elements(cs, p) ==
    /\ set' = [c \in Conds |-> IF c \in ToSet(cs) THEN p ELSE set[c]]
    /\ metadata' = IF cs = <<>> THEN metadata ELSE Described(set', p.ts)
    /\ els' = Queue(els, [i \in DOMAIN cs |-> Sample(cs[i], p)])

NoPayloads == UNCHANGED <<live, pays>>
NoElements == UNCHANGED <<set, metadata, els>>

\* sendReport(): the report carries the metadata, and on the way how many
\* samples were sent before it.
SendReport ==
    /\ reports' = Queue(reports, <<[m |-> metadata', els |-> Len(els'), pays |-> Len(pays')]>>)
    /\ published' = TRUE

NoReport == published' = (published /\ set' = set) /\ UNCHANGED reports

\* A change of the conditionals cs succeeded, or failed half-way.
Marks(cs, f) ==
    /\ torn' = IF f \cap {"payload", "element"} # {} THEN torn \cup cs ELSE torn \ cs
    /\ failed' = (failed \/ f \ {"report"} # {})

\* Mutant of Superseded: the payload to be replaced stays on the bus.
SupersededKept(c, f) == <<>>

\* The payload that an upsert of c disposes; its dispose may fail.
Superseded(c, f) ==
    IF set[c] = NoPayload \/ "dispose" \in f THEN <<>> ELSE <<Disposed(set[c].id)>>

\* addSpecialization(), and resolveAndPublish() up to the report: the payload
\* is sent, then the superseded one disposed, then the element sent.
PublishPayload(c, f) ==
    /\ clock < MaxTime /\ clock' = clock + 1
    /\ LET p == [id |-> clock', ts |-> clock']
       IN  /\ IF "payload" \in f THEN NoPayloads
              ELSE Payloads(<<PayloadSample(p)>> \o Superseded(c, f))
           /\ IF f \cap {"payload", "element"} # {} THEN NoElements
              ELSE Elements(<<c>>, p)
    /\ Marks(IF "payload" \in f THEN {} ELSE {c}, f)

AddSpecialization(c) ==
    /\ set[c] = NoPayload
    /\ \E f \in Failing : PublishPayload(c, f) /\ NoReport
    /\ UNCHANGED <<cached, add>>

\* updateSpecialization(): under a new id the old payload is disposed before
\* the new one is sent, under the old id it is overwritten.
UpdateSpecialization(c, newId) ==
    /\ set[c] # NoPayload
    /\ clock < MaxTime /\ clock' = clock + 1
    /\ \E f \in Failing :
        LET p   == [id |-> IF newId THEN clock' ELSE set[c].id, ts |-> clock']
            new == IF "payload" \in f THEN <<>> ELSE <<PayloadSample(p)>>
        IN  /\ Payloads(IF newId THEN Superseded(c, f) \o new ELSE new)
            /\ IF f \cap {"payload", "element"} # {} THEN NoElements
               ELSE Elements(<<c>>, p)
            /\ Marks({c}, f)
    /\ NoReport /\ UNCHANGED <<cached, add>>

\* removeSpecialization() of the conditionals of a sequence, up to the first
\* whose element cannot be disposed; payloads that cannot are left.
RemoveSpecializations(cs, f) ==
    LET k == IF "element" \in f THEN Len(cs) - 1 ELSE Len(cs)
    IN  /\ Payloads(IF "dispose" \in f THEN <<>>
                    ELSE [i \in DOMAIN cs |-> Disposed(set[cs[i]].id)])
        /\ Elements(SubSeq(cs, 1, k), NoPayload)
        /\ Marks(ToSet(cs), f)
        /\ UNCHANGED <<clock, cached>>

RemoveSpecialization(c) ==
    /\ set[c] # NoPayload
    /\ \E f \in SUBSET (Faults \cap {"dispose", "element"}) :
        RemoveSpecializations(<<c>>, f)
    /\ NoReport /\ UNCHANGED add

\* The user's sendReport().
Report ==
    /\ ~published
    /\ NoPayloads /\ NoElements /\ SendReport
    /\ UNCHANGED <<cached, add, clock, torn, failed>>

-----------------------------------------------------------------------------
(* The specialization caches and ConditionalAddProvider.                   *)

\* A commander's payload arrives, or leaves with the commander's writer.
Offer(o) ==
    /\ cached' = IF o \in cached THEN cached \ {o} ELSE cached \cup {o}
    /\ UNCHANGED <<add, reportVars>>

\* A valid Add command.
ReceiveAdd(c, o) ==
    /\ ~add.is
    /\ add' = [is |-> TRUE, c |-> c, offer |-> o, waited |-> 0]
    /\ UNCHANGED <<cached, reportVars>>

\* Mutant of UpdateAdd: an update starts the wait anew.
UpdateAddAnew(c, o) ==
    /\ add.is
    /\ add' = [is |-> TRUE, c |-> c, offer |-> o, waited |-> 0]
    /\ UNCHANGED <<cached, reportVars>>

\* A valid update of the active command: pending_ is kept.
UpdateAdd(c, o) ==
    /\ add.is
    /\ add' = [add EXCEPT !.c = c, !.offer = o]
    /\ UNCHANGED <<cached, reportVars>>

\* onCanceled(), or onFailed() of an update that is not valid.
CancelAdd ==
    /\ add.is
    /\ add' = NoAdd
    /\ UNCHANGED <<cached, reportVars>>

\* onExecuting() while the payload has not arrived: the command waits, or
\* fails with TIMEOUT.
WaitForPayload ==
    /\ add.is /\ add.offer \notin cached
    /\ add' = IF add.waited + 1 > MaxWait THEN NoAdd
              ELSE [add EXCEPT !.waited = @ + 1]
    /\ UNCHANGED <<cached, reportVars>>

\* onExecuting() when it has: resolveAndPublish().  The command completes or
\* fails with the cycle.
ResolveAndPublish ==
    /\ add.is /\ add.offer \in cached
    /\ \E f \in Failing :
        /\ PublishPayload(add.c, f)
        /\ IF f = {} \/ f = {"dispose"} THEN SendReport ELSE NoReport
    /\ add' = NoAdd
    /\ UNCHANGED cached

CycleAdd == WaitForPayload \/ ResolveAndPublish

-----------------------------------------------------------------------------
(* ConditionalDeleteProvider.                                              *)

\* A valid Delete command, of one conditional or of all: onCommanded().
DeleteSome(cs) ==
    /\ \E f \in SUBSET (Faults \ {"payload"}) :
        /\ RemoveSpecializations(cs, f)
        /\ IF f \subseteq {"dispose"} THEN SendReport ELSE NoReport
    /\ UNCHANGED add

\* Conditionals are deleted in any order; where the element of one cannot be
\* disposed, those after it are not looked at.
Delete ==
    \/ \E c \in Held(set) : DeleteSome(<<c>>)
    \/ \E cs \in SetToSeqs(Held(set)) : DeleteSome(cs)
    \/ \E some \in (SUBSET Held(set)) \ {{}} : \E cs \in SetToSeqs(some) :
        /\ "element" \in Faults
        /\ RemoveSpecializations(cs, {"element"}) /\ NoReport /\ UNCHANGED add

-----------------------------------------------------------------------------
InitReport ==
    /\ cached = {} /\ add = NoAdd
    /\ set = [c \in Conds |-> NoPayload]
    /\ live = [i \in Times |-> Never]
    /\ clock = 0 /\ metadata = Described(set, Never)
    /\ published = FALSE /\ torn = {} /\ failed = FALSE
    /\ pays = <<>> /\ els = <<>> /\ reports = <<>>

Command ==
    \/ \E c \in Conds, o \in Offers : ReceiveAdd(c, o) \/ UpdateAdd(c, o)
    \/ CancelAdd

Direct ==
    \/ \E c \in Conds :
        \/ AddSpecialization(c)
        \/ \E newId \in BOOLEAN : UpdateSpecialization(c, newId)
        \/ RemoveSpecialization(c)
    \/ Report

NextReport == (\E o \in Offers : Offer(o)) \/ Command \/ CycleAdd \/ Delete \/ Direct

SpecReport ==
    InitReport /\ [][NextReport]_providerVars /\ WF_providerVars(CycleAdd)

-----------------------------------------------------------------------------
(* Properties.                                                             *)

ReportTypeOK ==
    /\ cached \subseteq Offers
    /\ add.is => add.c \in Conds /\ add.offer \in Offers /\ add.waited \in 0 .. MaxWait
    /\ \A c \in Held(set) : set[c].id \in Times /\ set[c].ts \in set[c].id .. clock
    /\ \A c, d \in Held(set) : set[c].id = set[d].id => c = d
    /\ metadata.size = Cardinality(Held(set))

\* A conditional of the working report names a payload that is on the bus, in
\* the version the conditional is stamped with, unless its last change failed
\* half-way: consumers cannot create it otherwise (resolveAndPublish(),
\* updateSpecialization(), removeSpecialization()).
NoDangling ==
    \A c \in Held(set) \ torn : live[set[c].id] = set[c].ts

\* As long as nothing failed, every payload on the bus is named by a
\* conditional: "the superseded payload instance is disposed".
NoOrphans ==
    ~failed => \A i \in Times : live[i] # Never => \E c \in Conds : set[c].id = i

\* The report and the payloads on the bus belong to each other, through every
\* change that succeeds or fails half-way.
ReportInv == ReportTypeOK /\ NoDangling /\ NoOrphans

\* A command that waits for its payload is answered, however often it is
\* updated and whether or not the payload arrives (up to the bound of time,
\* where nothing is published any more).
AddAnswered == add.is ~> ~add.is \/ clock = MaxTime
=============================================================================
