------------------------------ MODULE LargeSet ------------------------------
(***************************************************************************)
(* LargeSetWriter, LargeSetReader and LargeSet: a set that a writer        *)
(* spreads over DDS samples, one per element, and describes by metadata    *)
(* (size and the time of the last change) its user publishes on another    *)
(* topic.  The writer keeps its elements twice: elements_, what is on the  *)
(* bus, and elementTable_, which finds an element by its value.  The       *)
(* reader answers VALID_SET, EMPTY_SET, INVALID_SET or STALE_METADATA.     *)
(*                                                                         *)
(* As in LargeList an operation of the writer is one step, the reader      *)
(* drains any number of samples at a time, a time stamp is later than all  *)
(* before it, and what fails before anything was sent is left out.  One    *)
(* set and one writer; the caller does not choose element ids itself.      *)
(***************************************************************************)
EXTENDS Naturals, FiniteSets, SequencesExt

CONSTANTS
    Values,     \* element values
    Ordered,    \* metadata never overtake the element samples sent before
    MaxIds,     \* bound on the elements created
    MaxTime,    \* bound on the time stamps taken
    MaxPosts    \* bound on the metadata published and not read yet

ASSUME LargeSetAssumption ==
    /\ Ordered \in BOOLEAN
    /\ MaxIds \in Nat /\ MaxTime \in Nat /\ MaxPosts \in Nat

VARIABLES
    elements,  \* elements_ of the writer, by their ids
    index,     \* elementTable_ of the writer: the id a value leads to
    metadata,  \* metadata_ of the writer
    clock,     \* the last time stamp getTimestamp() returned
    alive,     \* whether the writer has not been destructed
    wire,      \* element samples on their way to the reader
    posts,     \* metadata on their way to the reader
    published, \* history: whether metadata_ has been published as it is
    table,     \* elementTable_ of the reader's set
    latest,    \* latest_metadata_ of the reader's set
    cache,     \* cached_set_ of the reader's set: a set, or Nothing
    events     \* history: which of Disturbances have happened

writerVars == <<elements, index, metadata, clock, alive>>
readerVars == <<table, latest, cache>>
vars == <<writerVars, wire, posts, published, readerVars, events>>

\* update() to a value that another element has, a removal of the set by the
\* reader, and a dispose that failed while the writer was destructed.
Disturbances == {"collision", "removed", "kept"}

NIL == 0
Ids == 1 .. MaxIds
Times == 0 .. MaxTime
Never == 0

Absent == [ts |-> Never]
Nothing == [is |-> FALSE, set |-> {}]
Just(s) == [is |-> TRUE, set |-> s]

Held(els) == {id \in Ids : els[id] # Absent}
Contents(els) == {els[id].val : id \in Held(els)}

\* updateMetadata(); ts is Never after a dispose.  The set described is a
\* history component: no code reads it.
Described(els, ts) ==
    [size |-> Cardinality(Held(els)), ts |-> ts, set |-> Contents(els)]

NoElements == [id \in Ids |-> Absent]
NoMetadata == Described(NoElements, Never)

\* The elements els after these samples: the last one of an element counts.
Applied(els, samples) ==
    [id \in Ids |->
        LET own == {i \in DOMAIN samples : samples[i].id = id}
        IN  IF own = {} THEN els[id]
            ELSE samples[CHOOSE i \in own : \A j \in own : j <= i].el]

-----------------------------------------------------------------------------
(* The writer.                                                             *)

Sample(id, e) == [id |-> id, el |-> e]

Sends(samples) ==
    /\ wire' = wire \o samples
    /\ published' = FALSE
    /\ UNCHANGED <<posts, readerVars, alive>>

\* Generated ids are new: of no element, on the bus or in the reader's table.
\* The least ones are taken.
Unused ==
    Ids \ (Held(elements) \cup Held(table) \cup {wire[i].id : i \in DOMAIN wire})

NewIds(k) ==
    {at \in [1 .. k -> Unused] :
        /\ \A i, j \in 1 .. k : i < j => at[i] < at[j]
        /\ \A id \in Unused \ ToSet(at) : \A i \in 1 .. k : at[i] < id}

\* Mutant of Reindexed: the old value stays in elementTable_.
ReindexedTwice(old, v, id) ==
    [index EXCEPT ![v] = IF @ = NIL THEN id ELSE @]

\* erase() of the old value and insert() of the new, which leaves a value
\* that is there alone.
Reindexed(old, v, id) ==
    LET erased == [index EXCEPT ![old] = NIL]
    IN  [erased EXCEPT ![v] = IF @ = NIL THEN id ELSE @]

\* update(prev, value).
Update(old, v) ==
    /\ index[old] # NIL
    /\ clock < MaxTime /\ clock' = clock + 1
    /\ LET id == index[old]
           e  == [val |-> v, ts |-> clock']
       IN  /\ elements' = [elements EXCEPT ![id] = e]
           /\ index' = Reindexed(old, v, id)
           /\ metadata' = Described(elements', e.ts)
           /\ events' = events \cup
                (IF v # old /\ index[v] # NIL THEN {"collision"} ELSE {})
           /\ Sends(<<Sample(id, e)>>)

\* insert() of one value, or of several up to the first that is there already
\* or is not sent; the ids are unused.
Insert(vs) ==
    \E k \in 1 .. Len(vs) :
        /\ \A i \in 1 .. k : /\ index[vs[i]] = NIL
                             /\ \A j \in 1 .. i - 1 : vs[j] # vs[i]
        /\ clock + k <= MaxTime /\ clock' = clock + k
        /\ \E at \in NewIds(k) :
            LET new == [i \in 1 .. k |-> [val |-> vs[i], ts |-> clock + i]]
                samples == [i \in 1 .. k |-> Sample(at[i], new[i])]
            IN  /\ elements' = Applied(elements, samples)
                /\ index' = [v \in Values |->
                     IF \E i \in 1 .. k : vs[i] = v
                     THEN at[CHOOSE i \in 1 .. k : vs[i] = v] ELSE index[v]]
                /\ Sends(samples)
        /\ metadata' = Described(elements', clock')
        /\ UNCHANGED events

\* remove() of the values of a sequence, each found in elementTable_.
Removes(vs) ==
    LET gone == {index[vs[i]] : i \in DOMAIN vs}
    IN  /\ elements' = [id \in Ids |-> IF id \in gone THEN Absent ELSE elements[id]]
        /\ index' = [v \in Values |-> IF v \in ToSet(vs) THEN NIL ELSE index[v]]
        /\ metadata' = IF vs = <<>> THEN metadata ELSE Described(elements', Never)
        /\ UNCHANGED clock

\* Mutant of Gone: only the first element is disposed.
GoneOnce(vs) == [i \in DOMAIN vs \cap {1} |-> Sample(index[vs[i]], Absent)]

Gone(vs) == [i \in DOMAIN vs |-> Sample(index[vs[i]], Absent)]

Indexed == {v \in Values : index[v] # NIL}

RemoveValue(v) ==
    /\ v \in Indexed
    /\ Removes(<<v>>) /\ Sends(Gone(<<v>>)) /\ UNCHANGED events

\* clear(): the values of elementTable_ in any order; a failed dispose leaves
\* its element and does not stop the others.
Clear ==
    \E some \in (SUBSET Indexed) \ {{}} : \E vs \in SetToSeqs(some) :
        Removes(vs) /\ Sends(Gone(vs)) /\ UNCHANGED events

\* ~LargeSetWriter().
Destruct ==
    \E some \in SUBSET Indexed : \E vs \in SetToSeqs(some) :
        /\ Removes(vs)
        /\ alive' = FALSE
        /\ wire' = wire \o Gone(vs)
        /\ events' = events \cup (IF some = Indexed THEN {} ELSE {"kept"})
        /\ published' = (published /\ some = {})
        /\ UNCHANGED <<posts, readerVars>>

\* The user publishes getMetadata(), as part of a command or a report.
Publish ==
    /\ Len(posts) < MaxPosts
    /\ posts' = Append(posts, [described |-> metadata, behind |-> Len(wire)])
    /\ published' = TRUE
    /\ UNCHANGED <<writerVars, wire, readerVars, events>>

-----------------------------------------------------------------------------
(* The reader.                                                             *)

\* updateSetElements() of the first k samples on the wire.  A set that is not
\* known yet is one with an empty table and no metadata.
Drains(k) ==
    /\ table' = Applied(table, SubSeq(wire, 1, k))
    /\ wire' = SubSeq(wire, k + 1, Len(wire))

\* The metadata left when k samples have been drained.
Nearer(seq, k) ==
    [i \in DOMAIN seq |->
        [seq[i] EXCEPT !.behind = IF @ > k THEN @ - k ELSE 0]]

\* Mutant of Generated: the time stamps are not compared.
GeneratedUnstamped(tab, m) ==
    IF m.size # 0 /\ Cardinality(Contents(tab)) = m.size
    THEN Just(Contents(tab)) ELSE Nothing

\* generateSet(): the set if it is valid.
Generated(tab, m) ==
    IF /\ m.size # 0
       /\ m.ts # Never => \A id \in Held(tab) : tab[id].ts <= m.ts
       /\ Cardinality(Contents(tab)) = m.size
    THEN Just(Contents(tab))
    ELSE Nothing

\* Mutant of Accepts: metadata without a time stamp count as the oldest.
AcceptsStamped(m) == latest.ts = Never \/ m.ts >= latest.ts

\* LargeSet::receive(metadata) refuses metadata older than the latest.
Accepts(m) == m.ts = Never \/ latest.ts = Never \/ m.ts >= latest.ts

GetSetFromMetadata ==
    /\ posts # <<>>
    /\ \E k \in 0 .. Len(wire) :
        /\ Ordered => k >= Head(posts).behind
        /\ Drains(k)
        /\ posts' = Nearer(Tail(posts), k)
    /\ LET m == Head(posts).described
       IN  IF Accepts(m)
           THEN latest' = m /\ cache' = Generated(table', m)
           ELSE UNCHANGED <<latest, cache>>
    /\ UNCHANGED <<writerVars, published, events>>

\* getSetById().
GetSetById ==
    /\ \E k \in 0 .. Len(wire) : Drains(k) /\ posts' = Nearer(posts, k)
    /\ cache' = IF cache.is THEN cache ELSE Generated(table', latest)
    /\ UNCHANGED <<writerVars, published, latest, events>>

\* removeSetById(): the elements the set was made of are lost.
RemoveSetById ==
    /\ \E k \in 0 .. Len(wire) :
        /\ wire' = SubSeq(wire, k + 1, Len(wire))
        /\ posts' = Nearer(posts, k)
    /\ table' = NoElements /\ latest' = NoMetadata /\ cache' = Nothing
    /\ events' = events \cup {"removed"}
    /\ UNCHANGED <<writerVars, published>>

-----------------------------------------------------------------------------
Init ==
    /\ elements = NoElements /\ index = [v \in Values |-> NIL]
    /\ metadata = NoMetadata /\ clock = 0 /\ alive = TRUE
    /\ wire = <<>>
    /\ posts = <<>> /\ published = TRUE
    /\ table = NoElements /\ latest = NoMetadata /\ cache = Nothing
    /\ events = {}

Write ==
    /\ alive
    /\ \/ \E old, v \in Values : Update(old, v)
       \/ \E v \in Values : Insert(<<v>>) \/ RemoveValue(v)
       \/ \E v, w \in Values : Insert(<<v, w>>)
       \/ Clear
       \/ Destruct
       \/ Publish

Next == Write \/ GetSetFromMetadata \/ GetSetById \/ RemoveSetById

Spec == Init /\ [][Next]_vars

-----------------------------------------------------------------------------
(* Properties.                                                             *)

\* elementTable_ leads only to elements of that value, and until two elements
\* were given one value every element is found (LargeSetWriter.h:346-348).
TypeOK ==
    /\ DOMAIN elements = Ids /\ DOMAIN table = Ids
    /\ \A v \in Indexed : elements[index[v]] # Absent
                          /\ elements[index[v]].val = v
    /\ metadata.size = Cardinality(Held(elements))
    /\ \A id \in Held(elements) : elements[id].ts <= clock
    /\ clock \in Times /\ Len(posts) <= MaxPosts
    /\ events \subseteq Disturbances

\* What a reader holds as a valid set for metadata that carry a time stamp is
\* the set the writer had when it took the metadata, never a mixture of two
\* versions (LargeSet::generateSet).
SnapshotRead == cache.is /\ latest.ts # Never => cache.set = latest.set

\* The writer's tables agree with each other and what the reader holds as a
\* set is one the writer had, through every operation and delay.
SetInv == TypeOK /\ SnapshotRead

\* Once everything has arrived, the reader answers with the writer's set,
\* empty or not, and no earlier answer or refused metadata stands in the way
\* for ever (LargeSetReader::getSetById).
CatchesUp ==
    /\ events = {} /\ wire = <<>> /\ posts = <<>> /\ published
    => /\ Generated(table, latest) =
              IF Contents(elements) = {} THEN Nothing ELSE Just(Contents(elements))
       /\ cache.is => cache.set = Contents(elements)

\* A destructed writer leaves no element on the bus, and a reader that has
\* received everything none in its table (~LargeSetWriter).
LeavesNothing ==
    ~alive /\ events \cap {"collision", "kept"} = {} =>
        /\ Held(elements) = {}
        /\ wire = <<>> => Held(table) = {}

\* "Destructor - cleans up by disposing any remaining SetElement instances".
DestructorCleansUp == ~alive /\ "kept" \notin events => Held(elements) = {}
=============================================================================
