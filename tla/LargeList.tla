----------------------------- MODULE LargeList -----------------------------
(***************************************************************************)
(* LargeListWriter, LargeListReader and LargeList: an ordered list that a  *)
(* writer spreads over DDS samples, one per element, each naming its       *)
(* successor, and describes by metadata its user publishes on another      *)
(* topic.  The reader collects elements in a table; when metadata arrive,  *)
(* or when it is asked again, it follows the links and answers VALID_LIST, *)
(* EMPTY_LIST or INVALID_LIST.                                             *)
(*                                                                         *)
(* A writer's operation is one step: a reader that looks between two of    *)
(* its sends is one that has received only the first of them.  The reader  *)
(* drains any number of the samples on the wire at a time, which covers    *)
(* the delay of the network and MAX_READ_PER_UPDATE.  updateElementID,     *)
(* which nothing reads, is left out.  One list, one writer, one reader; a  *)
(* time stamp is later than every one taken before it.  A send that fails  *)
(* before anything was sent or changed is left out.                        *)
(***************************************************************************)
EXTENDS Naturals, SequencesExt

CONSTANTS
    Values,     \* element values
    Ops,        \* the operations the writer's user calls
    Ordered,    \* metadata never overtake the element samples sent before
    SendsFail,  \* whether a send or a dispose may fail
    MaxIds,     \* bound on the elements created
    MaxTime,    \* bound on the time stamps taken
    MaxPosts    \* bound on the metadata published and not read yet

AllOps == {"update", "prepend", "append", "insert", "popBack", "popFront",
           "remove", "clear"}

ASSUME LargeListAssumption ==
    /\ Ops \subseteq AllOps
    /\ Ordered \in BOOLEAN /\ SendsFail \in BOOLEAN
    /\ MaxIds \in Nat /\ MaxTime \in Nat /\ MaxPosts \in Nat

VARIABLES
    elements,  \* elements_ of the writer
    metadata,  \* metadata_ of the writer
    fresh,     \* the next element id, for newListElement()
    clock,     \* the last time stamp getTimestamp() returned
    wire,      \* element samples on their way to the reader
    posts,     \* metadata on their way to the reader
    published, \* history: whether metadata_ has been published as it is
    table,     \* elementTable_ of the reader
    latest,    \* latest_metadata_ of the reader
    cache,     \* cached_list_ of the reader: a list, or Nothing
    events     \* history: which of Disturbances have happened

writerVars == <<elements, metadata, fresh, clock>>
readerVars == <<table, latest, cache>>
vars == <<writerVars, wire, posts, published, readerVars, events>>

\* A failed send, and the two operations after which the list the writer
\* keeps and the links it has sent disagree.
Disturbances == {"sendFailed", "insert", "popBack"}

NIL == 0
Ids == 1 .. MaxIds
Times == 0 .. MaxTime
Never == 0    \* the time stamp of metadata that have none

Element == [id : Ids, val : Values, next : Nat, ts : Times]
Absent  == [id |-> NIL]
Live(e) == [id |-> e.id, el |-> e]
Gone(e) == [id |-> e.id, el |-> Absent]    \* a dispose sample

\* A list, or Nothing.
Nothing == [is |-> FALSE, list |-> <<>>]
Just(l) == [is |-> TRUE, list |-> l]

Contents(els) == [i \in DOMAIN els |-> els[i].val]

\* updateMetadata(); ts is Never after a dispose.  The list described is a
\* history component: no code reads it.
Described(els, ts) ==
    [start |-> IF els = <<>> THEN NIL ELSE els[1].id,
     size  |-> Len(els),
     ts    |-> ts,
     list  |-> Contents(els)]

NoMetadata == Described(<<>>, Never)

\* The table tab after these samples: the last one of an element counts.
Applied(tab, samples) ==
    [id \in Ids |->
        LET own == {i \in DOMAIN samples : samples[i].id = id}
        IN  IF own = {} THEN tab[id]
            ELSE samples[CHOOSE i \in own : \A j \in own : j <= i].el]

-----------------------------------------------------------------------------
(* The writer.                                                             *)

\* How many of n sends in a row succeed.
Through(n) == IF SendsFail THEN 0 .. n ELSE {n}

May(op) == op \in Ops

\* Operation op sent these samples, and all it meant to send iff ok.
Sends(op, samples, ok) ==
    /\ wire' = wire \o samples
    /\ published' = FALSE
    /\ events' = events \cup (IF ok THEN {} ELSE {"sendFailed"})
                        \cup ({op} \cap Disturbances)
    /\ UNCHANGED <<posts, readerVars>>

\* Mutant of Chain: one element id for all the new elements.
ChainOneId(vs, tail, t) ==
    [i \in DOMAIN vs |->
        [id |-> fresh, val |-> vs[i],
         next |-> IF i = Len(vs) THEN tail ELSE fresh, ts |-> t + i - 1]]

\* New elements for the values vs, linked to each other and the last to tail;
\* stamped in the order of publication, the first of which gets time t.
Chain(vs, tail, t) ==
    [i \in DOMAIN vs |->
        [id   |-> fresh + i - 1,
         val  |-> vs[i],
         next |-> IF i = Len(vs) THEN tail ELSE fresh + i,
         ts   |-> t + i - 1]]

Allocates(n, ticks) ==
    /\ fresh + n <= MaxIds + 1 /\ fresh' = fresh + n
    /\ clock + ticks <= MaxTime /\ clock' = clock + ticks

\* The element at i points to id, in a version stamped t.
Linked(els, i, id, t) == [els EXCEPT ![i] = [@ EXCEPT !.next = id, !.ts = t]]

Update(v, pos) ==
    /\ May("update")
    /\ Allocates(0, 1)
    /\ LET e == [elements[pos] EXCEPT !.val = v, !.ts = clock']
       IN  /\ elements' = [elements EXCEPT ![pos] = e]
           /\ metadata' = Described(elements', e.ts)
           /\ Sends("update", <<Live(e)>>, TRUE)

\* prepend(): from the last value to the first, each in front of the others.
Prepend(vs) ==
    /\ May("prepend")
    /\ \E k \in Through(Len(vs)) \ {0} :
        LET new == [i \in 1 .. k |->
                [id   |-> fresh + k - i,
                 val  |-> vs[Len(vs) - k + i],
                 next |-> IF i < k THEN fresh + k - i - 1
                          ELSE IF elements = <<>> THEN NIL ELSE elements[1].id,
                 ts   |-> clock + k - i + 1]]
        IN  /\ Allocates(k, k)
            /\ elements' = new \o elements
            /\ metadata' = Described(elements', new[1].ts)
            /\ Sends("prepend", Reverse([i \in 1 .. k |-> Live(new[i])]), k = Len(vs))

\* append(): the last element is linked to the first new one before any send,
\* and stays linked if the sends fail.  Several values cannot be appended to
\* an empty list: elements_.back() is undefined there.
AppendAll(vs) ==
    /\ May("append")
    /\ elements = <<>> => Len(vs) = 1
    /\ LET n    == Len(vs)
           link == IF elements = <<>> THEN 0 ELSE 1
           new  == Chain(vs, NIL, clock + link + 1)
           old  == IF link = 0 THEN elements
                   ELSE Linked(elements, Len(elements), fresh, clock + 1)
           live == [i \in 1 .. link |-> Live(Last(old))] \o
                   [i \in 1 .. n |-> Live(new[i])]
       IN  \E k \in Through(link + n) :
            /\ Allocates(n, link + n)
            /\ elements' = old \o SubSeq(new, 1, IF k < link THEN 0 ELSE k - link)
            /\ IF k = link + n THEN metadata' = Described(elements', clock')
               ELSE UNCHANGED metadata
            /\ Sends("append", SubSeq(live, 1, k), k = link + n)

\* insert() at 0 < pos < size(): the predecessor is linked to the new
\* elements.  Locally one new element goes in front of the predecessor, and
\* several go behind it in reverse order.
Insert(vs, pos) ==
    /\ May("insert")
    /\ LET n    == Len(vs)
           new  == Chain(vs, elements[pos + 1].id, clock + 2)
           old  == Linked(elements, pos, fresh, clock + 1)
           live == <<Live(old[pos])>> \o [i \in 1 .. n |-> Live(new[i])]
           at   == IF n = 1 THEN pos - 1 ELSE pos
       IN  \E k \in Through(1 + n) :
            /\ Allocates(n, 1 + n)
            /\ IF k = 1 + n
               THEN /\ elements' = SubSeq(old, 1, at) \o Reverse(new) \o
                                   SubSeq(old, at + 1, Len(old))
                    /\ metadata' = Described(elements', clock')
               ELSE /\ elements' = old
                    /\ UNCHANGED metadata
            /\ Sends("insert", SubSeq(live, 1, k), k = 1 + n)

\* popBack(): the element whose link is reset is the one to be removed.
PopBack ==
    /\ May("popBack")
    /\ elements # <<>>
    /\ LET reset == IF Len(elements) > 1 THEN 1 ELSE 0
           old   == IF reset = 0 THEN elements
                    ELSE Linked(elements, Len(elements), NIL, clock + 1)
           live  == [i \in 1 .. reset |-> Live(Last(old))] \o
                    <<Gone(Last(old))>>
       IN  \E k \in Through(reset + 1) :
            /\ Allocates(0, reset)
            /\ IF k = reset + 1
               THEN /\ elements' = Front(old)
                    /\ metadata' = Described(elements', Never)
               ELSE /\ elements' = IF k = reset THEN old ELSE elements
                    /\ UNCHANGED metadata
            /\ Sends("popBack", SubSeq(live, 1, k), k = reset + 1)

\* popFront() called n times; clear() calls it until the list is empty.
PopFronts(n, ok) ==
    /\ elements' = SubSeq(elements, n + 1, Len(elements))
    /\ metadata' = Described(elements', Never)
    /\ Sends("popFront", [i \in 1 .. n |-> Gone(elements[i])], ok)
    /\ UNCHANGED <<fresh, clock>>

PopFront == May("popFront") /\ elements # <<>> /\ PopFronts(1, TRUE)

Clear ==
    /\ May("clear")
    /\ \E k \in Through(Len(elements)) \ {0} :
        PopFronts(k, k = Len(elements))

\* remove() at 0 < pos < size() - 1: the predecessor skips the element.
RemovePos(pos) ==
    /\ May("remove")
    /\ LET old  == Linked(elements, pos, elements[pos + 2].id, clock + 1)
           live == <<Live(old[pos]), Gone(old[pos + 1])>>
       IN  \E k \in Through(2) :
            /\ Allocates(0, 1)
            /\ IF k = 2 THEN /\ elements' = RemoveAt(old, pos + 1)
                             /\ metadata' = Described(elements', Never)
               ELSE elements' = old /\ UNCHANGED metadata
            /\ Sends("remove", SubSeq(live, 1, k), k = 2)

\* The user publishes getMetadata(), as part of a command or a report, behind
\* the element samples under way.
Publish ==
    /\ Len(posts) < MaxPosts
    /\ posts' = Append(posts, [described |-> metadata, behind |-> Len(wire)])
    /\ published' = TRUE
    /\ UNCHANGED <<writerVars, wire, readerVars, events>>

-----------------------------------------------------------------------------
(* The reader.                                                             *)

\* updateListElements() of the first k samples on the wire.
Drains(k) ==
    /\ table' = Applied(table, SubSeq(wire, 1, k))
    /\ wire' = SubSeq(wire, k + 1, Len(wire))

\* The metadata left when k samples have been drained.
Nearer(seq, k) ==
    [i \in DOMAIN seq |->
        [seq[i] EXCEPT !.behind = IF @ > k THEN @ - k ELSE 0]]

\* The ids the loop of generateList() visits: it stops at an id that is not
\* in the table, at an element without successor, and at one whose successor
\* was visited.
Path(tab, start) ==
    LET path[n \in 0 .. MaxIds] ==
            IF n = 0 THEN <<start>>
            ELSE LET p == path[n - 1]
                     e == tab[Last(p)]
                 IN  IF e = Absent \/ e.next = NIL \/ e.next \in ToSet(p)
                     THEN p ELSE Append(p, e.next)
    IN  path[MaxIds]

\* Mutant of Generated: the time stamps are not compared.
GeneratedUnstamped(tab, m) ==
    IF m.size = 0 THEN Nothing
    ELSE LET p == Path(tab, m.start)
         IN  IF /\ \A i \in DOMAIN p : tab[p[i]] # Absent
                /\ tab[Last(p)].next = NIL
                /\ Len(p) = m.size
             THEN Just([i \in DOMAIN p |-> tab[p[i]].val])
             ELSE Nothing

\* generateList(): the list if it is valid.
Generated(tab, m) ==
    IF m.size = 0 THEN Nothing
    ELSE LET p == Path(tab, m.start)
             Acceptable(id) == /\ tab[id] # Absent
                               /\ m.ts # Never => tab[id].ts <= m.ts
         IN  IF /\ \A i \in DOMAIN p : Acceptable(p[i])
                /\ tab[Last(p)].next = NIL
                /\ Len(p) = m.size
             THEN Just([i \in DOMAIN p |-> tab[p[i]].val])
             ELSE Nothing

\* Mutant of Accepts: metadata without a time stamp count as the oldest.
AcceptsStamped(m) == latest.ts = Never \/ m.ts >= latest.ts

\* LargeList::receive(metadata) refuses metadata older than the latest.
Accepts(m) == m.ts = Never \/ latest.ts = Never \/ m.ts >= latest.ts

GetListFromMetadata ==
    /\ posts # <<>>
    /\ \E k \in 0 .. Len(wire) :
        /\ Ordered => k >= Head(posts).behind
        /\ Drains(k)
        /\ posts' = Nearer(Tail(posts), k)
    /\ LET m == Head(posts).described
       IN  IF Accepts(m)
           THEN latest' = m /\ cache' = Generated(table', m)
           ELSE UNCHANGED <<latest, cache>>
    /\ UNCHANGED <<writerVars, published, events>>

\* getListById().  updateListElements() on its own shows only in the table,
\* and is part of the next of these steps.
GetListById ==
    /\ \E k \in 0 .. Len(wire) : Drains(k) /\ posts' = Nearer(posts, k)
    /\ cache' = IF cache.is THEN cache ELSE Generated(table', latest)
    /\ UNCHANGED <<writerVars, published, latest, events>>

-----------------------------------------------------------------------------
Init ==
    /\ elements = <<>> /\ metadata = NoMetadata
    /\ fresh = 1 /\ clock = 0
    /\ wire = <<>>
    /\ posts = <<>> /\ published = TRUE
    /\ table = [id \in Ids |-> Absent]
    /\ latest = NoMetadata /\ cache = Nothing
    /\ events = {}

\* The vectors of values the operations take.
Vectors == {<<v>> : v \in Values} \cup {<<v, w>> : v, w \in Values}

Write ==
    \/ \E v \in Values, pos \in DOMAIN elements : Update(v, pos)
    \/ \E vs \in Vectors : Prepend(vs) \/ AppendAll(vs)
    \/ \E vs \in Vectors, pos \in 1 .. Len(elements) - 1 : Insert(vs, pos)
    \/ PopBack \/ PopFront \/ Clear
    \/ \E pos \in 1 .. Len(elements) - 2 : RemovePos(pos)

Next == Write \/ Publish \/ GetListFromMetadata \/ GetListById

Spec == Init /\ [][Next]_vars

-----------------------------------------------------------------------------
(* Properties.                                                             *)

\* The element ids of a list are distinct, a table files each element under
\* its own id, and no element is stamped later than the clock (elements_ and
\* elementTable_, LargeListWriter.h:512, LargeList.h:149).
TypeOK ==
    /\ elements \in Seq(Element) /\ Len(elements) <= MaxIds
    /\ \A i, j \in DOMAIN elements : elements[i].id = elements[j].id => i = j
    /\ \A i \in DOMAIN elements : elements[i].ts <= clock
    /\ fresh \in 1 .. MaxIds + 1 /\ clock \in Times
    /\ Len(posts) <= MaxPosts
    /\ DOMAIN table = Ids
    /\ \A id \in Ids : table[id] # Absent => /\ table[id] \in Element
                                            /\ table[id].id = id
    /\ events \subseteq Disturbances

\* What a reader holds as a valid list for metadata that carry a time stamp
\* is the list the writer had when it took the metadata, whatever it did
\* since and whichever sends failed: never a mixture of two versions
\* (LargeList::generateList, include/umaa/LargeList.h:152).
SnapshotRead ==
    cache.is /\ latest.ts # Never /\ "insert" \notin events
        => cache.list = latest.list

\* The reader's tables are well formed and what it holds as a list is one the
\* writer had, through every operation, failure and delay.
ListInv == TypeOK /\ SnapshotRead

\* The reader has received everything, and the writer has done nothing since
\* its metadata were published.
Received == wire = <<>> /\ posts = <<>> /\ published

\* The answer of getListById() is then the writer's list.
Agrees ==
    /\ Generated(table, latest) =
           IF elements = <<>> THEN Nothing ELSE Just(Contents(elements))
    /\ cache.is => cache.list = Contents(elements)

\* Once everything has arrived, in whatever pieces, the reader answers with
\* the writer's list: no earlier answer, refused metadata or cached list
\* stands in the way for ever (LargeListReader::getListById).
CatchesUp == events = {} /\ Received => Agrees

\* The same after every operation whose sends all succeeded: insert() adds
\* the element at the position asked for, popBack() removes the last one
\* (LargeListWriter.h:212-215, 303-304).
CatchesUpAlways == "sendFailed" \notin events /\ Received => Agrees
=============================================================================
