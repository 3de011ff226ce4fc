--------------------------- MODULE LargeListProofs --------------------------
(***************************************************************************)
(* The large list, for any number of values, elements, time stamps and     *)
(* metadata under way, when metadata do not overtake the elements sent     *)
(* before them: what a reader takes for a valid list is the list the       *)
(* writer had, and the reader catches up.                                  *)
(*                                                                         *)
(* A valid list is a walk along the links of a table that may mix elements *)
(* of several versions, some of which a failed send has left behind.  The  *)
(* argument is that no link leads back: a link on the bus leads to no      *)
(* element the writer's list has before its source.  Of the elements not   *)
(* newer than the metadata each is therefore one of the list described,    *)
(* has its value there, and leads on to a later one or out of the list, so *)
(* that a walk of as many steps as the list has elements meets all of them *)
(* in order.  This is so when the metadata are taken, and every sample     *)
(* sent later is newer or a dispose.                                       *)
(***************************************************************************)
EXTENDS LargeList, Integers, TLAPS, FiniteSetTheorems, WellFoundedInduction

Elements == [id : Ids, val : Values, next : Ids \cup {NIL}, ts : Times]
Elems    == {Absent} \cup Elements
Samples  == {s \in [id : Ids, el : Elems] : s.el # Absent => s.el.id = s.id}
Tables   == {tab \in [Ids -> Elems] :
                \A id \in Ids : tab[id] # Absent => tab[id].id = id}

Descriptions ==
    {m \in [start : Ids \cup {NIL}, size : 0 .. MaxIds, ts : Times,
            list : Seq(Values)] :
        Len(m.list) = m.size /\ (m.size # 0 => m.start # NIL)}

Posted == [described : Descriptions, behind : Nat]

Types ==
    /\ table \in Tables
    /\ wire \in Seq(Samples)
    /\ posts \in Seq(Posted)
    /\ Len(posts) <= MaxPosts
    /\ metadata \in Descriptions /\ latest \in Descriptions
    /\ cache \in [is : BOOLEAN, list : Seq(Values)]
    /\ fresh \in 1 .. MaxIds + 1 /\ clock \in Times
    /\ published \in BOOLEAN
    /\ events \subseteq Disturbances

\* The list els has distinct ids and links below f, and stamps up to c.
Distinct(els, f, c) ==
    /\ els \in Seq(Elements)
    /\ Len(els) < f
    /\ \A i, j \in DOMAIN els : els[i].id = els[j].id => i = j
    /\ \A i \in DOMAIN els : els[i].id < f /\ els[i].next < f /\ els[i].ts <= c

\* The element e is a version of the element at i of els, and leads to none
\* of those up to i.
Forward(e, i, els, f) ==
    /\ e.id = els[i].id /\ e.val = els[i].val /\ e.next < f
    /\ \A j \in 1 .. i : e.next # els[j].id

\* No link leads back, in the list els or in the table tab.
Ahead(els, tab, f) ==
    /\ \A i \in DOMAIN els : Forward(els[i], i, els, f)
    /\ \A id \in Ids : \/ tab[id] = Absent
                       \/ \E i \in DOMAIN els : Forward(tab[id], i, els, f)

\* Stamps grow from the reader's metadata to the writer's.
StampsFit ==
    /\ latest.ts <= clock /\ metadata.ts <= clock
    /\ metadata.ts # Never => latest.ts <= metadata.ts
    /\ \A i \in DOMAIN posts :
           /\ posts[i].described.ts <= clock
           /\ metadata.ts # Never => posts[i].described.ts <= metadata.ts
           /\ posts[i].described.ts # Never =>
                  /\ latest.ts <= posts[i].described.ts
                  /\ \A j \in 1 .. i - 1 :
                         posts[j].described.ts <= posts[i].described.ts

\* The list described by m has its elements under these ids.
Chart(ids, m) ==
    /\ ids \in [1 .. m.size -> Ids]
    /\ m.size # 0 => ids[1] = m.start
    /\ \A i, j \in 1 .. m.size : ids[i] = ids[j] => i = j

\* The element is in the list described and leads on, or the reader sees
\* that it is not.
Fits(e, m, ids) ==
    \/ e = Absent
    \/ e.ts > m.ts
    \/ \E i \in 1 .. m.size : /\ ids[i] = e.id /\ m.list[i] = e.val
                              /\ \A j \in 1 .. i : e.next # ids[j]

\* The table fits after each draining of at least b of the samples w.
FitsFrom(tab, w, m, ids, b) ==
    \A k \in b .. Len(w) : \A id \in Ids :
        Fits(Applied(tab, SubSeq(w, 1, k))[id], m, ids)

Snapshot(tab, w, m, b) ==
    m.ts # Never =>
        \E ids \in [1 .. m.size -> Ids] :
            Chart(ids, m) /\ FitsFrom(tab, w, m, ids, b)

\* What is on the bus.
BusFits ==
    /\ \A i \in DOMAIN posts : posts[i].behind <= Len(wire)
    /\ "insert" \notin events =>
           /\ Ahead(elements, Applied(table, wire), fresh)
           /\ Snapshot(table, wire, metadata, Len(wire))
           /\ Snapshot(table, wire, latest, 0)
           /\ \A i \in DOMAIN posts :
                  Snapshot(table, wire, posts[i].described, posts[i].behind)

\* The list els is linked from its first element to its last, as the table
\* tab has it, and the metadata m describe it.
Linking(els) ==
    \A i \in DOMAIN els :
        els[i].next = IF i = Len(els) THEN NIL ELSE els[i + 1].id

Stored(els, tab) == \A i \in DOMAIN els : tab[els[i].id] = els[i]

Describes(m, els) ==
    /\ m = Described(els, m.ts)
    /\ m.ts # Never => \A i \in DOMAIN els : els[i].ts <= m.ts

Undisturbed ==
    events = {} =>
        /\ Linking(elements) /\ Stored(elements, Applied(table, wire))
        /\ Describes(metadata, elements)

\* The metadata published last.
Current ==
    published /\ events = {} =>
        IF posts = <<>>
        THEN /\ wire = <<>> /\ latest = metadata
             /\ cache.is => cache.list = Contents(elements)
        ELSE posts[Len(posts)] = [described |-> metadata, behind |-> Len(wire)]

IInv ==
    /\ Types /\ Distinct(elements, fresh, clock) /\ StampsFit /\ BusFits
    /\ Undisturbed /\ SnapshotRead /\ Current

-----------------------------------------------------------------------------
(* Natural numbers.                                                        *)

LEMMA LeastNatural ==
    ASSUME NEW T, T \subseteq Nat, T # {}
    PROVE  \E x \in T : \A y \in T : x <= y
<1> DEFINE Below == {0 .. x - 1 : x \in T}
<1>1. Below # {} /\ Below \subseteq FiniteSubsetsOf(Nat)
  <2> SUFFICES ASSUME NEW x \in T
               PROVE  IsFiniteSet(0 .. x - 1) /\ 0 .. x - 1 \in SUBSET Nat
    BY DEF FiniteSubsetsOf
  <2> QED
    BY FS_Interval
<1>2. PICK b \in Below : \A c \in Below : ~ (<<c, b>> \in StrictSubsetOrdering(Nat))
  BY <1>1, FS_StrictSubsetOrderingWellFounded, WFMin
<1>3. PICK x \in T : b = 0 .. x - 1
  OBVIOUS
<1>4. ASSUME NEW y \in T, y < x PROVE FALSE
  <2>1. /\ 0 .. y - 1 \in Below /\ y \in b /\ y \notin 0 .. y - 1
        /\ 0 .. y - 1 \subseteq b
    BY <1>3, <1>4
  <2> HIDE DEF Below
  <2>2. <<0 .. y - 1, b>> \in StrictSubsetOrdering(Nat)
    <3>1. <<0 .. y - 1, b>> \in (SUBSET Nat) \X (SUBSET Nat)
      BY <1>3, SMT
    <3>2. 0 .. y - 1 # b
      BY <2>1
    <3> QED
      BY <3>1, <3>2, <2>1, Zenon DEF StrictSubsetOrdering
  <2> QED
    BY <2>1, <2>2, <1>2
<1> QED
  BY <1>4

LEMMA GreatestIndex ==
    ASSUME NEW n \in Nat, NEW T, T \subseteq 1 .. n, T # {}
    PROVE  \E x \in T : \A y \in T : y <= x
<1>1. PICK z \in {n - x : x \in T} : \A y \in {n - x : x \in T} : z <= y
  <2>1. \A x \in T : x \in Int /\ x <= n
    OBVIOUS
  <2>2. \A x \in T : n - x \in Nat
    BY <2>1
  <2>3. {n - x : x \in T} \subseteq Nat /\ {n - x : x \in T} # {}
    BY <2>2
  <2> QED
    BY <2>3, LeastNatural
<1>2. PICK x \in T : z = n - x
  OBVIOUS
<1>3. \A y \in T : n - x <= n - y
  BY <1>1, <1>2
<1> QED
  BY <1>3

-----------------------------------------------------------------------------
(* Applying samples.                                                       *)

LEMMA SampleFacts ==
    ASSUME NEW s \in Seq(Samples), NEW i \in DOMAIN s
    PROVE  /\ s[i].id \in Ids /\ s[i].el \in Elems
           /\ s[i].el # Absent => s[i].el.id = s[i].id
<1>1. s[i] \in Samples
  OBVIOUS
<1> QED
  BY <1>1 DEF Samples

LEMMA AppliedIsFunction ==
    ASSUME NEW tab, NEW s
    PROVE  Applied(tab, s) = [id \in Ids |-> Applied(tab, s)[id]]
  BY DEF Applied

LEMMA AppliedKeeps ==
    ASSUME NEW tab, NEW s, NEW id \in Ids, \A i \in DOMAIN s : s[i].id # id
    PROVE  Applied(tab, s)[id] = tab[id]
  BY DEF Applied

LEMMA AppliedLast ==
    ASSUME NEW tab, NEW s \in Seq(Samples), NEW i \in DOMAIN s,
           \A j \in DOMAIN s : s[j].id = s[i].id => j <= i
    PROVE  Applied(tab, s)[s[i].id] = s[i].el
<1> DEFINE own == {j \in DOMAIN s : s[j].id = s[i].id}
           last == CHOOSE j \in own : \A k \in own : k <= j
<1>1. i \in own /\ \A k \in own : k <= i
  OBVIOUS
<1>2. last \in own /\ \A k \in own : k <= last
  BY <1>1
<1>3. last = i
  BY <1>1, <1>2
<1>4. s[i].id \in Ids
  BY SampleFacts
<1> QED
  BY <1>1, <1>3, <1>4 DEF Applied

\* Either no sample is about the element, or there is a last one.
LEMMA LastSample ==
    ASSUME NEW s \in Seq(Samples), NEW id
    PROVE  \/ \A i \in DOMAIN s : s[i].id # id
           \/ \E i \in DOMAIN s :
                  s[i].id = id /\ \A j \in DOMAIN s : s[j].id = id => j <= i
<1> DEFINE own == {j \in DOMAIN s : s[j].id = id}
<1>1. CASE own = {}
  BY <1>1
<1>2. CASE own # {}
  <2>1. PICK i \in own : \A j \in own : j <= i
    <3>1. Len(s) \in Nat /\ own \subseteq 1 .. Len(s)
      OBVIOUS
    <3> QED
      BY <3>1, <1>2, GreatestIndex
  <2> QED
    BY <2>1
<1> QED
  BY <1>1, <1>2

\* The table after samples has an old element or one of a sample.
LEMMA AppliedFrom ==
    ASSUME NEW tab, NEW s \in Seq(Samples), NEW id \in Ids
    PROVE  \/ Applied(tab, s)[id] = tab[id] /\ \A i \in DOMAIN s : s[i].id # id
           \/ \E i \in DOMAIN s :
                  s[i].id = id /\ \A other : Applied(other, s)[id] = s[i].el
<1>1. CASE \A i \in DOMAIN s : s[i].id # id
  BY <1>1, AppliedKeeps
<1>2. ASSUME NEW i \in DOMAIN s, s[i].id = id,
             \A j \in DOMAIN s : s[j].id = id => j <= i
      PROVE  \A other : Applied(other, s)[id] = s[i].el
  BY <1>2, AppliedLast
<1> QED
  BY <1>1, <1>2, LastSample

LEMMA AppliedType ==
    ASSUME NEW tab \in Tables, NEW s \in Seq(Samples)
    PROVE  Applied(tab, s) \in Tables
<1>1. ASSUME NEW id \in Ids
      PROVE  /\ Applied(tab, s)[id] \in Elems
             /\ Applied(tab, s)[id] # Absent => Applied(tab, s)[id].id = id
  <2>1. CASE Applied(tab, s)[id] = tab[id]
    BY <2>1 DEF Tables
  <2>2. ASSUME NEW i \in DOMAIN s, s[i].id = id, Applied(tab, s)[id] = s[i].el
        PROVE  /\ Applied(tab, s)[id] \in Elems
               /\ Applied(tab, s)[id] # Absent => Applied(tab, s)[id].id = id
    BY <2>2, SampleFacts
  <2> QED
    BY <2>1, <2>2, AppliedFrom
<1>2. Applied(tab, s) \in [Ids -> Elems]
  BY <1>1, AppliedIsFunction
<1> QED
  BY <1>1, <1>2 DEF Tables

LEMMA AppliedNothing ==
    ASSUME NEW tab \in Tables
    PROVE  Applied(tab, <<>>) = tab
<1>1. \A id \in Ids : Applied(tab, <<>>)[id] = tab[id]
  BY AppliedKeeps
<1> QED
  BY <1>1, AppliedIsFunction DEF Tables

LEMMA AppliedTwice ==
    ASSUME NEW tab, NEW s \in Seq(Samples), NEW t \in Seq(Samples)
    PROVE  Applied(tab, s \o t) = Applied(Applied(tab, s), t)
<1>1. s \o t \in Seq(Samples) /\ DOMAIN (s \o t) = 1 .. Len(s) + Len(t)
  OBVIOUS
<1>2. ASSUME NEW id \in Ids
      PROVE  Applied(tab, s \o t)[id] = Applied(Applied(tab, s), t)[id]
  <2>1. ASSUME NEW i \in DOMAIN t, t[i].id = id,
               \A j \in DOMAIN t : t[j].id = id => j <= i
        PROVE  Applied(tab, s \o t)[id] = Applied(Applied(tab, s), t)[id]
    <3>1. Len(s) + i \in DOMAIN (s \o t) /\ (s \o t)[Len(s) + i] = t[i]
      BY <1>1, <2>1
    <3>2. \A j \in DOMAIN (s \o t) : (s \o t)[j].id = id => j <= Len(s) + i
      <4> SUFFICES ASSUME NEW j \in DOMAIN (s \o t), (s \o t)[j].id = id, j > Len(s)
                   PROVE  j <= Len(s) + i
        BY <1>1, <2>1
      <4>1. (s \o t)[j] = t[j - Len(s)] /\ j - Len(s) \in DOMAIN t
        BY <1>1
      <4> QED
        BY <4>1, <2>1
    <3>3. Applied(tab, s \o t)[id] = t[i].el
      BY <1>1, <3>1, <3>2, <2>1, AppliedLast
    <3> QED
      BY <3>3, <2>1, AppliedLast
  <2>2. ASSUME \A i \in DOMAIN t : t[i].id # id
        PROVE  Applied(tab, s \o t)[id] = Applied(Applied(tab, s), t)[id]
    <3>1. Applied(Applied(tab, s), t)[id] = Applied(tab, s)[id]
      BY <2>2, AppliedKeeps
    <3>2. \A j \in DOMAIN (s \o t) : (s \o t)[j].id = id =>
              j \in DOMAIN s /\ (s \o t)[j] = s[j]
      <4> SUFFICES ASSUME NEW j \in DOMAIN (s \o t), j > Len(s)
                   PROVE  (s \o t)[j].id # id
        BY <1>1
      <4>1. (s \o t)[j] = t[j - Len(s)] /\ j - Len(s) \in DOMAIN t
        BY <1>1
      <4> QED
        BY <4>1, <2>2
    <3>3. ASSUME NEW i \in DOMAIN s, s[i].id = id,
                 \A j \in DOMAIN s : s[j].id = id => j <= i
          PROVE  Applied(tab, s \o t)[id] = Applied(tab, s)[id]
      <4>1. i \in DOMAIN (s \o t) /\ (s \o t)[i] = s[i]
        BY <1>1
      <4>2. \A j \in DOMAIN (s \o t) : (s \o t)[j].id = id => j <= i
        BY <3>2, <3>3
      <4>3. Applied(tab, s \o t)[id] = s[i].el
        BY <4>1, <4>2, <1>1, <3>3, AppliedLast
      <4> QED
        BY <4>3, <3>3, AppliedLast
    <3>4. ASSUME \A i \in DOMAIN s : s[i].id # id
          PROVE  Applied(tab, s \o t)[id] = Applied(tab, s)[id]
      <4>1. \A j \in DOMAIN (s \o t) : (s \o t)[j].id # id
        BY <3>4, <3>2
      <4>2. Applied(tab, s \o t)[id] = tab[id]
        BY <4>1, AppliedKeeps, Zenon
      <4>3. Applied(tab, s)[id] = tab[id]
        BY <3>4, AppliedKeeps, Zenon
      <4> QED
        BY <4>2, <4>3
    <3> QED
      BY <3>1, <3>3, <3>4, LastSample
  <2> QED
    BY <2>1, <2>2, LastSample
<1>3. /\ Applied(tab, s \o t) = [id \in Ids |-> Applied(tab, s \o t)[id]]
      /\ Applied(Applied(tab, s), t) =
             [id \in Ids |-> Applied(Applied(tab, s), t)[id]]
  BY AppliedIsFunction
<1> QED
  BY <1>2, <1>3, Zenon

-----------------------------------------------------------------------------
(* Prefixes of the bus.                                                    *)

LEMMA WholePrefix ==
    ASSUME NEW w \in Seq(Samples)
    PROVE  SubSeq(w, 1, Len(w)) = w
  OBVIOUS

LEMMA PrefixOfSent ==
    ASSUME NEW w \in Seq(Samples), NEW t \in Seq(Samples),
           NEW k \in 0 .. Len(w \o t)
    PROVE  SubSeq(w \o t, 1, k) =
               IF k <= Len(w) THEN SubSeq(w, 1, k)
               ELSE w \o SubSeq(t, 1, k - Len(w))
  OBVIOUS

LEMMA PrefixOfRest ==
    ASSUME NEW w \in Seq(Samples), NEW k \in 0 .. Len(w),
           NEW j \in 0 .. Len(w) - k
    PROVE  SubSeq(w, 1, k + j) =
               SubSeq(w, 1, k) \o SubSeq(SubSeq(w, k + 1, Len(w)), 1, j)
  OBVIOUS

LEMMA RestType ==
    ASSUME NEW w \in Seq(Samples), NEW k \in 0 .. Len(w)
    PROVE  /\ SubSeq(w, 1, k) \in Seq(Samples)
           /\ SubSeq(w, k + 1, Len(w)) \in Seq(Samples)
           /\ Len(SubSeq(w, k + 1, Len(w))) = Len(w) - k
  OBVIOUS

\* Samples that fit are sent.
LEMMA FitsSent ==
    ASSUME NEW tab \in Tables, NEW w \in Seq(Samples), NEW t \in Seq(Samples),
           NEW m, NEW ids, NEW b \in 0 .. Len(w), FitsFrom(tab, w, m, ids, b),
           \A i \in DOMAIN t : Fits(t[i].el, m, ids)
    PROVE  FitsFrom(tab, w \o t, m, ids, b)
<1> SUFFICES ASSUME NEW k \in b .. Len(w \o t), NEW id \in Ids
             PROVE  Fits(Applied(tab, SubSeq(w \o t, 1, k))[id], m, ids)
  BY DEF FitsFrom
<1>1. k \in 0 .. Len(w \o t) /\ Len(w) \in Nat /\ Len(w \o t) = Len(w) + Len(t)
  OBVIOUS
<1>2. CASE k <= Len(w)
  <2>1. SubSeq(w \o t, 1, k) = SubSeq(w, 1, k) /\ k \in b .. Len(w)
    BY <1>1, <1>2, PrefixOfSent
  <2> QED
    BY <2>1 DEF FitsFrom
<1>3. CASE k > Len(w)
  <2> DEFINE u == SubSeq(t, 1, k - Len(w))
  <2>1. SubSeq(w \o t, 1, k) = w \o u
    BY <1>1, <1>3, PrefixOfSent
  <2>2. u \in Seq(Samples) /\ \A i \in DOMAIN u : i \in DOMAIN t /\ u[i] = t[i]
    BY <1>1, <1>3
  <2> HIDE DEF u
  <2>3. Applied(tab, w \o u) = Applied(Applied(tab, w), u)
    BY <2>2, AppliedTwice
  <2>4. Fits(Applied(tab, w)[id], m, ids)
    BY WholePrefix, Len(w) \in b .. Len(w) DEF FitsFrom
  <2>5. \/ Applied(Applied(tab, w), u)[id] = Applied(tab, w)[id]
        \/ \E i \in DOMAIN u : Applied(Applied(tab, w), u)[id] = u[i].el
    BY <2>2, AppliedFrom
  <2>6. \A i \in DOMAIN u : Fits(u[i].el, m, ids)
    BY <2>2
  <2> QED
    BY <2>1, <2>3, <2>4, <2>5, <2>6
<1> QED
  BY <1>1, <1>2, <1>3

\* The first k samples are drained.
LEMMA FitsDrained ==
    ASSUME NEW tab \in Tables, NEW w \in Seq(Samples), NEW m, NEW ids, NEW b \in Nat,
           NEW k \in 0 .. Len(w), FitsFrom(tab, w, m, ids, b)
    PROVE  FitsFrom(Applied(tab, SubSeq(w, 1, k)), SubSeq(w, k + 1, Len(w)), m, ids,
                    IF b > k THEN b - k ELSE 0)
<1> DEFINE rest == SubSeq(w, k + 1, Len(w))
<1>1. /\ SubSeq(w, 1, k) \in Seq(Samples) /\ rest \in Seq(Samples)
      /\ Len(rest) = Len(w) - k
  BY RestType
<1> SUFFICES ASSUME NEW j \in (IF b > k THEN b - k ELSE 0) .. Len(rest),
                    NEW id \in Ids
             PROVE  Fits(Applied(Applied(tab, SubSeq(w, 1, k)),
                                 SubSeq(rest, 1, j))[id], m, ids)
  BY DEF FitsFrom
<1> HIDE DEF rest
<1>2. j \in 0 .. Len(w) - k /\ k + j \in b .. Len(w)
  BY <1>1
<1>3. SubSeq(rest, 1, j) \in Seq(Samples)
  BY <1>1, <1>2
<1>4. SubSeq(w, 1, k + j) = SubSeq(w, 1, k) \o SubSeq(rest, 1, j)
  BY <1>2, PrefixOfRest DEF rest
<1>5. Applied(tab, SubSeq(w, 1, k + j)) =
          Applied(Applied(tab, SubSeq(w, 1, k)), SubSeq(rest, 1, j))
  <2> DEFINE first == SubSeq(w, 1, k)
             next  == SubSeq(rest, 1, j)
  <2>1. first \in Seq(Samples) /\ next \in Seq(Samples)
    BY <1>1, <1>3
  <2>2. SubSeq(w, 1, k + j) = first \o next
    BY <1>4
  <2> HIDE DEF first, next
  <2>3. Applied(tab, first \o next) = Applied(Applied(tab, first), next)
    BY <2>1, AppliedTwice
  <2> QED
    BY <2>2, <2>3 DEF first, next
<1>6. Fits(Applied(tab, SubSeq(w, 1, k + j))[id], m, ids)
  BY <1>2 DEF FitsFrom
<1> QED
  BY <1>5, <1>6

-----------------------------------------------------------------------------
(* Walks.                                                                  *)

LEMMA NatSet ==
    ASSUME NEW T, 0 \in T, \A n \in Nat : n \in T => n + 1 \in T
    PROVE  Nat \subseteq T
<1> DEFINE R == Nat \ T
<1> SUFFICES ASSUME R # {} PROVE FALSE
  OBVIOUS
<1>1. PICK x \in R : \A y \in R : x <= y
  BY LeastNatural
<1>2. x # 0 /\ x \in Nat
  BY <1>1
<1>3. x - 1 \in Nat /\ x - 1 \notin R /\ (x - 1) + 1 = x
  BY <1>1, <1>2
<1> QED
  BY <1>1, <1>3

\* One turn of the loop of generateList().
Grown(tab, p) ==
    IF \/ tab[Last(p)] = Absent \/ tab[Last(p)].next = NIL
       \/ tab[Last(p)].next \in ToSet(p)
    THEN p ELSE Append(p, tab[Last(p)].next)

\* f has the first n turns of the loop.
Turns(f, tab, start, n) ==
    f = [k \in 0 .. n |-> IF k = 0 THEN <<start>> ELSE Grown(tab, f[k - 1])]

LEMMA TurnsExist ==
    ASSUME NEW tab, NEW start, NEW n \in Nat
    PROVE  \E f : Turns(f, tab, start, n)
<1> DEFINE T == {k \in Nat : \E f : Turns(f, tab, start, k)}
<1>1. 0 \in T
  <2>1. Turns([k \in 0 .. 0 |-> <<start>>], tab, start, 0)
    BY DEF Turns
  <2> QED
    BY <2>1
<1>2. ASSUME NEW k \in T PROVE k + 1 \in T
  <2>1. PICK f : Turns(f, tab, start, k)
    OBVIOUS
  <2> DEFINE g == [i \in 0 .. k + 1 |->
                      IF i = k + 1 THEN Grown(tab, f[k]) ELSE f[i]]
  <2>2. k \in Nat /\ k + 1 \in Nat
    OBVIOUS
  <2>3. ASSUME NEW i \in 0 .. k + 1
        PROVE  g[i] = IF i = 0 THEN <<start>> ELSE Grown(tab, g[i - 1])
    <3>1. CASE i = k + 1
      <4>1. i # 0 /\ g[i] = Grown(tab, f[k]) /\ g[i - 1] = f[k]
        BY <2>2, <3>1
      <4> QED
        BY <4>1
    <3>2. CASE i # k + 1
      <4>1. i \in 0 .. k /\ g[i] = f[i] /\ (i # 0 => g[i - 1] = f[i - 1])
        BY <2>2, <3>2
      <4>2. f[i] = IF i = 0 THEN <<start>> ELSE Grown(tab, f[i - 1])
        BY <2>1, <4>1, Zenon DEF Turns
      <4> QED
        BY <4>1, <4>2
    <3> QED
      BY <3>1, <3>2
  <2>4. g = [i \in 0 .. k + 1 |->
                IF i = 0 THEN <<start>> ELSE Grown(tab, g[i - 1])]
    <3>1. g = [i \in 0 .. k + 1 |-> g[i]]
      BY Zenon
    <3> HIDE DEF g
    <3> QED
      BY <2>3, <3>1, Zenon
  <2> HIDE DEF g
  <2> QED
    BY <2>2, <2>4 DEF Turns
<1> HIDE DEF T
<1>3. n \in T
  BY <1>1, <1>2, NatSet
<1> QED
  BY <1>3 DEF T

LEMMA PathTurns ==
    ASSUME NEW tab, NEW start
    PROVE  \E f : Turns(f, tab, start, MaxIds) /\ Path(tab, start) = f[MaxIds]
<1> DEFINE g == CHOOSE f : Turns(f, tab, start, MaxIds)
<1>1. Turns(g, tab, start, MaxIds)
  BY TurnsExist, LargeListAssumption
<1>2. Path(tab, start) = g[MaxIds]
  BY Zenon DEF Path, Turns, Grown
<1> QED
  BY <1>1, <1>2

LEMMA TurnsStep ==
    ASSUME NEW f, NEW tab, NEW start, NEW n \in Nat, Turns(f, tab, start, n)
    PROVE  /\ f[0] = <<start>>
           /\ \A k \in 0 .. n : k + 1 \in 0 .. n => f[k + 1] = Grown(tab, f[k])
<1>1. f = [k \in 0 .. n |-> IF k = 0 THEN <<start>> ELSE Grown(tab, f[k - 1])]
  BY DEF Turns
<1>2. 0 \in 0 .. n
  OBVIOUS
<1>3. f[0] = <<start>>
  BY <1>1, <1>2, Zenon
<1>4. ASSUME NEW k \in 0 .. n, k + 1 \in 0 .. n PROVE f[k + 1] = Grown(tab, f[k])
  <2>1. f[k + 1] = IF k + 1 = 0 THEN <<start>> ELSE Grown(tab, f[(k + 1) - 1])
    BY <1>1, <1>4, Zenon
  <2>2. k + 1 # 0 /\ (k + 1) - 1 = k
    OBVIOUS
  <2> QED
    BY <2>1, <2>2
<1> QED
  BY <1>3, <1>4

\* p follows the links of the table from start.
Walk(p, tab, start) ==
    /\ p \in Seq(Ids) /\ Len(p) > 0 /\ p[1] = start
    /\ \A i \in 1 .. Len(p) - 1 :
           tab[p[i]] # Absent /\ p[i + 1] = tab[p[i]].next

LEMMA PathWalks ==
    ASSUME NEW tab \in Tables, NEW start \in Ids
    PROVE  Walk(Path(tab, start), tab, start)
<1>0. PICK f : Turns(f, tab, start, MaxIds) /\ Path(tab, start) = f[MaxIds]
  BY PathTurns
<1>1. MaxIds \in Nat
  BY LargeListAssumption
<1> DEFINE T == {k \in Nat : k <= MaxIds => Walk(f[k], tab, start)}
<1>2. 0 \in T
  <2>1. f[0] = <<start>>
    BY <1>0, <1>1, TurnsStep
  <2>2. <<start>> \in Seq(Ids) /\ Len(<<start>>) = 1 /\ <<start>>[1] = start
    OBVIOUS
  <2>3. Walk(<<start>>, tab, start)
    BY <2>2 DEF Walk
  <2> QED
    BY <2>1, <2>3
<1>3. ASSUME NEW k \in T PROVE k + 1 \in T
  <2> SUFFICES ASSUME k + 1 <= MaxIds PROVE Walk(f[k + 1], tab, start)
    OBVIOUS
  <2> DEFINE p == f[k]
  <2>1. f[k + 1] = Grown(tab, p) /\ Walk(p, tab, start)
    <3>1. k \in 0 .. MaxIds /\ k + 1 \in 0 .. MaxIds
      BY <1>1
    <3> QED
      BY <1>0, <1>1, <3>1, TurnsStep
  <2> HIDE DEF p
  <2>2. p \in Seq(Ids) /\ Len(p) \in Nat /\ Len(p) > 0 /\ Last(p) = p[Len(p)]
        /\ Last(p) \in Ids
    BY <2>1 DEF Walk, Last
  <2>3. CASE Grown(tab, p) = p
    BY <2>1, <2>3
  <2>4. CASE /\ tab[Last(p)] # Absent /\ tab[Last(p)].next # NIL
             /\ Grown(tab, p) = Append(p, tab[Last(p)].next)
    <3> DEFINE id == tab[Last(p)].next
               q  == Append(p, id)
    <3>1. id \in Ids
      BY <2>2, <2>4 DEF Tables, Elems, Elements
    <3> HIDE DEF id
    <3>2. /\ q \in Seq(Ids) /\ Len(q) = Len(p) + 1 /\ q[Len(p) + 1] = id
          /\ \A i \in 1 .. Len(p) : q[i] = p[i]
      BY <2>2, <3>1
    <3> HIDE DEF q
    <3>3. q[1] = start
      BY <2>1, <2>2, <3>2 DEF Walk
    <3>4. ASSUME NEW i \in 1 .. Len(q) - 1
          PROVE  tab[q[i]] # Absent /\ q[i + 1] = tab[q[i]].next
      <4>1. CASE i = Len(p)
        BY <2>2, <2>4, <3>2, <4>1 DEF id
      <4>2. CASE i # Len(p)
        <5>1. i \in 1 .. Len(p) - 1 /\ q[i] = p[i] /\ q[i + 1] = p[i + 1]
          BY <2>2, <3>2, <4>2
        <5> QED
          BY <2>1, <5>1 DEF Walk
      <4> QED
        BY <4>1, <4>2
    <3>5. Walk(q, tab, start)
      BY <2>2, <3>2, <3>3, <3>4 DEF Walk
    <3> QED
      BY <2>1, <2>4, <3>5 DEF q, id
  <2> QED
    BY <2>1, <2>3, <2>4 DEF Grown
<1> HIDE DEF T
<1>4. MaxIds \in T
  BY <1>1, <1>2, <1>3, NatSet
<1> QED
  BY <1>0, <1>1, <1>4 DEF T

LEMMA FirstOf ==
    ASSUME NEW S, NEW s \in Seq(S), 1 \in 1 .. Len(s)
    PROVE  SubSeq(s, 1, 1) = <<s[1]>>
<1> DEFINE u == SubSeq(s, 1, 1)
<1>1. u \in Seq(S) /\ Len(u) = 1 /\ u[1] = s[1]
  OBVIOUS
<1> HIDE DEF u
<1>2. u = <<s[1]>>
  BY <1>1
<1> QED
  BY <1>2 DEF u

\* The loop walks along the whole of a list that is stored as it is linked.
LEMMA PathOfList ==
    ASSUME NEW tab, NEW els \in Seq(Elements), els # <<>>, Len(els) <= MaxIds,
           \A i, j \in DOMAIN els : els[i].id = els[j].id => i = j,
           Linking(els), Stored(els, tab)
    PROVE  Path(tab, els[1].id) = [i \in 1 .. Len(els) |-> els[i].id]
<1> DEFINE ids == [i \in 1 .. Len(els) |-> els[i].id]
           start == els[1].id
<1>0. PICK f : Turns(f, tab, start, MaxIds) /\ Path(tab, start) = f[MaxIds]
  BY PathTurns
<1>1. /\ MaxIds \in Nat /\ Len(els) \in Nat /\ Len(els) > 0
      /\ DOMAIN els = 1 .. Len(els)
  BY LargeListAssumption
<1>2. \A i \in 1 .. Len(els) : /\ els[i] \in Elements /\ els[i].id \in Ids
                               /\ els[i] # Absent
  <2> SUFFICES ASSUME NEW i \in 1 .. Len(els)
               PROVE  els[i] \in Elements /\ els[i].id \in Ids /\ els[i] # Absent
    OBVIOUS
  <2>1. els[i] \in Elements
    BY <1>1
  <2>2. els[i].id \in Ids
    BY <2>1 DEF Elements
  <2>3. els[i].id # NIL
    BY <2>2 DEF Ids, NIL
  <2>4. Absent.id = NIL
    BY DEF Absent
  <2> QED
    BY <2>1, <2>2, <2>3, <2>4
<1>3. /\ ids \in Seq(Ids) /\ Len(ids) = Len(els)
      /\ \A i \in 1 .. Len(els) : ids[i] = els[i].id
  BY <1>1, <1>2
<1>4. \A i, j \in 1 .. Len(els) : ids[i] = ids[j] => i = j
  BY <1>1, <1>3
<1> HIDE DEF ids
<1> DEFINE N(k) == IF k < Len(els) THEN k + 1 ELSE Len(els)
           T == {k \in Nat : k <= MaxIds => f[k] = SubSeq(ids, 1, N(k))}
<1>5. 0 \in T
  <2>1. f[0] = <<start>>
    BY <1>0, <1>1, TurnsStep
  <2>2. SubSeq(ids, 1, 1) = <<ids[1]>> /\ ids[1] = start
    <3>1. 1 \in 1 .. Len(els) /\ 1 \in 1 .. Len(ids)
      BY <1>1, <1>3
    <3>2. SubSeq(ids, 1, 1) = <<ids[1]>>
      BY <1>3, <3>1, FirstOf
    <3> QED
      BY <1>3, <3>1, <3>2
  <2> QED
    BY <1>1, <2>1, <2>2
<1>6. ASSUME NEW k \in T PROVE k + 1 \in T
  <2> SUFFICES ASSUME k + 1 <= MaxIds PROVE f[k + 1] = SubSeq(ids, 1, N(k + 1))
    OBVIOUS
  <2> DEFINE n == N(k)
             p == SubSeq(ids, 1, n)
  <2>1. f[k + 1] = Grown(tab, p)
    <3>1. k \in 0 .. MaxIds /\ k + 1 \in 0 .. MaxIds /\ k <= MaxIds
      BY <1>1
    <3>2. f[k + 1] = Grown(tab, f[k])
      BY <1>0, <1>1, <3>1, TurnsStep
    <3> QED
      BY <3>1, <3>2
  <2>2. n \in 1 .. Len(els) /\ n \in Nat /\ k \in Nat
    BY <1>1
  <2>3. /\ p \in Seq(Ids) /\ Len(p) = n /\ \A i \in 1 .. n : p[i] = ids[i]
        /\ Last(p) = ids[n]
    <3> HIDE DEF n
    <3> QED
      BY <1>1, <1>3, <2>2 DEF Last
  <2>4. tab[Last(p)] = els[n]
    BY SMTT(30), <1>1, <1>3, <2>2, <2>3 DEF Stored
  <2>5. els[n].next = IF n = Len(els) THEN NIL ELSE els[n + 1].id
    BY <1>1, <2>2 DEF Linking
  <2> HIDE DEF p
  <2>6. CASE k + 1 >= Len(els)
    <3>1. n = Len(els) /\ N(k + 1) = n
      <4>1. ~ (k + 1 < Len(els))
        BY <1>1, <2>2, <2>6
      <4>2. N(k + 1) = Len(els) /\ (n = k + 1 \/ n = Len(els))
        BY <4>1
      <4> HIDE DEF n, N, T, start
      <4>3. n = Len(els)
        <5>1. n <= Len(els) /\ n \in Nat /\ Len(els) \in Nat
          BY <1>1, <2>2
        <5>2. n >= Len(els)
          BY <1>1, <2>6, <4>2
        <5> QED
          BY <5>1, <5>2
      <4> QED
        BY <4>2, <4>3
    <3>2. Grown(tab, p) = p
      BY <2>4, <2>5, <3>1 DEF Grown
    <3> QED
      BY <2>1, <3>1, <3>2 DEF p
  <2>7. CASE k + 1 < Len(els)
    <3>1. n = k + 1 /\ n < Len(els) /\ n + 1 \in 1 .. Len(els) /\ N(k + 1) = n + 1
      BY <1>1, <2>2, <2>7
    <3> HIDE DEF n, N
    <3>2. /\ els[n].next = ids[n + 1] /\ ids[n + 1] \in Ids
          /\ els[n] # Absent
      BY <1>2, <1>3, <2>2, <2>5, <3>1
    <3>3. ids[n + 1] # NIL
      BY <3>2 DEF Ids, NIL
    <3>4. ids[n + 1] \notin ToSet(p)
      <4>1. \A i \in 1 .. n : ids[i] # ids[n + 1]
        <5> SUFFICES ASSUME NEW i \in 1 .. n, ids[i] = ids[n + 1] PROVE FALSE
          OBVIOUS
        <5>1. i \in 1 .. Len(els) /\ i # n + 1
          BY <1>1, <2>2, <3>1
        <5> QED
          BY <1>4, <3>1, <5>1
      <4>2. DOMAIN p = 1 .. n
        BY <2>3
      <4> QED
        BY <2>3, <4>1, <4>2 DEF ToSet
    <3>5. Grown(tab, p) = Append(p, ids[n + 1])
      BY <2>4, <3>2, <3>3, <3>4, Zenon DEF Grown
    <3>6. Append(p, ids[n + 1]) = SubSeq(ids, 1, n + 1)
      BY <1>1, <1>3, <2>2, <2>3, <3>1
    <3> QED
      BY <2>1, <3>1, <3>5, <3>6
  <2> QED
    BY <1>1, <2>2, <2>6, <2>7
<1> HIDE DEF T
<1>7. MaxIds \in T
  BY <1>1, <1>5, <1>6, NatSet
<1> HIDE DEF start
<1>8. f[MaxIds] = SubSeq(ids, 1, Len(els))
  BY <1>1, <1>7 DEF T
<1>9. SubSeq(ids, 1, Len(els)) = ids
  BY <1>3
<1> QED
  BY <1>0, <1>8, <1>9 DEF ids, start

-----------------------------------------------------------------------------
(* Lists and their descriptions.                                           *)

LEMMA ElementFacts ==
    ASSUME NEW els \in Seq(Elements), NEW i \in DOMAIN els
    PROVE  /\ els[i] \in Elements /\ els[i] # Absent
           /\ els[i].id \in Ids /\ els[i].val \in Values
           /\ els[i].next \in Ids \cup {NIL} /\ els[i].ts \in Times
           /\ els[i].ts \in Nat
           /\ els[i].id # NIL /\ els[i].id \in Nat /\ els[i].next \in Nat
<1>1. els[i] \in Elements
  OBVIOUS
<1>2. /\ els[i].id \in Ids /\ els[i].val \in Values
      /\ els[i].next \in Ids \cup {NIL} /\ els[i].ts \in Times
  BY <1>1 DEF Elements
<1>3. els[i].id # NIL /\ els[i].ts \in Nat /\ els[i].id \in Nat
      /\ els[i].next \in Nat
  BY <1>2, LargeListAssumption DEF Ids, NIL, Times
<1>4. Absent.id = NIL
  BY DEF Absent
<1> QED
  BY <1>1, <1>2, <1>3, <1>4

LEMMA ElemFacts ==
    ASSUME NEW e \in Elems
    PROVE  /\ e = Absent \/ e \in Elements
           /\ e # Absent => /\ e.id \in Ids /\ e.val \in Values /\ e.ts \in Nat
                            /\ e.next \in Nat
  BY LargeListAssumption DEF Elems, Elements, Times, NIL, Ids

LEMMA DescribedFacts ==
    ASSUME NEW els \in Seq(Elements), Len(els) <= MaxIds, NEW ts \in Times
    PROVE  /\ Described(els, ts) \in Descriptions
           /\ Described(els, ts).ts = ts
           /\ Described(els, ts).size = Len(els)
           /\ Described(els, ts).list = Contents(els)
           /\ els # <<>> => Described(els, ts).start = els[1].id
           /\ Contents(els) \in Seq(Values) /\ Len(Contents(els)) = Len(els)
           /\ \A i \in DOMAIN els : Contents(els)[i] = els[i].val
<1>1. /\ Described(els, ts).ts = ts
      /\ Described(els, ts).size = Len(els)
      /\ Described(els, ts).list = Contents(els)
      /\ els # <<>> => Described(els, ts).start = els[1].id
      /\ els = <<>> => Described(els, ts).start = NIL
  BY DEF Described
<1>2. /\ Contents(els) \in Seq(Values) /\ Len(Contents(els)) = Len(els)
      /\ \A i \in DOMAIN els : Contents(els)[i] = els[i].val
  <2>1. \A i \in DOMAIN els : els[i].val \in Values
    BY ElementFacts
  <2> QED
    BY <2>1 DEF Contents
<1>3. els # <<>> => els[1].id \in Ids /\ els[1].id # NIL
  BY ElementFacts
<1>4. Len(els) \in 0 .. MaxIds /\ (Len(els) = 0 <=> els = <<>>)
  BY LargeListAssumption
<1>5. Described(els, ts) = [start |-> IF els = <<>> THEN NIL ELSE els[1].id,
                            size |-> Len(els), ts |-> ts, list |-> Contents(els)]
  BY DEF Described
<1> DEFINE start == IF els = <<>> THEN NIL ELSE els[1].id
           list == Contents(els)
           size == Len(els)
<1>6. /\ start \in Ids \cup {NIL} /\ size \in 0 .. MaxIds /\ list \in Seq(Values)
      /\ Len(list) = size /\ (size # 0 => start # NIL)
  BY <1>2, <1>3, <1>4
<1>7. Described(els, ts) =
          [start |-> start, size |-> size, ts |-> ts, list |-> list]
  BY <1>5
<1> HIDE DEF start, list, size
<1>8. Described(els, ts) \in Descriptions
  BY <1>6, <1>7 DEF Descriptions
<1> QED
  BY <1>1, <1>2, <1>8

LEMMA NoMetadataFacts ==
    NoMetadata \in Descriptions /\ NoMetadata.ts = Never /\ NoMetadata.size = 0
<1>1. /\ <<>> \in Seq(Elements) /\ Len(<<>>) = 0 /\ Len(<<>>) <= MaxIds
      /\ Never \in Times
  BY LargeListAssumption DEF Never, Times
<1> QED
  BY <1>1, DescribedFacts DEF NoMetadata

LEMMA DescriptionFacts ==
    ASSUME NEW m \in Descriptions
    PROVE  /\ m.size \in Nat /\ m.size <= MaxIds /\ m.ts \in Times /\ m.ts \in Nat
           /\ m.list \in Seq(Values) /\ Len(m.list) = m.size
           /\ m.size # 0 => m.start \in Ids
  BY LargeListAssumption DEF Descriptions, Times

\* A table without links back fits the metadata taken of the list.
LEMMA TakenFits ==
    ASSUME NEW els, NEW f, NEW c, Distinct(els, f, c), NEW tab, Ahead(els, tab, f),
           Len(els) <= MaxIds, NEW ts \in Times
    PROVE  \E ids \in [1 .. Described(els, ts).size -> Ids] :
               /\ Chart(ids, Described(els, ts))
               /\ \A id \in Ids : Fits(tab[id], Described(els, ts), ids)
<1> DEFINE m == Described(els, ts)
           ids == [i \in 1 .. m.size |-> els[i].id]
<1>1. /\ els \in Seq(Elements) /\ DOMAIN els = 1 .. Len(els) /\ Len(els) \in Nat
      /\ \A i, j \in DOMAIN els : els[i].id = els[j].id => i = j
  BY DEF Distinct
<1>2. /\ m.size = Len(els) /\ m.list = Contents(els)
      /\ els # <<>> => m.start = els[1].id
      /\ \A i \in DOMAIN els : Contents(els)[i] = els[i].val
  BY <1>1, DescribedFacts
<1> HIDE DEF m
<1>3. \A i \in DOMAIN els : els[i].id \in Ids
  BY <1>1, ElementFacts
<1>4. ids \in [1 .. m.size -> Ids] /\ \A i \in DOMAIN els : ids[i] = els[i].id
  BY <1>1, <1>2, <1>3
<1> HIDE DEF ids
<1>5. Chart(ids, m)
  <2>1. m.size # 0 => ids[1] = m.start
    BY <1>1, <1>2, <1>4
  <2>2. \A i, j \in 1 .. m.size : ids[i] = ids[j] => i = j
    BY <1>1, <1>2, <1>4
  <2> QED
    BY <1>4, <2>1, <2>2 DEF Chart
<1>6. ASSUME NEW id \in Ids PROVE Fits(tab[id], m, ids)
  <2>1. CASE tab[id] = Absent
    BY <2>1 DEF Fits
  <2>2. ASSUME NEW i \in DOMAIN els, Forward(tab[id], i, els, f)
        PROVE  Fits(tab[id], m, ids)
    <3>1. i \in 1 .. m.size /\ ids[i] = tab[id].id /\ m.list[i] = tab[id].val
      BY <1>1, <1>2, <1>4, <2>2 DEF Forward
    <3>2. \A j \in 1 .. i : j \in DOMAIN els /\ tab[id].next # ids[j]
      <4>1. \A j \in 1 .. i : j \in DOMAIN els
        BY <1>1
      <4> QED
        BY <1>4, <2>2, <4>1 DEF Forward
    <3> QED
      BY <3>1, <3>2 DEF Fits
  <2> QED
    BY <2>1, <2>2 DEF Ahead
<1> QED
  BY <1>4, <1>5, <1>6 DEF m

-----------------------------------------------------------------------------
(* Generated lists.                                                        *)

LEMMA GeneratedShape ==
    ASSUME NEW tab \in Tables, NEW m \in Descriptions, Generated(tab, m).is
    PROVE  LET p == Path(tab, m.start)
           IN  /\ m.size # 0 /\ Walk(p, tab, m.start) /\ Len(p) = m.size
               /\ \A i \in 1 .. Len(p) :
                      /\ p[i] \in Ids /\ tab[p[i]] # Absent
                      /\ m.ts # Never => tab[p[i]].ts <= m.ts
               /\ Generated(tab, m).list = [i \in 1 .. Len(p) |-> tab[p[i]].val]
<1> DEFINE p == Path(tab, m.start)
<1>1. ~ Nothing.is
  BY DEF Nothing
<1>2. m.size # 0
  BY <1>1 DEF Generated
<1>3. Walk(p, tab, m.start)
  BY <1>2, DescriptionFacts, PathWalks
<1>4. p \in Seq(Ids) /\ DOMAIN p = 1 .. Len(p)
  BY <1>3 DEF Walk
<1> HIDE DEF p
<1>5. /\ \A i \in DOMAIN p : /\ tab[p[i]] # Absent
                             /\ m.ts # Never => tab[p[i]].ts <= m.ts
      /\ Len(p) = m.size
      /\ Generated(tab, m) = Just([i \in DOMAIN p |-> tab[p[i]].val])
  BY <1>1, <1>2, Zenon DEF Generated, p
<1>6. Generated(tab, m).list = [i \in DOMAIN p |-> tab[p[i]].val]
  BY <1>5 DEF Just
<1> QED
  BY <1>2, <1>3, <1>4, <1>5, <1>6 DEF p

LEMMA GeneratedType ==
    ASSUME NEW tab \in Tables, NEW m \in Descriptions
    PROVE  Generated(tab, m) \in [is : BOOLEAN, list : Seq(Values)]
<1> DEFINE p == Path(tab, m.start)
<1>1. \/ Generated(tab, m) = Nothing
      \/ Generated(tab, m) = Just([i \in DOMAIN p |-> tab[p[i]].val])
  BY Zenon DEF Generated
<1>2. CASE Generated(tab, m) = Nothing
  BY <1>2 DEF Nothing
<1>3. CASE Generated(tab, m) = Just([i \in DOMAIN p |-> tab[p[i]].val])
  <2> DEFINE l == [i \in DOMAIN p |-> tab[p[i]].val]
  <2>1. Generated(tab, m).is
    BY <1>3 DEF Just
  <2>2. /\ p \in Seq(Ids) /\ DOMAIN p = 1 .. Len(p) /\ Len(p) \in Nat
        /\ \A i \in 1 .. Len(p) : p[i] \in Ids /\ tab[p[i]] # Absent
    <3>1. /\ Walk(p, tab, m.start)
          /\ \A i \in 1 .. Len(p) : p[i] \in Ids /\ tab[p[i]] # Absent
      BY <2>1, GeneratedShape
    <3> QED
      BY <3>1 DEF Walk
  <2>3. \A i \in 1 .. Len(p) : tab[p[i]].val \in Values
    <3> HIDE DEF p
    <3> QED
      BY <2>2, ElemFacts DEF Tables
  <2>4. l \in Seq(Values)
    <3> HIDE DEF p
    <3> QED
      BY <2>2, <2>3
  <2>5. Generated(tab, m) = Just(l)
    BY <1>3
  <2> HIDE DEF l
  <2> QED
    BY <2>4, <2>5 DEF Just
<1> QED
  BY <1>1, <1>2, <1>3

\* A valid list of a table that fits is the one described.
LEMMA GeneratedSnapshot ==
    ASSUME NEW tab \in Tables, NEW m \in Descriptions, m.ts # Never,
           NEW ids, Chart(ids, m), \A id \in Ids : Fits(tab[id], m, ids),
           Generated(tab, m).is
    PROVE  Generated(tab, m).list = m.list
<1> DEFINE p == Path(tab, m.start)
           n == m.size
           Met(q, i) == /\ ids[q] = p[i] /\ m.list[q] = tab[p[i]].val
                        /\ \A j \in 1 .. q : tab[p[i]].next # ids[j]
<1>1. /\ n # 0 /\ Walk(p, tab, m.start) /\ Len(p) = n
      /\ \A i \in 1 .. Len(p) : /\ p[i] \in Ids /\ tab[p[i]] # Absent
                                /\ tab[p[i]].ts <= m.ts
      /\ Generated(tab, m).list = [i \in 1 .. Len(p) |-> tab[p[i]].val]
  BY GeneratedShape
<1>2. /\ n \in Nat /\ n > 0 /\ m.ts \in Nat /\ m.start \in Ids
      /\ m.list \in Seq(Values) /\ Len(m.list) = n
  BY <1>1, DescriptionFacts
<1> HIDE DEF p, n
<1>3. ASSUME NEW i \in 1 .. n PROVE \E q \in 1 .. n : Met(q, i)
  <2>1. /\ p[i] \in Ids /\ tab[p[i]] # Absent /\ tab[p[i]].ts <= m.ts
        /\ tab[p[i]] \in Elems /\ tab[p[i]].id = p[i]
    BY <1>1 DEF Tables
  <2>2. ~ (tab[p[i]].ts > m.ts)
    BY <1>2, <2>1, ElemFacts
  <2> QED
    BY <2>1, <2>2 DEF Fits, n
<1>4. PICK at \in [1 .. n -> 1 .. n] : \A i \in 1 .. n : Met(at[i], i)
  <2> DEFINE a == [i \in 1 .. n |-> CHOOSE q \in 1 .. n : Met(q, i)]
  <2>1. \A i \in 1 .. n : a[i] \in 1 .. n /\ Met(a[i], i)
    BY <1>3
  <2>2. a \in [1 .. n -> 1 .. n]
    BY <2>1
  <2> HIDE DEF a
  <2> QED
    BY <2>1, <2>2
<1>5. \A i, j \in 1 .. n : ids[i] = ids[j] => i = j
  BY DEF Chart, n
<1>6. at[1] = 1
  <2>1. ids[1] = m.start /\ p[1] = m.start
    BY <1>1 DEF Chart, Walk, n
  <2>2. 1 \in 1 .. n /\ at[1] \in 1 .. n /\ ids[at[1]] = p[1]
    BY <1>2, <1>4
  <2> QED
    BY <1>5, <2>1, <2>2
<1>7. ASSUME NEW i \in 1 .. n - 1 PROVE at[i] < at[i + 1]
  <2>1. i \in 1 .. n /\ i + 1 \in 1 .. n /\ i \in 1 .. Len(p) - 1
    BY <1>1, <1>2
  <2>2. p[i + 1] = tab[p[i]].next
    BY <1>1, <2>1 DEF Walk
  <2>3. ids[at[i + 1]] = p[i + 1] /\ at[i + 1] \in 1 .. n /\ at[i] \in 1 .. n
    BY <1>4, <2>1
  <2>4. \A j \in 1 .. at[i] : tab[p[i]].next # ids[j]
    BY <1>4, <2>1
  <2>5. at[i + 1] \notin 1 .. at[i]
    BY <2>2, <2>3, <2>4
  <2> QED
    BY <1>2, <2>3, <2>5
<1> HIDE DEF Met
<1>8. \A i \in 1 .. n : at[i] >= i
  <2> DEFINE low == {i \in 1 .. n : at[i] < i}
  <2> SUFFICES ASSUME low # {} PROVE FALSE
    BY <1>2, <1>4
  <2>1. low \subseteq Nat
    BY <1>2
  <2>2. PICK i \in low : \A j \in low : i <= j
    BY <2>1, LeastNatural
  <2>3. i \in 1 .. n /\ at[i] < i /\ i # 1
    BY <1>6, <2>2
  <2>4. i - 1 \in 1 .. n /\ i - 1 \in 1 .. n - 1 /\ (i - 1) + 1 = i
    BY <1>2, <2>3
  <2>5. i - 1 \notin low
    BY <2>2, <2>3
  <2>6. at[i - 1] \in 1 .. n /\ at[i] \in 1 .. n /\ ~ (at[i - 1] < i - 1)
    BY <1>4, <2>3, <2>4, <2>5
  <2>7. at[i - 1] < at[i]
    BY <1>7, <2>4
  <2> HIDE DEF low
  <2> QED
    BY <1>2, <2>3, <2>6, <2>7
<1>9. \A i \in 1 .. n : at[i] = i
  <2> DEFINE high == {i \in 1 .. n : at[i] # i}
  <2> SUFFICES ASSUME high # {} PROVE FALSE
    OBVIOUS
  <2>1. high \subseteq 1 .. n
    OBVIOUS
  <2>2. PICK i \in high : \A j \in high : j <= i
    BY <1>2, <2>1, GreatestIndex
  <2>3. i \in 1 .. n /\ at[i] # i /\ at[i] >= i /\ at[i] \in 1 .. n
    BY <1>4, <1>8, <2>2
  <2>4. i # n
    BY <1>2, <2>3
  <2>5. i + 1 \in 1 .. n /\ i \in 1 .. n - 1
    BY <1>2, <2>3, <2>4
  <2>6. i + 1 \notin high
    BY <2>2, <2>3
  <2>7. at[i + 1] = i + 1
    BY <2>5, <2>6
  <2>8. at[i] < at[i + 1]
    BY <1>7, <2>5
  <2> HIDE DEF high
  <2> QED
    BY <1>2, <2>3, <2>7, <2>8
<1>10. \A i \in 1 .. n : tab[p[i]].val = m.list[i]
  BY <1>4, <1>9 DEF Met
<1>11. m.list = [i \in 1 .. n |-> m.list[i]]
  BY <1>2
<1> QED
  BY <1>1, <1>10, <1>11

\* The list generated of what is stored as it is linked.
LEMMA GeneratedList ==
    ASSUME NEW tab, NEW els, NEW f, NEW c, Distinct(els, f, c),
           Len(els) <= MaxIds, Linking(els), Stored(els, tab),
           NEW m \in Descriptions, Describes(m, els)
    PROVE  Generated(tab, m) =
               IF els = <<>> THEN Nothing ELSE Just(Contents(els))
<1>1. /\ els \in Seq(Elements) /\ DOMAIN els = 1 .. Len(els) /\ Len(els) \in Nat
      /\ \A i, j \in DOMAIN els : els[i].id = els[j].id => i = j
  BY DEF Distinct
<1>2. m.ts \in Times
  BY DescriptionFacts
<1>3. /\ m.size = Len(els) /\ (els # <<>> => m.start = els[1].id)
      /\ m.ts # Never => \A i \in DOMAIN els : els[i].ts <= m.ts
  BY <1>1, <1>2, DescribedFacts DEF Describes
<1>4. CASE els = <<>>
  BY <1>3, <1>4 DEF Generated
<1>5. CASE els # <<>>
  <2> DEFINE p == Path(tab, m.start)
  <2>1. p = [i \in 1 .. Len(els) |-> els[i].id]
    BY <1>1, <1>3, <1>5, PathOfList
  <2>2. \A i \in 1 .. Len(els) : tab[els[i].id] = els[i] /\ els[i] # Absent
    BY <1>1, ElementFacts DEF Stored
  <2> HIDE DEF p
  <2>3. /\ DOMAIN p = 1 .. Len(els) /\ Len(p) = Len(els)
        /\ \A i \in 1 .. Len(els) : tab[p[i]] = els[i]
    <3>1. Len(p) = Len(els) /\ DOMAIN p = 1 .. Len(els)
      BY <1>1, <2>1
    <3>2. \A i \in 1 .. Len(els) : p[i] = els[i].id
      BY <2>1
    <3> QED
      BY <2>2, <3>1, <3>2
  <2>4. /\ m.size # 0 /\ Len(p) = m.size /\ Len(p) \in 1 .. Len(els)
    BY <1>1, <1>3, <1>5, <2>3
  <2>5. tab[Last(p)].next = NIL
    BY <1>1, <1>3, <2>3, <2>4 DEF Last, Linking
  <2>6. \A i \in DOMAIN p : /\ tab[p[i]] # Absent
                            /\ m.ts # Never => tab[p[i]].ts <= m.ts
    BY <1>1, <1>3, <2>2, <2>3
  <2>7. [i \in DOMAIN p |-> tab[p[i]].val] = Contents(els)
    BY <1>1, <2>3 DEF Contents
  <2>8. Generated(tab, m) = Just([i \in DOMAIN p |-> tab[p[i]].val])
    BY <2>4, <2>5, <2>6, Zenon DEF Generated, p
  <2> QED
    BY <1>5, <2>7, <2>8
<1> QED
  BY <1>4, <1>5

-----------------------------------------------------------------------------
(* The writer's sends.                                                     *)

LEMMA PostFacts ==
    ASSUME Types, NEW i \in DOMAIN posts
    PROVE  /\ posts[i].described \in Descriptions /\ posts[i].behind \in Nat
           /\ posts[i].described.ts \in Nat
<1>1. posts \in Seq(Posted)
  BY DEF Types
<1>2. posts[i] \in Posted
  BY <1>1
<1>3. posts[i].described \in Descriptions /\ posts[i].behind \in Nat
  BY <1>2 DEF Posted
<1> QED
  BY <1>3, DescriptionFacts

\* The last of the samples about its element.
Final(t, i) == \A j \in DOMAIN t : t[j].id = t[i].id => j <= i

Untold(t, id) == \A i \in DOMAIN t : t[i].id # id

\* The table after samples has the final sample of an element, or what it had.
LEMMA AppliedFinal ==
    ASSUME NEW tab, NEW t \in Seq(Samples), NEW id \in Ids
    PROVE  \/ Untold(t, id) /\ Applied(tab, t)[id] = tab[id]
           \/ \E i \in DOMAIN t : /\ Final(t, i) /\ t[i].id = id
                                  /\ Applied(tab, t)[id] = t[i].el
<1>1. CASE Untold(t, id)
  BY <1>1, AppliedKeeps DEF Untold
<1>2. CASE ~ Untold(t, id)
  <2>1. PICK i \in DOMAIN t :
            t[i].id = id /\ \A j \in DOMAIN t : t[j].id = id => j <= i
    BY <1>2, LastSample DEF Untold
  <2>2. Final(t, i)
    BY <2>1 DEF Final
  <2>3. Applied(tab, t)[t[i].id] = t[i].el
    BY <2>2, AppliedLast DEF Final
  <2> QED
    BY <2>1, <2>2, <2>3
<1> QED
  BY <1>1, <1>2

\* Samples are sent, and the list becomes new: no link leads back if none does
\* of the list, of the samples that count, and of what they leave as it is.
LEMMA AheadSent ==
    ASSUME NEW els, NEW tab \in Tables, NEW f, Ahead(els, tab, f),
           NEW t \in Seq(Samples), NEW new, NEW g,
           \A i \in DOMAIN new : Forward(new[i], i, new, g),
           \A i \in DOMAIN t : Final(t, i) =>
               \/ t[i].el = Absent
               \/ \E p \in DOMAIN new : Forward(t[i].el, p, new, g),
           \A e \in Elements : \A i \in DOMAIN els :
               Forward(e, i, els, f) /\ Untold(t, e.id) =>
                   \E p \in DOMAIN new : Forward(e, p, new, g)
    PROVE  Ahead(new, Applied(tab, t), g)
<1>1. ASSUME NEW id \in Ids, Untold(t, id), Applied(tab, t)[id] = tab[id],
             tab[id] # Absent
      PROVE  \E p \in DOMAIN new : Forward(tab[id], p, new, g)
  <2>1. tab[id].id = id /\ tab[id] \in Elements
    BY <1>1 DEF Tables, Elems
  <2>2. PICK i \in DOMAIN els : Forward(tab[id], i, els, f)
    BY <1>1 DEF Ahead
  <2> QED
    BY <1>1, <2>1, <2>2
<1>2. ASSUME NEW id \in Ids
      PROVE  \/ Applied(tab, t)[id] = Absent
             \/ \E p \in DOMAIN new : Forward(Applied(tab, t)[id], p, new, g)
  BY <1>1, AppliedFinal
<1> QED
  BY <1>2 DEF Ahead

\* The list is stored if its elements are samples that count, or were stored.
LEMMA StoredSent ==
    ASSUME NEW els, NEW tab, Stored(els, tab),
           NEW t \in Seq(Samples), NEW new \in Seq(Elements),
           \A p \in DOMAIN new :
               \/ \E i \in DOMAIN t : Final(t, i) /\ t[i].el = new[p]
               \/ /\ Untold(t, new[p].id)
                  /\ \E i \in DOMAIN els : els[i] = new[p]
    PROVE  Stored(new, Applied(tab, t))
<1> SUFFICES ASSUME NEW p \in DOMAIN new
             PROVE  Applied(tab, t)[new[p].id] = new[p]
  BY DEF Stored
<1>1. new[p].id \in Ids /\ new[p] # Absent
  BY ElementFacts
<1>2. CASE Untold(t, new[p].id) /\ \E i \in DOMAIN els : els[i] = new[p]
  <2>1. Applied(tab, t)[new[p].id] = tab[new[p].id]
    BY <1>1, <1>2, AppliedKeeps DEF Untold
  <2> QED
    BY <1>2, <2>1 DEF Stored
<1>3. ASSUME NEW i \in DOMAIN t, Final(t, i), t[i].el = new[p]
      PROVE  Applied(tab, t)[new[p].id] = new[p]
  <2>1. t[i].id = new[p].id
    BY <1>1, <1>3, SampleFacts
  <2>2. Applied(tab, t)[t[i].id] = t[i].el
    BY <1>3, AppliedLast DEF Final
  <2> QED
    BY <1>3, <2>1, <2>2
<1> QED
  BY <1>2, <1>3

\* Samples of elements that are gone or newer than the metadata are sent.
LEMMA SnapshotSent ==
    ASSUME NEW tab \in Tables, NEW w \in Seq(Samples), NEW t \in Seq(Samples),
           NEW m \in Descriptions, NEW b \in 0 .. Len(w), Snapshot(tab, w, m, b),
           \A i \in DOMAIN t : t[i].el = Absent \/ t[i].el.ts > m.ts
    PROVE  Snapshot(tab, w \o t, m, b)
<1> SUFFICES ASSUME m.ts # Never
             PROVE  \E ids \in [1 .. m.size -> Ids] :
                        Chart(ids, m) /\ FitsFrom(tab, w \o t, m, ids, b)
  BY DEF Snapshot
<1>1. PICK ids \in [1 .. m.size -> Ids] :
          Chart(ids, m) /\ FitsFrom(tab, w, m, ids, b)
  BY DEF Snapshot
<1>2. \A i \in DOMAIN t : Fits(t[i].el, m, ids)
  BY DEF Fits
<1>3. FitsFrom(tab, w \o t, m, ids, b)
  BY <1>1, <1>2, FitsSent
<1> QED
  BY <1>1, <1>3

\* Of metadata read later less is to be shown.
LEMMA SnapshotLater ==
    ASSUME NEW tab, NEW w \in Seq(Samples), NEW m, NEW b \in Nat, NEW c \in Nat,
           b <= c, Snapshot(tab, w, m, b)
    PROVE  Snapshot(tab, w, m, c)
<1> SUFFICES ASSUME m.ts # Never
             PROVE  \E ids \in [1 .. m.size -> Ids] :
                        Chart(ids, m) /\ FitsFrom(tab, w, m, ids, c)
  BY DEF Snapshot
<1>1. PICK ids \in [1 .. m.size -> Ids] :
          Chart(ids, m) /\ FitsFrom(tab, w, m, ids, b)
  BY DEF Snapshot
<1>2. c .. Len(w) \subseteq b .. Len(w)
  OBVIOUS
<1>3. FitsFrom(tab, w, m, ids, c)
  BY <1>1, <1>2 DEF FitsFrom
<1> QED
  BY <1>1, <1>3

\* Metadata taken of a list the bus has no link back for.
LEMMA SnapshotTaken ==
    ASSUME NEW tab \in Tables, NEW w \in Seq(Samples), NEW els, NEW f, NEW c,
           Distinct(els, f, c), Len(els) <= MaxIds, NEW ts \in Times,
           Ahead(els, Applied(tab, w), f)
    PROVE  Snapshot(tab, w, Described(els, ts), Len(w))
<1> DEFINE m == Described(els, ts)
<1>1. PICK ids \in [1 .. m.size -> Ids] :
          /\ Chart(ids, m)
          /\ \A id \in Ids : Fits(Applied(tab, w)[id], m, ids)
  BY TakenFits
<1>2. SubSeq(w, 1, Len(w)) = w /\ \A k \in Len(w) .. Len(w) : k = Len(w)
  BY WholePrefix
<1> HIDE DEF m
<1>3. FitsFrom(tab, w, m, ids, Len(w))
  BY <1>1, <1>2 DEF FitsFrom
<1> QED
  BY <1>1, <1>3 DEF Snapshot, m

\* An operation of the writer that sent the samples t.
LEMMA WriteStep ==
    ASSUME IInv, NEW t \in Seq(Samples),
           \A i \in DOMAIN t : t[i].el = Absent \/ t[i].el.ts > clock,
           wire' = wire \o t, published' = FALSE, UNCHANGED <<posts, readerVars>>,
           events \subseteq events', events' \subseteq Disturbances,
           fresh' \in 1 .. MaxIds + 1, clock' \in Times, clock <= clock',
           Distinct(elements', fresh', clock'),
           "insert" \notin events' =>
               Ahead(elements', Applied(Applied(table, wire), t), fresh'),
           \/ metadata' = metadata
           \/ \E ts \in {Never, clock'} : metadata' = Described(elements', ts),
           events' = {} =>
               /\ Linking(elements')
               /\ Stored(elements', Applied(Applied(table, wire), t))
               /\ Describes(metadata', elements')
    PROVE  IInv'
<1>1. /\ table \in Tables /\ wire \in Seq(Samples)
      /\ wire' \in Seq(Samples) /\ Len(wire') = Len(wire) + Len(t)
      /\ Len(wire) \in Nat /\ Len(wire') \in Nat /\ Len(wire) <= Len(wire')
      /\ UNCHANGED <<table, latest, cache>>
  BY DEF IInv, Types, readerVars
<1>2. Applied(table', wire') = Applied(Applied(table, wire), t)
  BY <1>1, AppliedTwice
<1>3. /\ clock \in Nat /\ clock' \in Nat /\ MaxIds \in Nat
      /\ elements' \in Seq(Elements) /\ Len(elements') <= MaxIds
      /\ Never \in Times /\ Never = 0
  BY LargeListAssumption DEF Distinct, IInv, Types, Times, Never
<1>4. /\ metadata' \in Descriptions /\ metadata'.ts <= clock'
      /\ metadata'.ts = metadata.ts \/ metadata'.ts \in {Never, clock'}
  <2>1. CASE metadata' = metadata
    <3>1. metadata \in Descriptions /\ metadata.ts <= clock
      BY DEF IInv, Types, StampsFit
    <3> QED
      BY <1>3, <2>1, <3>1, DescriptionFacts
  <2>2. ASSUME NEW ts \in {Never, clock'}, metadata' = Described(elements', ts)
        PROVE  metadata' \in Descriptions /\ metadata'.ts = ts
    BY <1>3, <2>2, DescribedFacts
  <2> QED
    BY <1>3, <2>1, <2>2
<1>5. Types'
  BY <1>1, <1>4 DEF IInv, Types, readerVars
<1>6. StampsFit'
  <2>1. /\ latest.ts \in Nat /\ latest.ts <= clock
        /\ metadata.ts \in Nat
        /\ metadata.ts # Never => latest.ts <= metadata.ts
    BY DescriptionFacts DEF IInv, Types, StampsFit
  <2>2. latest.ts <= clock' /\ (metadata'.ts # Never => latest.ts <= metadata'.ts)
    BY <1>3, <1>4, <2>1
  <2>3. ASSUME NEW i \in DOMAIN posts
        PROVE  /\ posts[i].described.ts <= clock'
               /\ metadata'.ts # Never => posts[i].described.ts <= metadata'.ts
    <3>1. /\ posts[i].described.ts \in Nat /\ posts[i].described.ts <= clock
          /\ metadata.ts # Never => posts[i].described.ts <= metadata.ts
      BY PostFacts DEF IInv, StampsFit
    <3> QED
      BY <1>3, <1>4, <2>1, <3>1
  <2> QED
    BY <1>1, <1>4, <2>2, <2>3 DEF IInv, StampsFit
<1>7. ASSUME NEW m \in Descriptions, m.ts <= clock, NEW i \in DOMAIN t
      PROVE  t[i].el = Absent \/ t[i].el.ts > m.ts
  BY <1>3, <1>7, SampleFacts, ElemFacts, DescriptionFacts
<1>8. BusFits'
  <2>1. ASSUME NEW i \in DOMAIN posts
        PROVE  /\ posts[i].described \in Descriptions /\ posts[i].behind \in Nat
               /\ posts[i].described.ts <= clock
               /\ posts[i].behind \in 0 .. Len(wire)
    <3>1. /\ posts[i].described \in Descriptions /\ posts[i].behind \in Nat
          /\ posts[i].described.ts <= clock /\ posts[i].behind <= Len(wire)
      BY PostFacts DEF IInv, StampsFit, BusFits
    <3> QED
      BY <1>1, <3>1
  <2>2. \A i \in DOMAIN posts' : posts'[i].behind <= Len(wire')
    BY <1>1, <2>1
  <2> SUFFICES ASSUME "insert" \notin events'
               PROVE  /\ Ahead(elements', Applied(table', wire'), fresh')
                      /\ Snapshot(table', wire', metadata', Len(wire'))
                      /\ Snapshot(table', wire', latest', 0)
                      /\ \A i \in DOMAIN posts' :
                             Snapshot(table', wire', posts'[i].described,
                                      posts'[i].behind)
    BY <2>2 DEF BusFits
  <2>3. /\ Snapshot(table, wire, metadata, Len(wire))
        /\ Snapshot(table, wire, latest, 0)
        /\ \A i \in DOMAIN posts :
               Snapshot(table, wire, posts[i].described, posts[i].behind)
    BY DEF IInv, BusFits
  <2>4. Ahead(elements', Applied(table', wire'), fresh')
    BY <1>2
  <2>5. Snapshot(table', wire', latest', 0)
    <3>1. latest \in Descriptions /\ latest.ts <= clock /\ 0 \in 0 .. Len(wire)
      BY <1>1 DEF IInv, Types, StampsFit
    <3> QED
      BY <1>1, <1>7, <2>3, <3>1, SnapshotSent
  <2>6. \A i \in DOMAIN posts' :
            Snapshot(table', wire', posts'[i].described, posts'[i].behind)
    BY <1>1, <1>7, <2>1, <2>3, SnapshotSent
  <2>7. Snapshot(table', wire', metadata', Len(wire'))
    <3>1. CASE metadata' = metadata
      <4>1. metadata \in Descriptions /\ metadata.ts <= clock
            /\ Len(wire) \in 0 .. Len(wire)
        BY <1>1 DEF IInv, Types, StampsFit
      <4>2. Snapshot(table', wire', metadata, Len(wire))
        BY <1>1, <1>7, <2>3, <4>1, SnapshotSent
      <4> QED
        BY <1>1, <3>1, <4>2, SnapshotLater
    <3>2. ASSUME NEW ts \in {Never, clock'}, metadata' = Described(elements', ts)
          PROVE  Snapshot(table', wire', metadata', Len(wire'))
      <4>1. ts \in Times
        BY <1>3
      <4> QED
        BY <1>1, <1>3, <2>4, <3>2, <4>1, SnapshotTaken
    <3> QED
      BY <3>1, <3>2
  <2> QED
    BY <2>4, <2>5, <2>6, <2>7
<1>9. Undisturbed'
  BY <1>2 DEF Undisturbed
<1>10. SnapshotRead'
  BY <1>1 DEF IInv, SnapshotRead
<1>11. Current'
  BY DEF Current
<1> QED
  BY <1>5, <1>6, <1>8, <1>9, <1>10, <1>11 DEF IInv

-----------------------------------------------------------------------------
(* Operations that remove or replace elements.                             *)

LEMMA Before ==
    ASSUME IInv
    PROVE  /\ elements \in Seq(Elements) /\ DOMAIN elements = 1 .. Len(elements)
           /\ Len(elements) \in Nat /\ Len(elements) < fresh
           /\ fresh \in Nat /\ fresh >= 1 /\ fresh <= MaxIds + 1 /\ MaxIds \in Nat
           /\ clock \in Nat /\ clock \in Times /\ MaxTime \in Nat
           /\ Applied(table, wire) \in Tables
           /\ "insert" \notin events =>
                  Ahead(elements, Applied(table, wire), fresh)
           /\ events = {} => Linking(elements) /\ Stored(elements, Applied(table, wire))
                             /\ Describes(metadata, elements)
<1>1. elements \in Seq(Elements) /\ Len(elements) < fresh
  BY DEF IInv, Distinct
<1>2. /\ fresh \in Nat /\ fresh >= 1 /\ fresh <= MaxIds + 1 /\ MaxIds \in Nat
      /\ clock \in Nat /\ clock \in Times /\ MaxTime \in Nat
  BY LargeListAssumption DEF IInv, Types, Times
<1>3. Applied(table, wire) \in Tables
  BY AppliedType DEF IInv, Types
<1> QED
  BY <1>1, <1>2, <1>3 DEF IInv, BusFits, Undisturbed

LEMMA SendsFacts ==
    ASSUME IInv, NEW op \in AllOps, NEW t, NEW ok \in BOOLEAN, Sends(op, t, ok)
    PROVE  /\ wire' = wire \o t /\ published' = FALSE
           /\ UNCHANGED <<posts, readerVars>>
           /\ events \subseteq events' /\ events' \subseteq Disturbances
           /\ "insert" \notin events' => "insert" \notin events /\ op # "insert"
           /\ events' = {} => events = {} /\ ok /\ op \notin Disturbances
<1>1. events \subseteq Disturbances
  BY DEF IInv, Types
<1> QED
  BY <1>1 DEF Sends, Disturbances

LEMMA AllocatesFacts ==
    ASSUME IInv, NEW n \in Nat, NEW ticks \in Nat, Allocates(n, ticks)
    PROVE  /\ fresh' = fresh + n /\ clock' = clock + ticks
           /\ fresh' \in 1 .. MaxIds + 1 /\ clock' \in Times /\ clock <= clock'
           /\ fresh' \in Nat /\ clock' \in Nat
<1>1. /\ fresh + n <= MaxIds + 1 /\ fresh' = fresh + n
      /\ clock + ticks <= MaxTime /\ clock' = clock + ticks
  BY DEF Allocates
<1> QED
  BY <1>1, Before DEF Times

LEMMA ThroughFacts ==
    ASSUME NEW n \in Nat, NEW k \in Through(n)
    PROVE  k \in 0 .. n
  BY DEF Through

LEMMA SampleOf ==
    ASSUME NEW e \in Elements
    PROVE  /\ Live(e) \in Samples /\ Live(e).id = e.id /\ Live(e).el = e
           /\ Gone(e) \in Samples /\ Gone(e).id = e.id /\ Gone(e).el = Absent
<1>1. e.id \in Ids /\ e \in Elems /\ Absent \in Elems
  BY DEF Elements, Elems
<1> QED
  BY <1>1 DEF Live, Gone, Samples

LEMMA LinkedFacts ==
    ASSUME NEW els \in Seq(Elements), NEW i \in DOMAIN els,
           NEW id \in Ids \cup {NIL}, NEW ts \in Times,
           NEW new, new = Linked(els, i, id, ts)
    PROVE  /\ new \in Seq(Elements) /\ Len(new) = Len(els)
           /\ DOMAIN new = DOMAIN els
           /\ new[i].next = id /\ new[i].ts = ts
           /\ \A j \in DOMAIN els :
                  /\ new[j].id = els[j].id /\ new[j].val = els[j].val
                  /\ j # i => new[j] = els[j]
<1> DEFINE e == [els[i] EXCEPT !.next = id, !.ts = ts]
<1>1. els[i] \in Elements
  OBVIOUS
<1>2. /\ e \in Elements /\ e.next = id /\ e.ts = ts
      /\ e.id = els[i].id /\ e.val = els[i].val
  BY <1>1 DEF Elements
<1> HIDE DEF e
<1>3. new = [els EXCEPT ![i] = e]
  BY DEF Linked, e
<1> QED
  BY <1>2, <1>3

\* A list with the ids of another.
LEMMA SameIds ==
    ASSUME NEW els, NEW new, NEW f \in Nat, NEW g \in Nat, f <= g,
           NEW c, NEW d, Distinct(els, f, c),
           new \in Seq(Elements), Len(new) = Len(els),
           \A i \in DOMAIN els : /\ new[i].id = els[i].id
                                 /\ new[i].next < g /\ new[i].ts <= d
    PROVE  /\ Distinct(new, g, d)
           /\ \A e, i : i \in DOMAIN els /\ Forward(e, i, els, f)
                            /\ e.next \in Nat /\ new[i].val = els[i].val
                        => Forward(e, i, new, g)
<1>1. /\ els \in Seq(Elements) /\ DOMAIN els = DOMAIN new /\ Len(els) < f
      /\ DOMAIN els = 1 .. Len(els) /\ Len(els) \in Nat
      /\ \A i, j \in DOMAIN els : els[i].id = els[j].id => i = j
      /\ \A i \in DOMAIN els : els[i].id < f /\ els[i].id \in Nat
  BY ElementFacts DEF Distinct
<1>2. Distinct(new, g, d)
  <2>1. \A i \in DOMAIN new : new[i].id < g
    BY <1>1
  <2> QED
    BY <1>1, <2>1 DEF Distinct
<1>3. ASSUME NEW e, NEW i \in DOMAIN els, Forward(e, i, els, f), e.next \in Nat,
             new[i].val = els[i].val
      PROVE  Forward(e, i, new, g)
  <2>1. \A j \in 1 .. i : j \in DOMAIN els
    BY <1>1
  <2>2. e.next < f /\ e.next < g
    BY <1>3 DEF Forward
  <2> QED
    BY <1>1, <1>3, <2>1, <2>2 DEF Forward
<1> QED
  BY <1>2, <1>3

LEMMA UpdateStep ==
    ASSUME IInv, NEW v \in Values, NEW pos \in DOMAIN elements, Update(v, pos)
    PROVE  IInv'
<1> DEFINE e == [elements[pos] EXCEPT !.val = v, !.ts = clock']
           t == <<Live(e)>>
           W == Applied(table, wire)
<1>1. /\ elements' = [elements EXCEPT ![pos] = e]
      /\ metadata' = Described(elements', e.ts)
      /\ Allocates(0, 1) /\ Sends("update", t, TRUE)
  BY DEF Update
<1>2. /\ fresh' = fresh /\ clock' = clock + 1 /\ fresh' \in 1 .. MaxIds + 1
      /\ clock' \in Times /\ clock <= clock' /\ clock' \in Nat /\ clock < clock'
  <2>1. /\ fresh' = fresh + 0 /\ clock' = clock + 1 /\ fresh' \in 1 .. MaxIds + 1
        /\ clock' \in Times /\ clock' \in Nat
    BY <1>1, 0 \in Nat, 1 \in Nat, AllocatesFacts
  <2>2. fresh \in Nat /\ clock \in Nat
    BY Before
  <2> QED
    BY <2>1, <2>2
<1>3. elements[pos] \in Elements
  BY Before
<1>4. /\ e \in Elements /\ e.val = v /\ e.ts = clock'
      /\ e.id = elements[pos].id /\ e.next = elements[pos].next
  BY <1>2, <1>3 DEF Elements
<1> HIDE DEF e
<1>5. /\ elements' \in Seq(Elements) /\ Len(elements') = Len(elements)
      /\ DOMAIN elements' = DOMAIN elements /\ elements'[pos] = e
      /\ \A i \in DOMAIN elements : i # pos => elements'[i] = elements[i]
      /\ \A i \in DOMAIN elements : /\ elements'[i].id = elements[i].id
                                    /\ elements'[i].next = elements[i].next
  BY <1>1, <1>4, Before
<1>6. t \in Seq(Samples) /\ DOMAIN t = {1} /\ t[1].id = e.id /\ t[1].el = e
  BY <1>4, SampleOf
<1> HIDE DEF t
<1>7. /\ wire' = wire \o t /\ published' = FALSE
      /\ UNCHANGED <<posts, readerVars>>
      /\ events \subseteq events' /\ events' \subseteq Disturbances
      /\ "insert" \notin events' => "insert" \notin events
      /\ events' = {} => events = {}
  BY <1>1, SendsFacts DEF AllOps
<1>8. Distinct(elements, fresh, clock)
  BY DEF IInv
<1>9. \A i \in DOMAIN elements' : elements'[i].ts <= clock'
  <2> SUFFICES ASSUME NEW i \in DOMAIN elements, i # pos
               PROVE  elements[i].ts <= clock'
    BY <1>2, <1>4, <1>5
  <2> QED
    BY SMTT(30), <1>2, <1>8, Before, ElementFacts DEF Distinct
<1>10. /\ Distinct(elements', fresh', clock')
       /\ \A x, i : i \in DOMAIN elements /\ Forward(x, i, elements, fresh)
                        /\ x.next \in Nat /\ elements'[i].val = elements[i].val
                    => Forward(x, i, elements', fresh')
  <2>1. \A i \in DOMAIN elements : /\ elements'[i].id = elements[i].id
                                    /\ elements'[i].next < fresh'
                                    /\ elements'[i].ts <= clock'
    BY <1>2, <1>5, <1>8, <1>9 DEF Distinct
  <2>2. fresh \in Nat /\ fresh' \in Nat /\ fresh <= fresh'
    BY <1>2, Before
  <2> QED
    BY <1>5, <1>8, <2>1, <2>2, SameIds
<1>11. ASSUME "insert" \notin events' PROVE Ahead(elements', Applied(W, t), fresh')
  <2>1. Ahead(elements, W, fresh) /\ W \in Tables
    BY <1>7, <1>11, Before
  <2>2. ASSUME NEW i \in DOMAIN elements' PROVE Forward(elements'[i], i, elements', fresh')
    <3>1. Forward(elements[i], i, elements, fresh) /\ i \in DOMAIN elements
      BY <1>5, <2>1 DEF Ahead
    <3>2. \A j \in 1 .. i : j \in DOMAIN elements
      BY <1>5, Before
    <3> QED
      BY <1>2, <1>5, <3>1, <3>2 DEF Forward
  <2>3. ASSUME NEW x \in Elements, NEW i \in DOMAIN elements,
               Forward(x, i, elements, fresh), Untold(t, x.id)
        PROVE  Forward(x, i, elements', fresh')
    <3>1. i # pos
      BY <1>4, <1>6, <2>3 DEF Untold, Forward
    <3>2. x.next \in Nat
      BY ElemFacts DEF Elems, Elements, Ids, NIL
    <3> QED
      BY <1>5, <1>10, <2>3, <3>1, <3>2
  <2>4. \A i \in DOMAIN t : \E p \in DOMAIN elements' :
            Forward(t[i].el, p, elements', fresh')
    BY <1>5, <1>6, <2>2
  <2> HIDE DEF W
  <2> QED
    BY <1>5, <1>6, <2>1, <2>2, <2>3, <2>4, AheadSent
<1>12. ASSUME events' = {}
       PROVE  /\ Linking(elements') /\ Stored(elements', Applied(W, t))
              /\ Describes(metadata', elements')
  <2>1. Linking(elements) /\ Stored(elements, W)
    BY <1>7, <1>12, Before
  <2>2. Linking(elements')
    <3>1. \A i \in DOMAIN elements : i # Len(elements) => i + 1 \in DOMAIN elements
      BY Before
    <3> QED
      BY <1>5, <2>1, <3>1 DEF Linking
  <2>3. ASSUME NEW p \in DOMAIN elements'
        PROVE  \/ \E i \in DOMAIN t : Final(t, i) /\ t[i].el = elements'[p]
               \/ /\ Untold(t, elements'[p].id)
                  /\ \E i \in DOMAIN elements : elements[i] = elements'[p]
    <3>1. CASE p = pos
      <4>1. 1 \in DOMAIN t /\ Final(t, 1) /\ t[1].el = elements'[p]
        BY <1>5, <1>6, <3>1 DEF Final
      <4> QED
        BY <4>1
    <3>2. CASE p # pos
      <4>1. elements'[p] = elements[p] /\ p \in DOMAIN elements
        BY <1>5, <3>2
      <4>2. elements[p].id # elements[pos].id
        BY <1>8, <3>2, <4>1 DEF Distinct
      <4>3. Untold(t, elements'[p].id)
        BY <1>4, <1>6, <4>1, <4>2 DEF Untold
      <4> QED
        BY <4>1, <4>3
    <3> QED
      BY <3>1, <3>2
  <2>4. Stored(elements', Applied(W, t))
    <3> HIDE DEF W
    <3> QED
      BY <1>5, <1>6, <2>1, <2>3, StoredSent
  <2>5. Describes(metadata', elements')
    BY <1>1, <1>4, <1>9 DEF Describes, Described
  <2> QED
    BY <2>2, <2>4, <2>5
<1>13. /\ \A i \in DOMAIN t : t[i].el = Absent \/ t[i].el.ts > clock
       /\ metadata' = Described(elements', clock')
  BY <1>1, <1>2, <1>4, <1>6, Before
<1> QED
  BY <1>2, <1>6, <1>7, <1>10, <1>11, <1>12, <1>13, WriteStep

LEMMA RestOf ==
    ASSUME NEW S, NEW s \in Seq(S), NEW n \in 1 .. Len(s)
    PROVE  LET z == SubSeq(s, n + 1, Len(s))
           IN  /\ z \in Seq(S) /\ Len(z) = Len(s) - n
               /\ DOMAIN z = 1 .. Len(s) - n
               /\ \A i \in 1 .. Len(s) - n : z[i] = s[n + i]
<1> DEFINE z == SubSeq(s, n + 1, Len(s))
<1>1. z \in Seq(S) /\ Len(z) = Len(s) - n /\ DOMAIN z = 1 .. Len(s) - n
  OBVIOUS
<1>2. ASSUME NEW i \in 1 .. Len(s) - n PROVE z[i] = s[n + i]
  <2>1. z[i] = s[(n + 1) + i - 1]
    OBVIOUS
  <2>2. (n + 1) + i - 1 = n + i
    OBVIOUS
  <2> QED
    BY <2>1, <2>2
<1> QED
  BY <1>1, <1>2

LEMMA InnerStep ==
    ASSUME NEW l \in Nat, NEW n \in Nat, NEW i \in 1 .. l - n, i # l - n
    PROVE  i + 1 \in 1 .. l - n /\ n + i # l /\ (n + i) + 1 = n + (i + 1)
  OBVIOUS

LEMMA PopFrontsStep ==
    ASSUME IInv, NEW n \in 1 .. Len(elements), NEW ok \in BOOLEAN, PopFronts(n, ok)
    PROVE  IInv'
<1> DEFINE t == [i \in 1 .. n |-> Gone(elements[i])]
           W == Applied(table, wire)
<1>1. /\ elements' = SubSeq(elements, n + 1, Len(elements))
      /\ metadata' = Described(elements', Never)
      /\ Sends("popFront", t, ok) /\ UNCHANGED <<fresh, clock>>
  BY DEF PopFronts
<1>2. /\ elements \in Seq(Elements) /\ Len(elements) \in Nat /\ n \in Nat
      /\ DOMAIN elements = 1 .. Len(elements)
  BY Before
<1>3. /\ elements' \in Seq(Elements) /\ Len(elements') = Len(elements) - n
      /\ DOMAIN elements' = 1 .. Len(elements) - n
      /\ \A i \in 1 .. Len(elements) - n : elements'[i] = elements[n + i]
  BY <1>1, <1>2, RestOf
<1>4. /\ t \in Seq(Samples) /\ DOMAIN t = 1 .. n
      /\ \A i \in 1 .. n : t[i].id = elements[i].id /\ t[i].el = Absent
  <2>1. ASSUME NEW i \in 1 .. n
        PROVE  Gone(elements[i]) \in Samples /\ Gone(elements[i]).id = elements[i].id
               /\ Gone(elements[i]).el = Absent
    <3>1. elements[i] \in Elements
      BY <1>2
    <3> QED
      BY <3>1, SampleOf
  <2> QED
    BY <2>1
<1> HIDE DEF t
<1>5. /\ wire' = wire \o t /\ published' = FALSE
      /\ UNCHANGED <<posts, readerVars>>
      /\ events \subseteq events' /\ events' \subseteq Disturbances
      /\ "insert" \notin events' => "insert" \notin events
      /\ events' = {} => events = {}
  BY <1>1, SendsFacts DEF AllOps
<1>6. /\ \A i \in 1 .. Len(elements) :
             /\ elements[i].id < fresh /\ elements[i].next < fresh
             /\ elements[i].ts <= clock
      /\ \A i, j \in 1 .. Len(elements) : elements[i].id = elements[j].id => i = j
      /\ Len(elements) < fresh
  BY <1>2 DEF IInv, Distinct
<1>7. \A i \in 1 .. Len(elements) - n : n + i \in 1 .. Len(elements)
  BY <1>2
<1>8. Distinct(elements', fresh', clock')
  <2>1. ASSUME NEW i \in DOMAIN elements', NEW j \in DOMAIN elements',
               elements'[i].id = elements'[j].id
        PROVE  i = j
    <3>1. n + i = n + j
      BY <1>3, <1>6, <1>7, <2>1
    <3> QED
      BY <1>2, <1>3, <3>1
  <2>2. Len(elements') < fresh
    BY <1>2, <1>3, <1>6, Before
  <2> QED
    BY <1>1, <1>3, <1>6, <1>7, <2>1, <2>2 DEF Distinct
<1>9. ASSUME NEW e, NEW i \in 1 .. Len(elements) - n,
             Forward(e, n + i, elements, fresh)
      PROVE  Forward(e, i, elements', fresh')
  <2>1. \A j \in 1 .. i : n + j \in 1 .. n + i /\ j \in 1 .. Len(elements) - n
    BY <1>2
  <2> QED
    BY <1>1, <1>3, <1>9, <2>1 DEF Forward
<1>10. ASSUME "insert" \notin events' PROVE Ahead(elements', Applied(W, t), fresh')
  <2>1. Ahead(elements, W, fresh) /\ W \in Tables
    BY <1>5, <1>10, Before
  <2>2. \A i \in DOMAIN elements' : Forward(elements'[i], i, elements', fresh')
    BY <1>2, <1>3, <1>7, <1>9, <2>1 DEF Ahead
  <2>3. ASSUME NEW e \in Elements, NEW i \in DOMAIN elements,
               Forward(e, i, elements, fresh), Untold(t, e.id)
        PROVE  \E p \in DOMAIN elements' : Forward(e, p, elements', fresh')
    <3>1. i \notin 1 .. n
      BY <1>4, <2>3 DEF Untold, Forward
    <3>2. i - n \in 1 .. Len(elements) - n /\ n + (i - n) = i
      BY <1>2, <3>1
    <3> QED
      BY <1>3, <1>9, <2>3, <3>2
  <2> HIDE DEF W
  <2> QED
    BY <1>4, <2>1, <2>2, <2>3, AheadSent
<1>11. ASSUME events' = {}
       PROVE  /\ Linking(elements') /\ Stored(elements', Applied(W, t))
              /\ Describes(metadata', elements')
  <2>1. Linking(elements) /\ Stored(elements, W)
    BY <1>5, <1>11, Before
  <2>2. Linking(elements')
    <3> SUFFICES ASSUME NEW i \in 1 .. Len(elements) - n
                 PROVE  elements'[i].next = IF i = Len(elements) - n THEN NIL
                                            ELSE elements'[i + 1].id
      BY <1>3 DEF Linking
    <3>1. elements[n + i].next = IF n + i = Len(elements) THEN NIL
                                 ELSE elements[(n + i) + 1].id
      BY <1>2, <1>7, <2>1 DEF Linking
    <3>2. CASE i = Len(elements) - n
      BY <1>2, <1>3, <3>1, <3>2
    <3>3. CASE i # Len(elements) - n
      <4>1. i + 1 \in 1 .. Len(elements) - n /\ n + i # Len(elements)
            /\ (n + i) + 1 = n + (i + 1)
        BY ZenonT(60), <1>2, <3>3, InnerStep
      <4> QED
        BY <1>3, <3>1, <3>3, <4>1
    <3> QED
      BY <3>2, <3>3
  <2>3. ASSUME NEW p \in DOMAIN elements'
        PROVE  /\ Untold(t, elements'[p].id)
               /\ \E i \in DOMAIN elements : elements[i] = elements'[p]
    <3>1. n + p \in 1 .. Len(elements) /\ elements'[p] = elements[n + p]
      BY <1>3, <1>7
    <3>2. \A i \in 1 .. n : i \in 1 .. Len(elements) /\ i # n + p
      BY <1>2, <1>3
    <3>3. Untold(t, elements'[p].id)
      BY <1>4, <1>6, <3>1, <3>2 DEF Untold
    <3> QED
      BY <1>2, <3>1, <3>3
  <2>4. Stored(elements', Applied(W, t))
    <3> HIDE DEF W
    <3> QED
      BY <1>3, <1>4, <2>1, <2>3, StoredSent
  <2>5. Describes(metadata', elements')
    BY <1>1 DEF Describes, Described
  <2> QED
    BY <2>2, <2>4, <2>5
<1>12. /\ fresh' \in 1 .. MaxIds + 1 /\ clock' \in Times /\ clock <= clock'
       /\ \A i \in DOMAIN t : t[i].el = Absent \/ t[i].el.ts > clock
  BY <1>1, <1>4, Before
<1> QED
  BY <1>1, <1>4, <1>5, <1>8, <1>10, <1>11, <1>12, WriteStep

LEMMA PopFrontStep ==
    ASSUME IInv, PopFront
    PROVE  IInv'
<1>1. elements # <<>> /\ PopFronts(1, TRUE)
  BY DEF PopFront
<1>2. 1 \in 1 .. Len(elements)
  BY <1>1, Before
<1> QED
  BY <1>1, <1>2, PopFrontsStep

LEMMA ClearStep ==
    ASSUME IInv, Clear
    PROVE  IInv'
<1>1. PICK k \in Through(Len(elements)) \ {0} : PopFronts(k, k = Len(elements))
  BY DEF Clear
<1>2. k \in 1 .. Len(elements)
  BY <1>1, Before, ThroughFacts
<1>3. (k = Len(elements)) \in BOOLEAN
  OBVIOUS
<1> QED
  BY <1>1, <1>2, <1>3, PopFrontsStep

LEMMA PopBackStep ==
    ASSUME IInv, PopBack
    PROVE  IInv'
<1> DEFINE n     == Len(elements)
           reset == IF n > 1 THEN 1 ELSE 0
           old   == IF reset = 0 THEN elements
                    ELSE Linked(elements, n, NIL, clock + 1)
           live  == [i \in 1 .. reset |-> Live(Last(old))] \o <<Gone(Last(old))>>
           W     == Applied(table, wire)
<1>1. PICK k \in Through(reset + 1) :
          /\ Allocates(0, reset)
          /\ IF k = reset + 1
             THEN /\ elements' = Front(old)
                  /\ metadata' = Described(elements', Never)
             ELSE /\ elements' = IF k = reset THEN old ELSE elements
                  /\ UNCHANGED metadata
          /\ Sends("popBack", SubSeq(live, 1, k), k = reset + 1)
  BY DEF PopBack
<1> DEFINE t == SubSeq(live, 1, k)
<1>2. /\ elements \in Seq(Elements) /\ n \in Nat /\ n > 0
      /\ DOMAIN elements = 1 .. n /\ n \in DOMAIN elements
      /\ reset \in {0, 1} /\ reset \in Nat
  BY Before DEF PopBack
<1> HIDE DEF n, reset
<1>3. k \in 0 .. reset + 1
  BY <1>2, ThroughFacts
<1>0. old = IF reset = 0 THEN elements ELSE Linked(elements, n, NIL, clock + 1)
  OBVIOUS
<1> HIDE DEF old
<1>4. /\ fresh' = fresh /\ clock' = clock + reset /\ fresh' \in 1 .. MaxIds + 1
      /\ clock' \in Times /\ clock <= clock' /\ fresh \in Nat /\ clock \in Nat
  <2>1. /\ fresh' = fresh + 0 /\ clock' = clock + reset
        /\ fresh' \in 1 .. MaxIds + 1 /\ clock' \in Times /\ clock <= clock'
    BY <1>1, <1>2, 0 \in Nat, AllocatesFacts
  <2>2. fresh \in Nat /\ clock \in Nat
    BY Before
  <2> QED
    BY <2>1, <2>2
<1>5. /\ old \in Seq(Elements) /\ Len(old) = n /\ DOMAIN old = 1 .. n
      /\ \A i \in 1 .. n : old[i].id = elements[i].id /\ old[i].val = elements[i].val
      /\ \A i \in 1 .. n : i # n => old[i] = elements[i]
      /\ reset = 0 => old = elements
      /\ reset = 1 => old[n].next = NIL /\ old[n].ts = clock + 1
  <2>1. CASE reset = 0
    <3>1. old = elements /\ reset # 1 /\ Len(elements) = n
      BY <1>0, <2>1 DEF n
    <3> QED
      BY <1>2, <3>1
  <2>2. CASE reset = 1
    <3>1. clock + 1 \in Times /\ NIL \in Ids \cup {NIL}
      BY <1>4, <2>2
    <3>2. old = Linked(elements, n, NIL, clock + 1) /\ reset # 0
          /\ Len(elements) = n
      BY <1>0, <2>2 DEF n
    <3>0. PICK d \in Times : d = clock + 1
      BY <3>1
    <3>3. /\ old \in Seq(Elements) /\ Len(old) = Len(elements)
          /\ DOMAIN old = DOMAIN elements
          /\ old[n].next = NIL /\ old[n].ts = d
          /\ \A j \in DOMAIN elements :
                 /\ old[j].id = elements[j].id /\ old[j].val = elements[j].val
                 /\ j # n => old[j] = elements[j]
      <4>1. old = Linked(elements, n, NIL, d)
        BY <3>0, <3>2
      <4>2. elements \in Seq(Elements) /\ n \in DOMAIN elements
            /\ NIL \in Ids \cup {NIL}
        BY <1>2
      <4> QED
        BY <4>1, <4>2, LinkedFacts
    <3> QED
      BY <1>2, <3>0, <3>2, <3>3
  <2> QED
    BY <1>2, <2>1, <2>2
<1>6. Last(old) = old[n] /\ old[n] \in Elements
  BY <1>2, <1>5 DEF Last
<1>7. /\ live \in Seq(Samples) /\ Len(live) = reset + 1
      /\ live[reset + 1] = Gone(old[n]) /\ (reset = 1 => live[1] = Live(old[n]))
  <2>1. Live(old[n]) \in Samples /\ Gone(old[n]) \in Samples
    BY <1>6, SampleOf
  <2>2. CASE reset = 0
    BY <1>6, <2>1, <2>2
  <2>3. CASE reset = 1
    BY <1>6, <2>1, <2>3
  <2> QED
    BY <1>2, <2>2, <2>3
<1> HIDE DEF live
<1>8. /\ t \in Seq(Samples) /\ DOMAIN t = 1 .. k
      /\ \A i \in 1 .. k : t[i] = live[i]
  BY <1>2, <1>3, <1>7
<1>9. /\ \A i \in 1 .. k : t[i].id = elements[n].id
      /\ \A i \in 1 .. k : i = reset + 1 => t[i].el = Absent
      /\ \A i \in 1 .. k : i # reset + 1 =>
             reset = 1 /\ t[i].el = old[n] /\ t[i].el.ts > clock
  <2>1. /\ Live(old[n]).el = old[n] /\ Live(old[n]).id = elements[n].id
        /\ Gone(old[n]).el = Absent /\ Gone(old[n]).id = elements[n].id
    BY <1>2, <1>5, <1>6, SampleOf
  <2>2. ASSUME NEW i \in 1 .. k, i # reset + 1
        PROVE  i = 1 /\ reset = 1 /\ old[n].ts > clock
    <3>1. i = 1 /\ reset = 1
      BY <1>2, <1>3, <2>2
    <3> QED
      BY <1>4, <1>5, <3>1
  <2> QED
    BY <1>2, <1>7, <1>8, <2>1, <2>2
<1> HIDE DEF t
<1>10. /\ wire' = wire \o t /\ published' = FALSE
       /\ UNCHANGED <<posts, readerVars>>
       /\ events \subseteq events' /\ events' \subseteq Disturbances
       /\ "insert" \notin events' => "insert" \notin events
       /\ events' # {}
  <2>1. Sends("popBack", t, k = reset + 1) /\ (k = reset + 1) \in BOOLEAN
    BY <1>1 DEF t
  <2>2. "popBack" \in AllOps /\ "popBack" \in Disturbances
    BY DEF AllOps, Disturbances
  <2> QED
    BY <2>1, <2>2, SendsFacts
<1>11. /\ Distinct(elements, fresh, clock)
       /\ \A i \in 1 .. n : /\ elements[i].id < fresh /\ elements[i].next < fresh
                            /\ elements[i].ts <= clock /\ elements[i].ts \in Nat
                            /\ elements[i].next \in Nat /\ elements[i].id \in Nat
                            /\ elements[i].id # NIL
       /\ \A i, j \in 1 .. n : elements[i].id = elements[j].id => i = j
       /\ n < fresh
  <2>1. Distinct(elements, fresh, clock)
    BY DEF IInv
  <2> QED
    BY <1>2, <2>1, ElementFacts DEF Distinct, n
<1>12. \A i \in 1 .. n : old[i].next < fresh' /\ old[i].ts <= clock'
  <2> SUFFICES ASSUME NEW i \in 1 .. n
               PROVE  old[i].next < fresh' /\ old[i].ts <= clock'
    OBVIOUS
  <2>1. CASE old[i] = elements[i]
    BY <1>2, <1>4, <1>11, <2>1
  <2>2. CASE old[i] # elements[i]
    <3>1. i = n /\ reset = 1
      BY <1>2, <1>5, <2>2
    <3>2. NIL < fresh
      BY <1>2, <1>4, <1>11 DEF NIL
    <3> QED
      BY <1>4, <1>5, <3>1, <3>2
  <2> QED
    BY <2>1, <2>2
<1>13. /\ Distinct(old, fresh', clock')
       /\ \A e, i : i \in 1 .. n /\ Forward(e, i, elements, fresh) /\ e.next \in Nat
                    => Forward(e, i, old, fresh')
  <2>1. fresh' \in Nat /\ fresh <= fresh'
    BY <1>4
  <2>2. Len(old) = Len(elements)
    BY <1>5 DEF n
  <2> QED
    BY <1>2, <1>4, <1>5, <1>11, <1>12, <2>1, <2>2, SameIds
<1>14. /\ elements' \in Seq(Elements)
       /\ Len(elements') = IF k = reset + 1 THEN n - 1 ELSE n
       /\ DOMAIN elements' = 1 .. Len(elements')
       /\ \A i \in DOMAIN elements' :
              elements'[i] = old[i] \/ elements'[i] = elements[i]
  <2>1. CASE k = reset + 1
    <3>1. elements' = SubSeq(old, 1, n - 1)
      BY <1>1, <1>5, <2>1 DEF Front
    <3> QED
      BY <1>2, <1>5, <2>1, <3>1
  <2>2. CASE k # reset + 1
    <3>1. elements' = old \/ elements' = elements
      BY <1>1, <2>2
    <3>2. Len(elements) = n
      BY DEF n
    <3> QED
      BY <1>2, <1>5, <2>2, <3>1, <3>2
  <2> QED
    BY <2>1, <2>2
<1>15. Len(elements') \in Nat /\ Len(elements') <= n
  BY <1>2, <1>14
<1>16. \A i \in DOMAIN elements' :
           /\ i \in 1 .. n /\ elements'[i].id = elements[i].id
           /\ elements'[i].val = elements[i].val
           /\ elements'[i].next < fresh' /\ elements'[i].ts <= clock'
  <2> SUFFICES ASSUME NEW i \in DOMAIN elements'
               PROVE  /\ i \in 1 .. n /\ elements'[i].id = elements[i].id
                      /\ elements'[i].val = elements[i].val
                      /\ elements'[i].next < fresh' /\ elements'[i].ts <= clock'
    OBVIOUS
  <2>1. i \in 1 .. n
    BY <1>2, <1>14, <1>15
  <2>2. elements[i].next < fresh' /\ elements[i].ts <= clock'
    BY <1>4, <1>11, <2>1
  <2> QED
    BY <1>5, <1>12, <1>14, <2>1, <2>2
<1>17. Distinct(elements', fresh', clock')
  <2>1. \A i \in DOMAIN elements' : elements'[i].id < fresh'
    BY <1>4, <1>11, <1>16
  <2>2. \A i, j \in DOMAIN elements' : elements'[i].id = elements'[j].id => i = j
    BY <1>11, <1>16
  <2>3. Len(elements') < fresh'
    BY <1>2, <1>4, <1>11, <1>15
  <2> QED
    BY <1>14, <1>16, <2>1, <2>2, <2>3 DEF Distinct
<1>18. ASSUME "insert" \notin events' PROVE Ahead(elements', Applied(W, t), fresh')
  <2>1. Ahead(elements, W, fresh) /\ W \in Tables
    BY <1>10, <1>18, Before
  <2>2. ASSUME NEW e, NEW i \in DOMAIN elements', Forward(e, i, elements, fresh)
        PROVE  Forward(e, i, elements', fresh')
    <3>1. \A j \in 1 .. i : j \in DOMAIN elements'
      BY <1>14, <1>15
    <3> QED
      BY <1>4, <1>16, <2>2, <3>1 DEF Forward
  <2>3. ASSUME NEW i \in DOMAIN elements', reset = 1, i = n
        PROVE  Forward(old[n], i, elements', fresh')
    <3>1. \A j \in 1 .. i : j \in DOMAIN elements' /\ j \in 1 .. n
      BY <1>2, <1>14, <1>15
    <3>2. \A j \in 1 .. i : NIL # elements'[j].id
      BY <1>11, <1>16, <3>1
    <3>3. old[n].next < fresh'
      BY <1>2, <1>12
    <3> QED
      BY <1>2, <1>5, <1>16, <2>3, <3>2, <3>3 DEF Forward
  <2>4. ASSUME NEW i \in DOMAIN elements' PROVE Forward(elements'[i], i, elements', fresh')
    <3>1. Forward(elements[i], i, elements, fresh) /\ i \in 1 .. n
      BY <1>2, <1>16, <2>1 DEF Ahead
    <3>2. CASE elements'[i] = elements[i]
      BY <2>2, <3>1, <3>2
    <3>3. CASE elements'[i] # elements[i]
      <4>1. elements'[i] = old[i] /\ i = n /\ reset = 1
        BY <1>2, <1>5, <1>14, <3>1, <3>3
      <4> QED
        BY <2>3, <4>1
    <3> QED
      BY <3>2, <3>3
  <2>5. ASSUME NEW i \in DOMAIN t, Final(t, i), t[i].el # Absent
        PROVE  \E p \in DOMAIN elements' : Forward(t[i].el, p, elements', fresh')
    <3>1. i \in 1 .. k /\ i # reset + 1 /\ reset = 1 /\ t[i].el = old[n]
      BY <1>8, <1>9, <2>5 DEF t
    <3>2. k # reset + 1
      <4> SUFFICES ASSUME k = reset + 1 PROVE FALSE
        OBVIOUS
      <4>1. k \in DOMAIN t /\ t[k].id = t[i].id /\ ~ (k <= i)
        BY <1>2, <1>8, <1>9, <3>1 DEF t
      <4> QED
        BY <2>5, <4>1 DEF Final
    <3>3. n \in DOMAIN elements'
      BY <1>2, <1>14, <3>2
    <3> QED
      BY <2>3, <3>1, <3>3
  <2>6. ASSUME NEW e \in Elements, NEW i \in DOMAIN elements,
               Forward(e, i, elements, fresh), Untold(t, e.id)
        PROVE  \E p \in DOMAIN elements' : Forward(e, p, elements', fresh')
    <3>1. i \in DOMAIN elements'
      <4>1. CASE k = reset + 1
        <5>1. 1 \in DOMAIN t /\ t[1].id = elements[n].id
          BY <1>2, <1>8, <1>9, <4>1 DEF t
        <5>2. i # n
          BY <2>6, <5>1 DEF Untold, Forward
        <5> QED
          BY <1>2, <1>14, <4>1, <5>2
      <4>2. CASE k # reset + 1
        BY <1>2, <1>14, <4>2
      <4> QED
        BY <4>1, <4>2
    <3> QED
      BY <2>2, <2>6, <3>1
  <2>7. t \in Seq(Samples)
    BY <1>8 DEF t
  <2>8. \A i \in DOMAIN t : Final(t, i) =>
            \/ t[i].el = Absent
            \/ \E p \in DOMAIN elements' : Forward(t[i].el, p, elements', fresh')
    BY <2>5
  <2> HIDE DEF W
  <2> QED
    BY <2>1, <2>4, <2>6, <2>7, <2>8, AheadSent
<1>19. /\ t \in Seq(Samples)
       /\ \A i \in DOMAIN t : t[i].el = Absent \/ t[i].el.ts > clock
  BY <1>8, <1>9 DEF t
<1>20. \/ metadata' = metadata
       \/ \E ts \in {Never, clock'} : metadata' = Described(elements', ts)
  BY <1>1
<1> QED
  BY <1>4, <1>10, <1>17, <1>18, <1>19, <1>20, WriteStep

\* A list made of another by leaving elements out, the one at i being that at h[i].
LEMMA PartOf ==
    ASSUME NEW els, NEW f \in Nat, NEW c, Distinct(els, f, c), NEW new \in Seq(Elements),
           NEW h \in [DOMAIN new -> DOMAIN els],
           \A i \in DOMAIN new : new[i] = els[h[i]],
           \A i, j \in DOMAIN new : i < j => h[i] < h[j],
           Len(new) <= Len(els)
    PROVE  /\ Distinct(new, f, c)
           /\ \A e, i : i \in DOMAIN new /\ Forward(e, h[i], els, f)
                        => Forward(e, i, new, f)
<1>1. /\ els \in Seq(Elements) /\ Len(els) < f /\ Len(els) \in Nat
      /\ \A i, j \in DOMAIN els : els[i].id = els[j].id => i = j
      /\ \A i \in DOMAIN els : els[i].id < f /\ els[i].next < f /\ els[i].ts <= c
      /\ DOMAIN els = 1 .. Len(els) /\ DOMAIN new = 1 .. Len(new) /\ Len(new) \in Nat
  BY DEF Distinct
<1>2. \A i \in DOMAIN new : h[i] \in DOMAIN els
  OBVIOUS
<1>3. ASSUME NEW i \in DOMAIN new, NEW j \in DOMAIN new, new[i].id = new[j].id
      PROVE  i = j
  <2>1. h[i] = h[j]
    BY <1>1, <1>2, <1>3
  <2>2. ~ (h[i] < h[j]) /\ ~ (h[j] < h[i])
    BY <1>1, <1>2, <2>1
  <2>3. ~ (i < j) /\ ~ (j < i)
    BY <2>2
  <2>4. i \in Nat /\ j \in Nat
    BY <1>1
  <2> QED
    BY <2>3, <2>4
<1>4. Len(new) < f
  BY <1>1
<1>5. Distinct(new, f, c)
  BY <1>1, <1>2, <1>3, <1>4 DEF Distinct
<1>6. ASSUME NEW e, NEW i \in DOMAIN new, Forward(e, h[i], els, f)
      PROVE  Forward(e, i, new, f)
  <2>1. ASSUME NEW j \in 1 .. i PROVE j \in DOMAIN new /\ h[j] \in 1 .. h[i]
    <3>1. j \in DOMAIN new /\ (j = i \/ j < i)
      BY <1>1
    <3>2. h[j] \in Nat /\ h[j] >= 1 /\ h[i] \in Nat
      BY <1>1, <1>2, <3>1
    <3>3. h[j] = h[i] \/ h[j] < h[i]
      BY <3>1
    <3> QED
      BY <3>1, <3>2, <3>3
  <2> QED
    BY <1>6, <2>1 DEF Forward
<1> QED
  BY <1>5, <1>6

LEMMA PrefixFacts ==
    ASSUME NEW S, NEW s \in Seq(S), NEW k \in 0 .. Len(s)
    PROVE  LET z == SubSeq(s, 1, k)
           IN  /\ z \in Seq(S) /\ Len(z) = k /\ DOMAIN z = 1 .. k
               /\ \A i \in 1 .. k : z[i] = s[i]
               /\ k = Len(s) => z = s
  OBVIOUS

LEMMA Joined ==
    ASSUME NEW S, NEW a \in Seq(S), NEW b \in Seq(S)
    PROVE  /\ a \o b \in Seq(S) /\ Len(a \o b) = Len(a) + Len(b)
           /\ DOMAIN (a \o b) = 1 .. Len(a) + Len(b)
           /\ Len(a) \in Nat /\ Len(b) \in Nat
           /\ \A i \in 1 .. Len(a) : (a \o b)[i] = a[i]
           /\ \A i \in 1 .. Len(b) : (a \o b)[Len(a) + i] = b[i]
<1>1. /\ a \o b \in Seq(S) /\ Len(a \o b) = Len(a) + Len(b)
      /\ DOMAIN (a \o b) = 1 .. Len(a) + Len(b)
      /\ Len(a) \in Nat /\ Len(b) \in Nat
      /\ \A i \in 1 .. Len(a) : (a \o b)[i] = a[i]
  OBVIOUS
<1>2. ASSUME NEW i \in 1 .. Len(b) PROVE (a \o b)[Len(a) + i] = b[i]
  OBVIOUS
<1> QED
  BY <1>1, <1>2

LEMMA RemovedAt ==
    ASSUME NEW S, NEW s \in Seq(S), NEW pos \in 1 .. Len(s)
    PROVE  LET z == RemoveAt(s, pos)
           IN  /\ z \in Seq(S) /\ Len(z) = Len(s) - 1
               /\ DOMAIN z = 1 .. Len(s) - 1
               /\ \A i \in 1 .. Len(s) - 1 :
                      z[i] = s[IF i < pos THEN i ELSE i + 1]
<1> DEFINE a == SubSeq(s, 1, pos - 1)
           b == SubSeq(s, pos + 1, Len(s))
           z == RemoveAt(s, pos)
<1>1. /\ a \in Seq(S) /\ Len(a) = pos - 1 /\ \A i \in 1 .. pos - 1 : a[i] = s[i]
      /\ Len(s) \in Nat /\ pos \in Nat /\ pos >= 1 /\ pos <= Len(s)
  OBVIOUS
<1>2. /\ b \in Seq(S) /\ Len(b) = Len(s) - pos
      /\ \A i \in 1 .. Len(s) - pos : b[i] = s[pos + i]
  BY RestOf
<1> HIDE DEF a, b
<1>3. z = a \o b
  BY DEF RemoveAt, a, b
<1>4. /\ z \in Seq(S) /\ Len(z) = Len(s) - 1 /\ DOMAIN z = 1 .. Len(s) - 1
  <2>1. /\ a \o b \in Seq(S) /\ Len(a \o b) = Len(a) + Len(b)
        /\ DOMAIN (a \o b) = 1 .. Len(a) + Len(b)
    BY <1>1, <1>2, Joined
  <2>2. Len(a) + Len(b) = Len(s) - 1
    BY <1>1, <1>2
  <2> QED
    BY <1>3, <2>1, <2>2
<1>5. ASSUME NEW i \in 1 .. Len(s) - 1
      PROVE  z[i] = s[IF i < pos THEN i ELSE i + 1]
  <2>1. CASE i < pos
    <3>1. i \in 1 .. Len(a) /\ i \in 1 .. pos - 1
      BY <1>1, <2>1
    <3>2. z[i] = a[i]
      BY <1>1, <1>2, <1>3, <3>1
    <3> QED
      BY <1>1, <2>1, <3>1, <3>2
  <2>2. CASE ~ (i < pos)
    <3>1. i - Len(a) \in 1 .. Len(b) /\ i - Len(a) \in 1 .. Len(s) - pos
          /\ pos + (i - Len(a)) = i + 1
      BY <1>1, <1>2, <2>2
    <3>2. z[i] = b[i - Len(a)]
      <4>1. i \in 1 .. Len(a) + Len(b) /\ ~ (i <= Len(a))
        BY <1>1, <1>2, <2>2
      <4> QED
        BY <1>1, <1>2, <1>3, <4>1
    <3>3. b[i - Len(a)] = s[i + 1]
      BY <1>2, <3>1
    <3> QED
      BY <2>2, <3>2, <3>3
  <2> QED
    BY <2>1, <2>2
<1> QED
  BY <1>4, <1>5

LEMMA RemovePosStep ==
    ASSUME IInv, NEW pos \in 1 .. Len(elements) - 2, RemovePos(pos)
    PROVE  IInv'
<1> DEFINE n    == Len(elements)
           old  == Linked(elements, pos, elements[pos + 2].id, clock + 1)
           live == <<Live(old[pos]), Gone(old[pos + 1])>>
           W    == Applied(table, wire)
<1>1. PICK k \in Through(2) :
          /\ Allocates(0, 1)
          /\ IF k = 2 THEN /\ elements' = RemoveAt(old, pos + 1)
                           /\ metadata' = Described(elements', Never)
             ELSE elements' = old /\ UNCHANGED metadata
          /\ Sends("remove", SubSeq(live, 1, k), k = 2)
  BY DEF RemovePos
<1> DEFINE t == SubSeq(live, 1, k)
<1>2. /\ elements \in Seq(Elements) /\ n \in Nat /\ DOMAIN elements = 1 .. n
      /\ pos \in Nat /\ pos \in 1 .. n /\ pos + 1 \in 1 .. n /\ pos + 2 \in 1 .. n
      /\ pos \in DOMAIN elements /\ Distinct(elements, fresh, clock)
  <2>1. elements \in Seq(Elements) /\ n \in Nat /\ DOMAIN elements = 1 .. n
    BY Before
  <2> HIDE DEF n
  <2>2. pos \in 1 .. n - 2
    BY DEF n
  <2>3. pos \in Nat /\ pos \in 1 .. n /\ pos + 1 \in 1 .. n /\ pos + 2 \in 1 .. n
    BY <2>1, <2>2
  <2> QED
    BY <2>1, <2>3 DEF IInv
<1>3. k \in 0 .. 2
  BY <1>1, ThroughFacts
<1>4. /\ fresh' = fresh /\ clock' = clock + 1 /\ fresh' \in 1 .. MaxIds + 1
      /\ clock' \in Times /\ clock <= clock' /\ fresh \in Nat /\ clock \in Nat
  <2>1. /\ fresh' = fresh + 0 /\ clock' = clock + 1
        /\ fresh' \in 1 .. MaxIds + 1 /\ clock' \in Times /\ clock <= clock'
    BY <1>1, 0 \in Nat, 1 \in Nat, AllocatesFacts
  <2>2. fresh \in Nat /\ clock \in Nat
    BY Before
  <2> QED
    BY <2>1, <2>2
<1>5. /\ \A i \in 1 .. n : /\ elements[i].id < fresh /\ elements[i].next < fresh
                           /\ elements[i].ts <= clock /\ elements[i].ts \in Nat
                           /\ elements[i].next \in Nat /\ elements[i].id \in Nat
                           /\ elements[i].id \in Ids /\ elements[i] \in Elements
      /\ \A i, j \in 1 .. n : elements[i].id = elements[j].id => i = j
  BY <1>2, ElementFacts DEF Distinct
<1>6. PICK id \in Ids : id = elements[pos + 2].id
  BY <1>2, <1>5
<1>7. /\ old \in Seq(Elements) /\ Len(old) = Len(elements) /\ DOMAIN old = 1 .. n
      /\ old[pos].next = id /\ old[pos].ts = clock'
      /\ \A i \in 1 .. n : /\ old[i].id = elements[i].id
                           /\ old[i].val = elements[i].val
                           /\ i # pos => old[i] = elements[i]
  <2>1. /\ old = Linked(elements, pos, id, clock') /\ id \in Ids \cup {NIL}
        /\ elements \in Seq(Elements) /\ pos \in DOMAIN elements
        /\ clock' \in Times
    BY <1>2, <1>4, <1>6
  <2> HIDE DEF old
  <2>2. /\ old \in Seq(Elements) /\ Len(old) = Len(elements)
        /\ DOMAIN old = DOMAIN elements
        /\ old[pos].next = id /\ old[pos].ts = clock'
        /\ \A i \in DOMAIN elements : /\ old[i].id = elements[i].id
                                      /\ old[i].val = elements[i].val
                                      /\ i # pos => old[i] = elements[i]
    BY <2>1, LinkedFacts
  <2> QED
    BY <1>2, <2>2
<1> HIDE DEF old, n
<1>8. \A i \in 1 .. n : old[i].next < fresh' /\ old[i].ts <= clock'
  <2> SUFFICES ASSUME NEW i \in 1 .. n
               PROVE  old[i].next < fresh' /\ old[i].ts <= clock'
    OBVIOUS
  <2>1. CASE i = pos
    BY <1>2, <1>4, <1>5, <1>6, <1>7, <2>1
  <2>2. CASE i # pos
    BY <1>4, <1>5, <1>7, <2>2
  <2> QED
    BY <2>1, <2>2
<1>9. /\ Distinct(old, fresh', clock')
      /\ \A e, i : i \in 1 .. n /\ Forward(e, i, elements, fresh) /\ e.next \in Nat
                   => Forward(e, i, old, fresh')
  <2>1. fresh' \in Nat /\ fresh <= fresh'
    BY <1>4
  <2> QED
    BY <1>2, <1>4, <1>7, <1>8, <2>1, SameIds
<1> DEFINE H(i) == IF k = 2 /\ ~ (i < pos + 1) THEN i + 1 ELSE i
           h == [i \in DOMAIN elements' |-> H(i)]
<1>10. /\ elements' \in Seq(Elements) /\ DOMAIN elements' = 1 .. Len(elements')
       /\ Len(elements') = IF k = 2 THEN n - 1 ELSE n
       /\ Len(elements') \in Nat /\ Len(elements') <= Len(old)
       /\ \A i \in DOMAIN elements' : H(i) \in 1 .. n /\ elements'[i] = old[H(i)]
  <2>0. Len(old) = n
    BY <1>7 DEF n
  <2>1. CASE k = 2
    <3>1. elements' = RemoveAt(old, pos + 1) /\ pos + 1 \in 1 .. Len(old)
      BY <1>1, <1>2, <2>0, <2>1
    <3>2. /\ elements' \in Seq(Elements) /\ Len(elements') = n - 1
          /\ DOMAIN elements' = 1 .. n - 1
          /\ \A i \in 1 .. n - 1 :
                 elements'[i] = old[IF i < pos + 1 THEN i ELSE i + 1]
      BY <1>7, <2>0, <3>1, RemovedAt
    <3>3. \A i \in 1 .. n - 1 : H(i) \in 1 .. n
      BY <1>2, <2>1
    <3>4. \A i \in 1 .. n - 1 : (IF i < pos + 1 THEN i ELSE i + 1) = H(i)
      BY <2>1
    <3>5. \A i \in 1 .. n - 1 : elements'[i] = old[H(i)]
      BY <3>2, <3>4
    <3>6. n - 1 \in Nat /\ n - 1 <= n
      BY <1>2
    <3> QED
      BY <2>0, <2>1, <3>2, <3>3, <3>5, <3>6
  <2>2. CASE k # 2
    <3>1. elements' = old /\ \A i : H(i) = i
      BY <1>1, <2>2
    <3> QED
      BY <1>2, <1>7, <2>0, <2>2, <3>1
  <2> QED
    BY <2>1, <2>2
<1>11. \A i, j \in DOMAIN elements' : i < j => H(i) < H(j)
  <2>1. \A i \in DOMAIN elements' : i \in Nat
    BY <1>10
  <2> QED
    BY <1>2, <2>1
<1> HIDE DEF H
<1>12. /\ Distinct(elements', fresh', clock')
       /\ \A e, i : i \in DOMAIN elements' /\ Forward(e, H(i), old, fresh')
                    => Forward(e, i, elements', fresh')
  <2>1. /\ h \in [DOMAIN elements' -> DOMAIN old] /\ fresh' \in Nat
        /\ \A i \in DOMAIN elements' : h[i] = H(i) /\ elements'[i] = old[h[i]]
        /\ \A i, j \in DOMAIN elements' : i < j => h[i] < h[j]
    BY <1>4, <1>7, <1>10, <1>11
  <2> HIDE DEF h
  <2>2. /\ Distinct(elements', fresh', clock')
        /\ \A e, i : i \in DOMAIN elements' /\ Forward(e, h[i], old, fresh')
                     => Forward(e, i, elements', fresh')
    BY <1>9, <1>10, <2>1, PartOf
  <2> QED
    BY <2>1, <2>2
<1>13. /\ t \in Seq(Samples) /\ DOMAIN t = 1 .. k
       /\ 1 \in 1 .. k => t[1].id = elements[pos].id /\ t[1].el = old[pos]
       /\ 2 \in 1 .. k => t[2].id = elements[pos + 1].id /\ t[2].el = Absent
  <2>1. old[pos] \in Elements /\ old[pos + 1] \in Elements
    BY <1>2, <1>7
  <2>2. /\ Live(old[pos]) \in Samples /\ Gone(old[pos + 1]) \in Samples
        /\ Live(old[pos]).id = elements[pos].id /\ Live(old[pos]).el = old[pos]
        /\ Gone(old[pos + 1]).id = elements[pos + 1].id
        /\ Gone(old[pos + 1]).el = Absent
    BY <1>2, <1>7, <2>1, SampleOf
  <2>3. /\ live \in Seq(Samples) /\ Len(live) = 2 /\ live[1] = Live(old[pos])
        /\ live[2] = Gone(old[pos + 1])
    BY <2>2
  <2> HIDE DEF live
  <2>4. /\ t \in Seq(Samples) /\ DOMAIN t = 1 .. k /\ \A i \in 1 .. k : t[i] = live[i]
    BY ZenonT(60), <1>3, <2>3, PrefixFacts
  <2> HIDE DEF t
  <2> QED
    BY <2>2, <2>3, <2>4
<1> HIDE DEF live
<1>14. /\ wire' = wire \o t /\ published' = FALSE
       /\ UNCHANGED <<posts, readerVars>>
       /\ events \subseteq events' /\ events' \subseteq Disturbances
       /\ "insert" \notin events' => "insert" \notin events
       /\ events' = {} => events = {} /\ k = 2
  <2>1. Sends("remove", t, k = 2) /\ (k = 2) \in BOOLEAN /\ "remove" \in AllOps
    BY <1>1 DEF AllOps
  <2> HIDE DEF t
  <2> QED
    BY <2>1, SendsFacts
<1> HIDE DEF t
<1>15. \A i \in 1 .. k : i = 1 \/ i = 2
  BY <1>3
<1>16. pos \in DOMAIN elements' /\ H(pos) = pos
  BY <1>2, <1>10 DEF H
<1>17. ASSUME "insert" \notin events' PROVE Ahead(elements', Applied(W, t), fresh')
  <2>1. Ahead(elements, W, fresh) /\ W \in Tables
    BY <1>14, <1>17, Before
  <2>2. ASSUME NEW i \in 1 .. n PROVE Forward(old[i], i, old, fresh')
    <3>1. CASE i = pos
      <4>1. \A j \in 1 .. pos : j \in 1 .. n /\ j # pos + 2
        BY <1>2
      <4>2. \A j \in 1 .. pos : old[pos].next # old[j].id
        BY <1>2, <1>5, <1>6, <1>7, <4>1
      <4> QED
        BY <1>2, <1>8, <3>1, <4>2 DEF Forward
    <3>2. CASE i # pos
      <4>1. Forward(elements[i], i, elements, fresh)
        BY <1>2, <2>1 DEF Ahead
      <4> QED
        BY <1>5, <1>7, <1>9, <3>2, <4>1
    <3> QED
      BY <3>1, <3>2
  <2>3. \A i \in DOMAIN elements' : Forward(elements'[i], i, elements', fresh')
    BY <1>10, <1>12, <2>2
  <2>4. ASSUME NEW i \in DOMAIN t, t[i].el # Absent
        PROVE  \E p \in DOMAIN elements' : Forward(t[i].el, p, elements', fresh')
    <3>1. i = 1 /\ t[i].el = old[pos]
      BY <1>13, <1>15, <2>4
    <3>2. elements'[pos] = old[pos]
      BY <1>10, <1>16
    <3> QED
      BY <1>16, <2>3, <3>1, <3>2
  <2>5. ASSUME NEW e \in Elements, NEW i \in DOMAIN elements,
               Forward(e, i, elements, fresh), Untold(t, e.id)
        PROVE  \E p \in DOMAIN elements' : Forward(e, p, elements', fresh')
    <3>1. e.next \in Nat /\ i \in 1 .. n
      BY <1>2, LargeListAssumption DEF Elements, Ids, NIL
    <3>2. Forward(e, i, old, fresh')
      BY <1>9, <2>5, <3>1
    <3>3. \E p \in DOMAIN elements' : H(p) = i
      <4>1. CASE k = 2
        <5>1. e.id # elements[pos + 1].id
          BY <1>3, <1>13, <2>5, <4>1 DEF Untold
        <5>2. i # pos + 1
          BY <2>5, <5>1 DEF Forward
        <5>3. CASE i < pos + 1
          BY <1>2, <1>10, <3>1, <4>1, <5>3 DEF H
        <5>4. CASE i > pos + 1
          <6>1. i - 1 \in 1 .. n - 1 /\ ~ (i - 1 < pos + 1) /\ (i - 1) + 1 = i
            BY <1>2, <3>1, <5>4
          <6>2. H(i - 1) = i
            BY <4>1, <6>1 DEF H
          <6> QED
            BY <1>10, <4>1, <6>1, <6>2
        <5> QED
          BY <1>2, <3>1, <5>2, <5>3, <5>4
      <4>2. CASE k # 2
        BY <1>10, <3>1, <4>2 DEF H
      <4> QED
        BY <4>1, <4>2
    <3> QED
      BY <1>12, <3>2, <3>3
  <2>6. \A i \in DOMAIN t : Final(t, i) =>
            \/ t[i].el = Absent
            \/ \E p \in DOMAIN elements' : Forward(t[i].el, p, elements', fresh')
    BY <2>4
  <2> HIDE DEF W
  <2> QED
    BY <1>13, <2>1, <2>3, <2>5, <2>6, AheadSent
<1>18. ASSUME events' = {}
       PROVE  /\ Linking(elements') /\ Stored(elements', Applied(W, t))
              /\ Describes(metadata', elements')
  <2>1. Linking(elements) /\ Stored(elements, W) /\ k = 2
    BY <1>14, <1>18, Before
  <2>2. /\ DOMAIN elements' = 1 .. n - 1 /\ Len(elements') = n - 1
        /\ \A i \in 1 .. n - 1 : elements'[i] = old[H(i)] /\ H(i) \in 1 .. n
    BY <1>10, <2>1
  <2>3. ASSUME NEW i \in 1 .. n - 1
        PROVE  elements'[i].next = IF i = n - 1 THEN NIL ELSE elements'[i + 1].id
    <3>1. CASE i = pos
      <4>1. i # n - 1 /\ i + 1 \in 1 .. n - 1 /\ H(i + 1) = pos + 2
        BY <1>2, <2>1, <3>1 DEF H
      <4>2. elements'[i + 1].id = id
        BY <1>2, <1>6, <1>7, <2>2, <4>1
      <4> QED
        BY <1>7, <1>16, <2>2, <3>1, <4>1, <4>2
    <3>2. CASE i # pos
      <4>1. H(i) # pos /\ H(i) \in 1 .. n
        BY <1>2, <2>1, <2>2, <3>2 DEF H
      <4>2. elements'[i].next = IF H(i) = n THEN NIL ELSE elements[H(i) + 1].id
        BY <1>2, <1>7, <2>1, <2>2, <4>1 DEF Linking, n
      <4>3. CASE i = n - 1
        <5>1. H(i) = n
          BY <1>2, <2>1, <4>3 DEF H
        <5> QED
          BY <4>2, <4>3, <5>1
      <4>4. CASE i # n - 1
        <5>1. i + 1 \in 1 .. n - 1 /\ H(i) # n /\ H(i + 1) = H(i) + 1
          BY <1>2, <2>1, <3>2, <4>4 DEF H
        <5>2. elements'[i + 1].id = elements[H(i) + 1].id
          BY <1>7, <2>2, <5>1
        <5> QED
          BY <4>2, <4>4, <5>1, <5>2
      <4> QED
        BY <4>3, <4>4
    <3> QED
      BY <3>1, <3>2
  <2>4. Linking(elements')
    BY <2>2, <2>3 DEF Linking
  <2>5. /\ DOMAIN t = {1, 2} /\ t[1].id = elements[pos].id /\ t[1].el = old[pos]
        /\ t[2].id = elements[pos + 1].id
    BY <1>13, <2>1
  <2>6. ASSUME NEW p \in DOMAIN elements'
        PROVE  \/ \E i \in DOMAIN t : Final(t, i) /\ t[i].el = elements'[p]
               \/ /\ Untold(t, elements'[p].id)
                  /\ \E i \in DOMAIN elements : elements[i] = elements'[p]
    <3>1. CASE p = pos
      <4>1. t[1].id # t[2].id
        BY <1>2, <1>5, <2>5
      <4>2. Final(t, 1)
        BY <2>5, <4>1 DEF Final
      <4>3. t[1].el = elements'[p]
        BY <1>16, <2>2, <2>5, <3>1
      <4> QED
        BY <2>5, <4>2, <4>3
    <3>2. CASE p # pos
      <4>1. H(p) \in 1 .. n /\ H(p) # pos /\ H(p) # pos + 1
        BY <1>2, <2>1, <2>2, <3>2 DEF H
      <4>2. elements'[p] = elements[H(p)]
        BY <1>7, <2>2, <4>1
      <4>3. /\ elements[H(p)].id # elements[pos].id
            /\ elements[H(p)].id # elements[pos + 1].id
        BY <1>2, <1>5, <4>1
      <4>4. Untold(t, elements'[p].id)
        BY <2>5, <4>2, <4>3 DEF Untold
      <4> QED
        BY <1>2, <4>1, <4>2, <4>4
    <3> QED
      BY <3>1, <3>2
  <2>7. Stored(elements', Applied(W, t))
    <3> HIDE DEF W
    <3> QED
      BY <1>10, <1>13, <2>1, <2>6, StoredSent
  <2>8. Describes(metadata', elements')
    BY <1>1, <2>1 DEF Describes, Described
  <2> QED
    BY <2>4, <2>7, <2>8
<1>19. \A i \in DOMAIN t : t[i].el = Absent \/ t[i].el.ts > clock
  BY <1>4, <1>7, <1>13, <1>15
<1>20. \/ metadata' = metadata
       \/ \E ts \in {Never, clock'} : metadata' = Described(elements', ts)
  BY <1>1
<1> QED
  BY <1>4, <1>12, <1>13, <1>14, <1>17, <1>18, <1>19, <1>20, WriteStep

-----------------------------------------------------------------------------
(* Operations that add elements.                                           *)

LEMMA JoinedFrom ==
    ASSUME NEW S, NEW a \in Seq(S), NEW b \in Seq(S), NEW i \in DOMAIN (a \o b)
    PROVE  \/ i \in DOMAIN a /\ (a \o b)[i] = a[i]
           \/ \E j \in DOMAIN b : i = Len(a) + j /\ (a \o b)[i] = b[j]
<1>1. /\ DOMAIN a = 1 .. Len(a) /\ DOMAIN b = 1 .. Len(b)
      /\ i \in 1 .. Len(a) + Len(b) /\ Len(a) \in Nat /\ Len(b) \in Nat
  OBVIOUS
<1>2. CASE i <= Len(a)
  BY <1>1, <1>2
<1>3. CASE i > Len(a)
  <2>1. i - Len(a) \in DOMAIN b /\ i = Len(a) + (i - Len(a))
    BY <1>1, <1>3
  <2> QED
    BY <1>1, <1>3, <2>1
<1> QED
  BY <1>1, <1>2, <1>3

LEMMA DistinctJoined ==
    ASSUME NEW a, NEW b, NEW g \in Nat, NEW d, Distinct(a, g, d), Distinct(b, g, d),
           \A i \in DOMAIN a, j \in DOMAIN b : a[i].id # b[j].id,
           Len(a) + Len(b) < g
    PROVE  Distinct(a \o b, g, d)
<1>1. a \in Seq(Elements) /\ b \in Seq(Elements)
  BY DEF Distinct
<1>2. a \o b \in Seq(Elements) /\ Len(a \o b) < g
  BY <1>1
<1>3. ASSUME NEW i \in DOMAIN (a \o b)
      PROVE  /\ (a \o b)[i].id < g /\ (a \o b)[i].next < g /\ (a \o b)[i].ts <= d
  BY <1>1, <1>3, JoinedFrom DEF Distinct
<1>4. ASSUME NEW i \in DOMAIN (a \o b), NEW j \in DOMAIN (a \o b),
             (a \o b)[i].id = (a \o b)[j].id
      PROVE  i = j
  <2>1. \/ i \in DOMAIN a /\ (a \o b)[i] = a[i]
        \/ \E p \in DOMAIN b : i = Len(a) + p /\ (a \o b)[i] = b[p]
    BY <1>1, JoinedFrom
  <2>2. \/ j \in DOMAIN a /\ (a \o b)[j] = a[j]
        \/ \E p \in DOMAIN b : j = Len(a) + p /\ (a \o b)[j] = b[p]
    BY <1>1, JoinedFrom
  <2> QED
    BY <1>4, <2>1, <2>2 DEF Distinct
<1> QED
  BY <1>2, <1>3, <1>4 DEF Distinct

\* An element that leads on in a list leads on in a longer one.
LEMMA ForwardFirst ==
    ASSUME NEW a \in Seq(Elements), NEW b \in Seq(Elements), NEW f \in Nat,
           NEW g \in Nat, f <= g,
           NEW e, e.next \in Nat, NEW i \in DOMAIN a, Forward(e, i, a, f)
    PROVE  i \in DOMAIN (a \o b) /\ Forward(e, i, a \o b, g)
<1>1. /\ i \in DOMAIN (a \o b) /\ DOMAIN a = 1 .. Len(a) /\ i \in Nat
      /\ \A j \in 1 .. i : j \in DOMAIN a /\ (a \o b)[j] = a[j]
      /\ (a \o b)[i] = a[i]
  OBVIOUS
<1>2. e.next < g
  BY DEF Forward
<1> HIDE DEF Forward
<1> QED
  BY <1>1, <1>2 DEF Forward

LEMMA ForwardSecond ==
    ASSUME NEW a \in Seq(Elements), NEW b \in Seq(Elements), NEW f \in Nat,
           NEW g \in Nat, f <= g,
           NEW e, e.next \in Nat, NEW i \in DOMAIN b, Forward(e, i, b, f),
           \A j \in DOMAIN a : e.next # a[j].id
    PROVE  Len(a) + i \in DOMAIN (a \o b) /\ Forward(e, Len(a) + i, a \o b, g)
<1>1. /\ Len(a) + i \in DOMAIN (a \o b) /\ (a \o b)[Len(a) + i] = b[i]
      /\ DOMAIN (a \o b) = 1 .. Len(a) + Len(b)
      /\ Len(a) \in Nat /\ i \in Nat
  OBVIOUS
<1>2. e.next < g
  BY DEF Forward
<1>3. ASSUME NEW j \in 1 .. Len(a) + i PROVE e.next # (a \o b)[j].id
  <2>1. j \in DOMAIN (a \o b)
    BY <1>1
  <2>2. CASE j \in DOMAIN a /\ (a \o b)[j] = a[j]
    BY <2>2
  <2>3. ASSUME NEW p \in DOMAIN b, j = Len(a) + p, (a \o b)[j] = b[p]
        PROVE  e.next # (a \o b)[j].id
    <3>1. p \in 1 .. i
      BY <1>1, <2>3
    <3> QED
      BY <2>3, <3>1 DEF Forward
  <2> QED
    BY <2>1, <2>2, <2>3, JoinedFrom
<1> QED
  BY <1>1, <1>2, <1>3 DEF Forward

LEMMA LiveSamples ==
    ASSUME NEW b \in Seq(Elements), NEW s, s = [i \in 1 .. Len(b) |-> Live(b[i])]
    PROVE  /\ s \in Seq(Samples) /\ Len(s) = Len(b) /\ DOMAIN s = 1 .. Len(b)
           /\ \A i \in 1 .. Len(b) : s[i].id = b[i].id /\ s[i].el = b[i]
<1>1. \A i \in 1 .. Len(b) : b[i] \in Elements
  OBVIOUS
<1>2. \A i \in 1 .. Len(b) : s[i] \in Samples /\ s[i].id = b[i].id /\ s[i].el = b[i]
  BY <1>1, SampleOf
<1>3. Len(b) \in Nat
  OBVIOUS
<1>4. s \in Seq(Samples) /\ Len(s) = Len(b) /\ DOMAIN s = 1 .. Len(b)
  BY <1>2, <1>3
<1> QED
  BY <1>2, <1>4

LEMMA ReversedFacts ==
    ASSUME NEW S, NEW s \in Seq(S)
    PROVE  /\ Reverse(s) \in Seq(S) /\ Len(Reverse(s)) = Len(s)
           /\ DOMAIN Reverse(s) = 1 .. Len(s)
           /\ \A i \in 1 .. Len(s) :
                  /\ Len(s) - i + 1 \in 1 .. Len(s)
                  /\ Reverse(s)[i] = s[Len(s) - i + 1]
<1>1. \A i \in 1 .. Len(s) : Len(s) - i + 1 \in 1 .. Len(s)
  OBVIOUS
<1>2. \A i \in 1 .. Len(s) : (Len(s) - i) + 1 = Len(s) - i + 1
  OBVIOUS
<1> QED
  BY <1>1, <1>2 DEF Reverse

\* The new elements of a chain.
IsChain(new, vs, tail, t) ==
    /\ new \in Seq(Elements) /\ Len(new) = Len(vs)
    /\ DOMAIN new = 1 .. Len(vs)
    /\ \A i \in 1 .. Len(vs) :
           /\ new[i].id = fresh + i - 1 /\ new[i].val = vs[i]
           /\ new[i].next = IF i = Len(vs) THEN tail ELSE fresh + i
           /\ new[i].ts = t + i - 1

LEMMA ChainFacts ==
    ASSUME IInv, NEW vs \in Seq(Values), NEW tail \in Ids \cup {NIL}, NEW t \in Nat,
           fresh + Len(vs) <= MaxIds + 1, t + Len(vs) <= MaxTime + 1,
           NEW new, new = Chain(vs, tail, t)
    PROVE  IsChain(new, vs, tail, t)
<1> DEFINE n == Len(vs)
<1>1. n \in Nat /\ DOMAIN vs = 1 .. n /\ \A i \in 1 .. n : vs[i] \in Values
  OBVIOUS
<1>2. /\ fresh \in Nat /\ fresh >= 1 /\ MaxIds \in Nat /\ MaxTime \in Nat
      /\ fresh + n <= MaxIds + 1 /\ t + n <= MaxTime + 1
  BY Before
<1> HIDE DEF n
<1>3. ASSUME NEW i \in 1 .. n
      PROVE  /\ fresh + i - 1 \in Ids /\ t + i - 1 \in Times
             /\ i # n => fresh + i \in Ids
  BY <1>1, <1>2 DEF Ids, Times
<1>4. /\ DOMAIN new = 1 .. n
      /\ \A i \in 1 .. n :
             new[i] = [id |-> fresh + i - 1, val |-> vs[i],
                       next |-> IF i = n THEN tail ELSE fresh + i,
                       ts |-> t + i - 1]
  BY <1>1 DEF Chain, n
<1>5. ASSUME NEW i \in 1 .. n
      PROVE  (IF i = n THEN tail ELSE fresh + i) \in Ids \cup {NIL}
  BY <1>3
<1>6. \A i \in 1 .. n : new[i] \in Elements
  BY <1>1, <1>3, <1>4, <1>5 DEF Elements
<1>7. new \in Seq(Elements) /\ Len(new) = n
  <2>1. new = [i \in 1 .. n |-> new[i]]
    BY <1>4 DEF Chain, n
  <2> QED
    BY <1>1, <1>6, <2>1
<1>8. \A i \in 1 .. n :
          /\ new[i].id = fresh + i - 1 /\ new[i].val = vs[i]
          /\ new[i].next = IF i = n THEN tail ELSE fresh + i
          /\ new[i].ts = t + i - 1
  BY <1>4
<1> QED
  BY <1>4, <1>7, <1>8 DEF n, IsChain

\* Samples of distinct elements all count.
LEMMA AllFinal ==
    ASSUME NEW t, \A i, j \in DOMAIN t : t[i].id = t[j].id => i = j,
           \A i \in DOMAIN t : i \in Nat
    PROVE  \A i \in DOMAIN t : Final(t, i)
<1> SUFFICES ASSUME NEW i \in DOMAIN t, NEW j \in DOMAIN t, t[j].id = t[i].id
             PROVE  j <= i
  BY DEF Final
<1>1. j = i /\ i \in Nat
  OBVIOUS
<1> QED
  BY <1>1

\* The list the writer has, when new elements or links have come.
LEMMA OldDistinct ==
    ASSUME IInv, NEW g \in Nat, NEW d \in Nat, fresh <= g, clock <= d
    PROVE  /\ Distinct(elements, g, d) /\ Distinct(elements, fresh, clock)
           /\ \A i \in DOMAIN elements :
                  /\ elements[i].id < fresh /\ elements[i].next < fresh
                  /\ elements[i].id \in Nat /\ elements[i].next \in Nat
                  /\ elements[i].id # NIL /\ elements[i].id \in Ids
                  /\ elements[i].ts <= d
<1>1. Distinct(elements, fresh, clock)
  BY DEF IInv
<1>2. fresh \in Nat /\ clock \in Nat /\ Len(elements) \in Nat
  BY Before
<1>3. \A i \in DOMAIN elements :
          /\ elements[i].id \in Nat /\ elements[i].next \in Nat
          /\ elements[i].ts \in Nat
          /\ elements[i].id # NIL /\ elements[i].id \in Ids
  BY <1>1, ElementFacts DEF Distinct
<1>4. \A i \in DOMAIN elements :
          /\ elements[i].id < fresh /\ elements[i].next < fresh
          /\ elements[i].ts <= clock
  BY <1>1 DEF Distinct
<1>5. \A i \in DOMAIN elements :
          elements[i].id < g /\ elements[i].next < g /\ elements[i].ts <= d
  BY <1>2, <1>3, <1>4
<1>6. Len(elements) < g
  BY <1>1, <1>2 DEF Distinct
<1>7. Distinct(elements, g, d)
  BY <1>1, <1>5, <1>6 DEF Distinct
<1> QED
  BY <1>1, <1>3, <1>4, <1>5, <1>7

LEMMA NextIndex ==
    ASSUME NEW l \in Nat, NEW k \in Nat, NEW j \in 1 .. l, j # l, NEW i, i = k + j
    PROVE  j + 1 \in 1 .. l /\ i # k + l /\ i + 1 = k + (j + 1)
  OBVIOUS

LEMMA PrependStep ==
    ASSUME IInv, NEW vs \in Seq(Values), Prepend(vs)
    PROVE  IInv'
<1> DEFINE n    == Len(vs)
           tail == IF elements = <<>> THEN NIL ELSE elements[1].id
           W    == Applied(table, wire)
<1>1. PICK k \in Through(n) \ {0} :
        LET new == [i \in 1 .. k |->
                [id   |-> fresh + k - i,
                 val  |-> vs[Len(vs) - k + i],
                 next |-> IF i < k THEN fresh + k - i - 1
                          ELSE IF elements = <<>> THEN NIL ELSE elements[1].id,
                 ts   |-> clock + k - i + 1]]
        IN  /\ Allocates(k, k)
            /\ elements' = new \o elements
            /\ metadata' = Described(elements', new[1].ts)
            /\ Sends("prepend", Reverse([i \in 1 .. k |-> Live(new[i])]), k = Len(vs))
  BY DEF Prepend
<1> DEFINE new == [i \in 1 .. k |-> [id   |-> fresh + k - i,
                                     val  |-> vs[n - k + i],
                                     next |-> IF i < k THEN fresh + k - i - 1 ELSE tail,
                                     ts   |-> clock + k - i + 1]]
           live == [i \in 1 .. k |-> Live(new[i])]
           t    == Reverse(live)
<1>2. /\ Allocates(k, k) /\ elements' = new \o elements
      /\ metadata' = Described(elements', new[1].ts)
      /\ Sends("prepend", t, k = n)
  BY <1>1, Zenon
<1>3. /\ elements \in Seq(Elements) /\ DOMAIN elements = 1 .. Len(elements)
      /\ Len(elements) \in Nat /\ Len(elements) < fresh
      /\ fresh \in Nat /\ fresh >= 1 /\ clock \in Nat /\ MaxIds \in Nat
      /\ MaxTime \in Nat /\ n \in Nat /\ \A i \in 1 .. n : vs[i] \in Values
  BY Before
<1>4. /\ k \in 1 .. n /\ k \in Nat /\ k >= 1
      /\ fresh + k <= MaxIds + 1 /\ clock + k <= MaxTime
      /\ fresh' = fresh + k /\ clock' = clock + k
      /\ fresh' \in 1 .. MaxIds + 1 /\ clock' \in Times /\ clock <= clock'
      /\ fresh' \in Nat /\ clock' \in Nat /\ fresh <= fresh'
  <2>1. k \in 0 .. n /\ k # 0
    BY <1>1, <1>3, ThroughFacts
  <2>2. k \in 1 .. n /\ k \in Nat /\ k >= 1
    BY <1>3, <2>1
  <2>3. fresh + k <= MaxIds + 1 /\ clock + k <= MaxTime
    BY <1>2 DEF Allocates
  <2>4. /\ fresh' = fresh + k /\ clock' = clock + k
        /\ fresh' \in 1 .. MaxIds + 1 /\ clock' \in Times /\ clock <= clock'
        /\ fresh' \in Nat /\ clock' \in Nat
    BY <1>2, <2>2, AllocatesFacts
  <2> QED
    BY <1>3, <2>2, <2>3, <2>4
<1>5. /\ Distinct(elements, fresh', clock') /\ Distinct(elements, fresh, clock)
      /\ \A i \in DOMAIN elements :
             /\ elements[i].id < fresh /\ elements[i].next < fresh
             /\ elements[i].id \in Nat /\ elements[i].next \in Nat
             /\ elements[i].id # NIL /\ elements[i].id \in Ids
             /\ elements[i].ts <= clock'
  BY <1>4, OldDistinct
<1>6. tail \in Ids \cup {NIL} /\ tail \in Nat /\ tail < fresh
  <2>1. CASE elements = <<>>
    BY <1>3, <2>1 DEF NIL
  <2>2. CASE elements # <<>>
    BY <1>3, <1>5, <2>2
  <2> QED
    BY <2>1, <2>2
<1> HIDE DEF tail
<1>7. /\ new \in Seq(Elements) /\ Len(new) = k /\ DOMAIN new = 1 .. k
      /\ \A i \in 1 .. k :
             /\ new[i].id = fresh + k - i /\ new[i].ts = clock + k - i + 1
             /\ new[i].next = IF i < k THEN fresh + k - i - 1 ELSE tail
  <2>1. ASSUME NEW i \in 1 .. k
        PROVE  /\ fresh + k - i \in Ids /\ clock + k - i + 1 \in Times
               /\ n - k + i \in 1 .. n /\ (i < k => fresh + k - i - 1 \in Ids)
    <3> HIDE DEF n
    <3> QED
      BY <1>3, <1>4 DEF Ids, Times
  <2>2. \A i \in 1 .. k :
            (IF i < k THEN fresh + k - i - 1 ELSE tail) \in Ids \cup {NIL}
    BY <1>6, <2>1
  <2>3. \A i \in 1 .. k : vs[n - k + i] \in Values
    BY <1>3, <2>1
  <2>4. \A i \in 1 .. k : new[i] \in Elements
    BY <2>1, <2>2, <2>3 DEF Elements
  <2>5. \A i \in 1 .. k :
            /\ new[i].id = fresh + k - i /\ new[i].ts = clock + k - i + 1
            /\ new[i].next = IF i < k THEN fresh + k - i - 1 ELSE tail
    OBVIOUS
  <2>6. new = [i \in 1 .. k |-> new[i]]
    OBVIOUS
  <2> HIDE DEF new
  <2>7. new \in Seq(Elements) /\ Len(new) = k /\ DOMAIN new = 1 .. k
    BY <1>4, <2>4, <2>6
  <2> QED
    BY <2>5, <2>7
<1>8. /\ live \in Seq(Samples) /\ Len(live) = k /\ DOMAIN live = 1 .. k
      /\ \A i \in 1 .. k : live[i].id = new[i].id /\ live[i].el = new[i]
  <2> HIDE DEF new
  <2> QED
    BY <1>7, LiveSamples
<1> HIDE DEF new, live
<1>9. /\ t \in Seq(Samples) /\ DOMAIN t = 1 .. k
      /\ \A i \in 1 .. k :
             /\ k - i + 1 \in 1 .. k
             /\ t[i].id = new[k - i + 1].id /\ t[i].el = new[k - i + 1]
  BY <1>8, ReversedFacts
<1> HIDE DEF t, n
<1>10. /\ wire' = wire \o t /\ published' = FALSE
       /\ UNCHANGED <<posts, readerVars>>
       /\ events \subseteq events' /\ events' \subseteq Disturbances
       /\ "insert" \notin events' => "insert" \notin events
       /\ events' = {} => events = {} /\ k = n
  <2>1. (k = n) \in BOOLEAN /\ "prepend" \in AllOps
    BY DEF AllOps
  <2> QED
    BY <1>2, <2>1, SendsFacts
<1>11. \A i \in 1 .. k :
           /\ new[i].id \in Nat /\ new[i].id >= fresh /\ new[i].id < fresh'
           /\ new[i].ts > clock /\ new[i].ts <= clock'
           /\ new[i].next \in Nat /\ new[i].next < new[i].id
           /\ new[i].next < fresh'
  <2>1. ASSUME NEW i \in 1 .. k
        PROVE  /\ new[i].id \in Nat /\ new[i].id >= fresh /\ new[i].id < fresh'
               /\ new[i].ts > clock /\ new[i].ts <= clock'
    BY <1>3, <1>4, <1>7
  <2>2. ASSUME NEW i \in 1 .. k
        PROVE  new[i].next \in Nat /\ new[i].next < new[i].id
    <3>1. CASE i < k
      BY <1>3, <1>4, <1>7, <3>1
    <3>2. CASE ~ (i < k)
      BY <1>3, <1>4, <1>6, <1>7, <3>2
    <3> QED
      BY <3>1, <3>2
  <2>3. \A i \in 1 .. k : new[i].next < fresh'
    BY <1>4, <2>1, <2>2
  <2> QED
    BY <2>1, <2>2, <2>3
<1>12. \A i, j \in 1 .. k : new[i].id = new[j].id => i = j
  <2> SUFFICES ASSUME NEW i \in 1 .. k, NEW j \in 1 .. k, new[i].id = new[j].id
               PROVE  i = j
    OBVIOUS
  <2>1. fresh + k - i = fresh + k - j
    BY <1>7
  <2> QED
    BY <1>3, <1>4, <2>1
<1>13. Distinct(new, fresh', clock')
  <2>1. k < fresh'
    BY <1>3, <1>4
  <2> QED
    BY <1>7, <1>11, <1>12, <2>1 DEF Distinct
<1>14. \A i \in DOMAIN elements, j \in 1 .. k : elements[i].id # new[j].id
  BY <1>3, <1>5, <1>11
<1>15. Distinct(elements', fresh', clock')
  <2>1. Len(new) + Len(elements) < fresh'
    BY <1>3, <1>4, <1>7
  <2> QED
    BY <1>2, <1>4, <1>5, <1>7, <1>13, <1>14, <2>1, DistinctJoined
<1>16. ASSUME "insert" \notin events' PROVE Ahead(elements', Applied(W, t), fresh')
  <2>1. Ahead(elements, W, fresh) /\ W \in Tables
    BY <1>10, <1>16, Before
  <2>2. ASSUME NEW i \in 1 .. k
        PROVE  i \in DOMAIN elements' /\ Forward(new[i], i, elements', fresh')
    <3>1. \A j \in 1 .. i : j \in 1 .. k /\ new[i].next # new[j].id
      <4>1. \A j \in 1 .. i : j \in 1 .. k
        BY <1>4
      <4>2. ASSUME NEW j \in 1 .. i PROVE new[i].id <= new[j].id
        <5>1. new[i].id = fresh + k - i /\ new[j].id = fresh + k - j
          BY <1>7, <4>1
        <5>2. fresh + k - i <= fresh + k - j
          BY <1>3, <1>4
        <5> QED
          BY <5>1, <5>2
      <4> QED
        BY <1>11, <4>1, <4>2
    <3>2. Forward(new[i], i, new, fresh')
      BY <1>11, <3>1 DEF Forward
    <3> QED
      BY <1>2, <1>3, <1>4, <1>7, <1>11, <3>2, ForwardFirst
  <2>3. ASSUME NEW e, e.next \in Nat, NEW i \in DOMAIN elements,
               Forward(e, i, elements, fresh)
        PROVE  k + i \in DOMAIN elements' /\ Forward(e, k + i, elements', fresh')
    <3>1. \A j \in DOMAIN new : e.next # new[j].id
      BY <1>3, <1>7, <1>11, <2>3 DEF Forward
    <3>2. /\ Len(new) + i \in DOMAIN (new \o elements)
          /\ Forward(e, Len(new) + i, new \o elements, fresh')
      BY <1>3, <1>4, <1>7, <2>3, <3>1, ForwardSecond
    <3> QED
      BY <1>2, <1>7, <3>2
  <2>4. ASSUME NEW i \in DOMAIN elements'
        PROVE  Forward(elements'[i], i, elements', fresh')
    <3>1. CASE i \in DOMAIN new /\ elements'[i] = new[i]
      BY <1>7, <2>2, <3>1
    <3>2. ASSUME NEW j \in DOMAIN elements, i = k + j, elements'[i] = elements[j]
          PROVE  Forward(elements'[i], i, elements', fresh')
      <4>1. Forward(elements[j], j, elements, fresh)
        BY <2>1 DEF Ahead
      <4> QED
        BY <1>5, <2>3, <3>2, <4>1
    <3> QED
      BY <1>2, <1>3, <1>7, <2>4, <3>1, <3>2, JoinedFrom
  <2>5. \A i \in DOMAIN t : \E p \in DOMAIN elements' :
            Forward(t[i].el, p, elements', fresh')
    BY <1>9, <2>2
  <2>6. ASSUME NEW e \in Elements, NEW i \in DOMAIN elements,
               Forward(e, i, elements, fresh)
        PROVE  \E p \in DOMAIN elements' : Forward(e, p, elements', fresh')
    <3>1. e.next \in Nat
      BY LargeListAssumption DEF Elements, Ids, NIL
    <3> QED
      BY <2>3, <2>6, <3>1
  <2> HIDE DEF W
  <2> QED
    BY <1>9, <2>1, <2>4, <2>5, <2>6, AheadSent
<1>17. ASSUME events' = {}
       PROVE  /\ Linking(elements') /\ Stored(elements', Applied(W, t))
              /\ Describes(metadata', elements')
  <2>1. Linking(elements) /\ Stored(elements, W) /\ k = n
    BY <1>10, <1>17, Before
  <2>2. /\ elements' \in Seq(Elements) /\ Len(elements') = k + Len(elements)
        /\ DOMAIN elements' = 1 .. k + Len(elements)
        /\ \A i \in 1 .. k : elements'[i] = new[i]
        /\ \A i \in 1 .. Len(elements) : elements'[k + i] = elements[i]
    <3>1. /\ new \o elements \in Seq(Elements)
          /\ Len(new \o elements) = Len(new) + Len(elements)
          /\ DOMAIN (new \o elements) = 1 .. Len(new) + Len(elements)
          /\ \A i \in 1 .. Len(new) : (new \o elements)[i] = new[i]
          /\ \A i \in 1 .. Len(elements) :
                 (new \o elements)[Len(new) + i] = elements[i]
      <4>1. new \in Seq(Elements) /\ elements \in Seq(Elements)
        BY <1>3, <1>7
      <4> QED
        BY <4>1, Joined
    <3>2. Len(new) = k
      BY <1>7
    <3> QED
      BY <1>2, <3>1, <3>2
  <2>3. ASSUME NEW i \in 1 .. k + Len(elements)
        PROVE  elements'[i].next = IF i = Len(elements') THEN NIL
                                   ELSE elements'[i + 1].id
    <3>1. CASE i \in 1 .. k /\ i < k
      <4>1. i + 1 \in 1 .. k /\ i # Len(elements')
        BY <1>3, <1>4, <2>2, <3>1
      <4>2. new[i].next = fresh + k - i - 1
        BY <1>7, <3>1
      <4>3. new[i + 1].id = fresh + k - (i + 1)
        BY <1>7, <4>1
      <4>4. new[i].next = new[i + 1].id
        BY <1>3, <1>4, <4>1, <4>2, <4>3
      <4> QED
        BY <2>2, <3>1, <4>1, <4>4
    <3>2. CASE i = k
      <4>1. elements'[i].next = tail
        BY <1>4, <1>7, <2>2, <3>2
      <4>2. CASE elements = <<>>
        <5>1. i = Len(elements') /\ tail = NIL
          BY <1>4, <2>2, <3>2, <4>2 DEF tail
        <5> QED
          BY <4>1, <5>1
      <4>3. CASE elements # <<>>
        <5>1. 1 \in 1 .. Len(elements) /\ tail = elements[1].id
              /\ i # Len(elements')
          BY <1>3, <1>4, <2>2, <3>2, <4>3 DEF tail
        <5>2. elements'[i + 1] = elements[1]
          BY <2>2, <3>2, <5>1
        <5> QED
          BY <4>1, <5>1, <5>2
      <4> QED
        BY <4>2, <4>3
    <3>3. CASE i > k
      <4>1. PICK j \in 1 .. Len(elements) : i = k + j
        <5>1. i - k \in 1 .. Len(elements) /\ i = k + (i - k)
          BY <1>3, <1>4, <3>3
        <5> QED
          BY <5>1
      <4>2. elements[j].next = IF j = Len(elements) THEN NIL ELSE elements[j + 1].id
        BY <1>3, <2>1 DEF Linking
      <4>3. CASE j = Len(elements)
        BY <2>2, <4>1, <4>2, <4>3
      <4>4. CASE j # Len(elements)
        <5>1. j + 1 \in 1 .. Len(elements) /\ i # k + Len(elements)
              /\ i + 1 = k + (j + 1)
          <6>1. Len(elements) \in Nat /\ k \in Nat
            BY <1>3, <1>4
          <6> QED
            BY <4>1, <4>4, <6>1, NextIndex
        <5>2. i # Len(elements')
          BY <2>2, <5>1
        <5> QED
          BY <2>2, <4>1, <4>2, <4>4, <5>1, <5>2
      <4> QED
        BY <4>3, <4>4
    <3> QED
      BY <1>3, <1>4, <3>1, <3>2, <3>3
  <2>4. Linking(elements')
    BY <2>2, <2>3 DEF Linking
  <2>5. \A i \in DOMAIN t : Final(t, i)
    <3>1. ASSUME NEW i \in 1 .. k, NEW j \in 1 .. k, t[i].id = t[j].id PROVE i = j
      <4>1. k - i + 1 = k - j + 1
        BY <1>9, <1>12, <3>1
      <4> QED
        BY <1>4, <4>1
    <3>2. \A i \in 1 .. k : i \in Nat
      OBVIOUS
    <3> QED
      BY <1>9, <3>1, <3>2, AllFinal
  <2>6. ASSUME NEW p \in DOMAIN elements'
        PROVE  \/ \E i \in DOMAIN t : Final(t, i) /\ t[i].el = elements'[p]
               \/ /\ Untold(t, elements'[p].id)
                  /\ \E i \in DOMAIN elements : elements[i] = elements'[p]
    <3>1. CASE p \in DOMAIN new /\ elements'[p] = new[p]
      <4>1. k - p + 1 \in 1 .. k /\ k - (k - p + 1) + 1 = p
        BY <1>4, <1>7, <3>1
      <4>2. t[k - p + 1].el = new[p]
        BY <1>9, <4>1
      <4> QED
        BY <1>9, <2>5, <3>1, <4>1, <4>2
    <3>2. ASSUME NEW j \in DOMAIN elements, elements'[p] = elements[j]
          PROVE  Untold(t, elements'[p].id)
      BY <1>9, <1>14, <3>2 DEF Untold
    <3>3. \/ p \in DOMAIN new /\ elements'[p] = new[p]
          \/ \E j \in DOMAIN elements : elements'[p] = elements[j]
      <4> HIDE DEF new
      <4> QED
        BY SMTT(30), <1>2, <1>3, <1>7, JoinedFrom
    <3> HIDE DEF new, t
    <3> QED
      BY <3>1, <3>2, <3>3
  <2>7. Stored(elements', Applied(W, t))
    <3> HIDE DEF W
    <3> QED
      BY <1>9, <2>1, <2>2, <2>6, StoredSent
  <2>8. Describes(metadata', elements')
    <3>1. new[1].ts = clock'
      <4>1. 1 \in 1 .. k /\ clock + k - 1 + 1 = clock'
        BY <1>3, <1>4
      <4> QED
        BY <1>7, <4>1
    <3> QED
      BY <1>2, <1>15, <3>1 DEF Describes, Described, Distinct
  <2> QED
    BY <2>4, <2>7, <2>8
<1>18. /\ \A i \in DOMAIN t : t[i].el = Absent \/ t[i].el.ts > clock
       /\ \E ts \in {Never, clock'} : metadata' = Described(elements', ts)
  <2>1. new[1].ts = clock'
    <3>1. 1 \in 1 .. k /\ clock + k - 1 + 1 = clock'
      BY <1>3, <1>4
    <3> QED
      BY <1>7, <3>1
  <2> QED
    BY <1>2, <1>9, <1>11, <2>1
<1> QED
  BY <1>4, <1>9, <1>10, <1>15, <1>16, <1>17, <1>18, WriteStep

LEMMA AppendStep ==
    ASSUME IInv, NEW vs \in Seq(Values), vs # <<>>, AppendAll(vs)
    PROVE  IInv'
<1> DEFINE n    == Len(vs)
           l    == Len(elements)
           link == IF elements = <<>> THEN 0 ELSE 1
           new  == Chain(vs, NIL, clock + link + 1)
           old  == IF link = 0 THEN elements
                   ELSE Linked(elements, Len(elements), fresh, clock + 1)
           lead == [i \in 1 .. link |-> Live(Last(old))]
           rest == [i \in 1 .. n |-> Live(new[i])]
           W    == Applied(table, wire)
<1>1. PICK k \in Through(link + n) :
          /\ Allocates(n, link + n)
          /\ elements' = old \o SubSeq(new, 1, IF k < link THEN 0 ELSE k - link)
          /\ IF k = link + n THEN metadata' = Described(elements', clock')
             ELSE UNCHANGED metadata
          /\ Sends("append", SubSeq(lead \o rest, 1, k), k = link + n)
  BY DEF AppendAll
<1> DEFINE m    == IF k < link THEN 0 ELSE k - link
           part == SubSeq(new, 1, m)
           t    == SubSeq(lead \o rest, 1, k)
<1>2. /\ elements' = old \o part /\ Allocates(n, link + n)
      /\ k = link + n => metadata' = Described(elements', clock')
      /\ k # link + n => metadata' = metadata
      /\ Sends("append", t, k = link + n)
  BY <1>1
<1>3. /\ elements \in Seq(Elements) /\ DOMAIN elements = 1 .. l
      /\ l \in Nat /\ l < fresh /\ (link = 1 => l \in 1 .. l) /\ (link = 0 => l = 0)
      /\ fresh \in Nat /\ fresh >= 1 /\ clock \in Nat /\ MaxIds \in Nat
      /\ MaxTime \in Nat /\ n \in Nat /\ n >= 1
      /\ link \in {0, 1} /\ link \in Nat
  BY Before
<1> HIDE DEF l
<1>4. link = 0 => old = elements
  OBVIOUS
<1>5. link = 1 => old = Linked(elements, l, fresh, clock + 1)
  BY DEF l
<1>6. k \in 0 .. link + n
  BY <1>1, <1>3, ThroughFacts
<1> HIDE DEF link, n, old, m, part, t, lead, rest, W
<1>7. /\ fresh + n <= MaxIds + 1 /\ clock + (link + n) <= MaxTime
      /\ fresh' = fresh + n /\ clock' = clock + (link + n)
      /\ fresh' \in 1 .. MaxIds + 1 /\ clock' \in Times /\ clock <= clock'
      /\ fresh' \in Nat /\ clock' \in Nat /\ fresh <= fresh'
  <2>1. fresh + n <= MaxIds + 1 /\ clock + (link + n) <= MaxTime
    BY <1>2 DEF Allocates
  <2>2. link + n \in Nat
    BY <1>3
  <2>3. /\ fresh' = fresh + n /\ clock' = clock + (link + n)
        /\ fresh' \in 1 .. MaxIds + 1 /\ clock' \in Times /\ clock <= clock'
        /\ fresh' \in Nat /\ clock' \in Nat
    BY <1>2, <1>3, <2>2, AllocatesFacts
  <2> QED
    BY <1>3, <2>1, <2>3
<1>8. /\ Distinct(elements, fresh', clock') /\ Distinct(elements, fresh, clock)
      /\ \A i \in DOMAIN elements :
             /\ elements[i].id < fresh /\ elements[i].next < fresh
             /\ elements[i].id \in Nat /\ elements[i].next \in Nat
             /\ elements[i].id # NIL /\ elements[i].id \in Ids
             /\ elements[i].ts <= clock'
  BY <1>7, <1>3, OldDistinct
<1>9. /\ new \in Seq(Elements) /\ Len(new) = n /\ DOMAIN new = 1 .. n
      /\ \A i \in 1 .. n :
             /\ new[i].id = fresh + i - 1
             /\ new[i].next = IF i = n THEN NIL ELSE fresh + i
             /\ new[i].ts = (clock + link + 1) + i - 1
  <2>1. /\ clock + link + 1 \in Nat /\ (clock + link + 1) + n <= MaxTime + 1
        /\ NIL \in Ids \cup {NIL} /\ Len(vs) = n
    BY <1>3, <1>7 DEF n
  <2>2. PICK d \in Nat : d = clock + link + 1
    BY <2>1
  <2>3. /\ new \in Seq(Elements) /\ Len(new) = Len(vs) /\ DOMAIN new = 1 .. Len(vs)
        /\ \A i \in 1 .. Len(vs) :
             /\ new[i].id = fresh + i - 1 /\ new[i].val = vs[i]
             /\ new[i].next = IF i = Len(vs) THEN NIL ELSE fresh + i
             /\ new[i].ts = d + i - 1
    <3>1. new = Chain(vs, NIL, d) /\ d + Len(vs) <= MaxTime + 1
          /\ fresh + Len(vs) <= MaxIds + 1
      BY <1>7, <2>1, <2>2
    <3>2. NIL \in Ids \cup {NIL} /\ d \in Nat /\ vs \in Seq(Values)
      OBVIOUS
    <3> HIDE DEF new
    <3>3. IsChain(new, vs, NIL, d)
      BY <3>1, <3>2, ChainFacts, Zenon
    <3> QED
      BY <3>3 DEF IsChain
  <2> HIDE DEF new
  <2> QED
    BY <2>1, <2>2, <2>3
<1> HIDE DEF new
<1>10. \A i \in 1 .. n :
           /\ new[i].id \in Nat /\ new[i].id >= fresh /\ new[i].id < fresh'
           /\ new[i].ts > clock /\ new[i].ts <= clock'
           /\ new[i].next \in Nat /\ new[i].next < fresh'
           /\ new[i].next = NIL \/ new[i].next > new[i].id
  <2>1. ASSUME NEW i \in 1 .. n
        PROVE  /\ new[i].id \in Nat /\ new[i].id >= fresh /\ new[i].id < fresh'
               /\ new[i].ts > clock /\ new[i].ts <= clock'
    <3>1. new[i].id = fresh + i - 1 /\ new[i].ts = (clock + link + 1) + i - 1
      BY <1>9
    <3> QED
      BY <1>3, <1>7, <3>1
  <2>2. ASSUME NEW i \in 1 .. n
        PROVE  /\ new[i].next \in Nat /\ new[i].next < fresh'
               /\ new[i].next = NIL \/ new[i].next > new[i].id
    <3>1. CASE i = n
      <4>1. new[i].next = 0 /\ NIL = 0
        BY <1>9, <3>1 DEF NIL
      <4> QED
        BY <1>3, <1>7, <4>1
    <3>2. CASE i # n
      <4>1. new[i].next = fresh + i /\ new[i].id = fresh + i - 1
        BY <1>9, <3>2
      <4> QED
        BY <1>3, <1>7, <3>2, <4>1
    <3> QED
      BY <3>1, <3>2
  <2> QED
    BY <2>1, <2>2
<1>11. \A i, j \in 1 .. n : /\ new[i].id = new[j].id => i = j
                            /\ i <= j => new[i].id <= new[j].id
  <2> SUFFICES ASSUME NEW i \in 1 .. n, NEW j \in 1 .. n
               PROVE  /\ new[i].id = new[j].id => i = j
                      /\ i <= j => new[i].id <= new[j].id
    OBVIOUS
  <2>1. new[i].id = fresh + i - 1 /\ new[j].id = fresh + j - 1
    BY <1>9
  <2> QED
    BY <1>3, <2>1
<1>12. /\ old \in Seq(Elements) /\ Len(old) = l /\ DOMAIN old = 1 .. l
       /\ \A i \in 1 .. l : /\ old[i].id = elements[i].id
                            /\ old[i].val = elements[i].val
                            /\ i # l => old[i] = elements[i]
       /\ link = 1 => old[l].next = fresh /\ old[l].ts = clock + 1 /\ n # 0
                      /\ l \in 1 .. l
  <2>1. CASE link = 0
    <3>1. l = 0 /\ old = elements
      BY <1>3, <1>4, <2>1
    <3> QED
      BY <1>3, <2>1, <3>1 DEF l
  <2>2. CASE link = 1
    <3>1. l \in 1 .. l /\ l \in DOMAIN elements
      BY <1>3, <2>2
    <3>2. clock + 1 \in Times
      BY <1>3, <1>7, <2>2 DEF Times
    <3>3. PICK d \in Times : d = clock + 1
      BY <3>2
    <3>4. fresh \in Ids \cup {NIL}
      BY <1>3, <1>7 DEF Ids
    <3>5. PICK id \in Ids \cup {NIL} : id = fresh
      BY <3>4
    <3>6. /\ old \in Seq(Elements) /\ Len(old) = Len(elements)
          /\ DOMAIN old = DOMAIN elements
          /\ old[l].next = id /\ old[l].ts = d
          /\ \A j \in DOMAIN elements :
                 /\ old[j].id = elements[j].id /\ old[j].val = elements[j].val
                 /\ j # l => old[j] = elements[j]
      <4>1. elements \in Seq(Elements) /\ old = Linked(elements, l, id, d)
        BY <1>3, <1>5, <2>2, <3>3, <3>5
      <4>2. l \in DOMAIN elements
        BY <3>1
      <4>3. ASSUME NEW els \in Seq(Elements), NEW i \in DOMAIN els,
                   NEW o, o = Linked(els, i, id, d)
            PROVE  /\ o \in Seq(Elements) /\ Len(o) = Len(els)
                   /\ DOMAIN o = DOMAIN els
                   /\ o[i].next = id /\ o[i].ts = d
                   /\ \A j \in DOMAIN els :
                          /\ o[j].id = els[j].id /\ o[j].val = els[j].val
                          /\ j # i => o[j] = els[j]
        BY <4>3, LinkedFacts
      <4> QED
        BY <4>1, <4>2, <4>3
    <3>7. Len(elements) = l
      BY DEF l
    <3> QED
      <4>1. /\ old \in Seq(Elements) /\ Len(old) = l /\ DOMAIN old = 1 .. l
            /\ \A i \in 1 .. l : /\ old[i].id = elements[i].id
                                 /\ old[i].val = elements[i].val
                                 /\ i # l => old[i] = elements[i]
        BY <1>3, <3>6, <3>7
      <4>2. old[l].next = fresh /\ old[l].ts = clock + 1
        BY <3>3, <3>5, <3>6
      <4>3. n # 0
        BY <1>3
      <4> QED
        BY <3>1, <4>1, <4>2, <4>3
  <2> QED
    BY <1>3, <2>1, <2>2
<1>13. /\ m \in 0 .. n /\ m \in Nat /\ (k = link + n => m = n)
       /\ \A i \in 1 .. k : i > link => i - link \in 1 .. m
  <2>1. CASE k < link
    <3>1. m = 0
      BY <2>1 DEF m
    <3> QED
      BY <1>3, <1>6, <2>1, <3>1
  <2>2. CASE ~ (k < link)
    <3>1. m = k - link
      BY <2>2 DEF m
    <3> QED
      BY <1>3, <1>6, <2>2, <3>1
  <2> QED
    BY <2>1, <2>2
<1>14. /\ part \in Seq(Elements) /\ Len(part) = m /\ DOMAIN part = 1 .. m
       /\ \A i \in 1 .. m : i \in 1 .. n /\ part[i] = new[i]
  <2>1. /\ part \in Seq(Elements) /\ Len(part) = m /\ DOMAIN part = 1 .. m
        /\ \A i \in 1 .. m : part[i] = new[i]
    BY <1>9, <1>13, PrefixFacts DEF part
  <2>2. \A i \in 1 .. m : i \in 1 .. n
    BY <1>3, <1>13
  <2> QED
    BY <2>1, <2>2
<1>15. \A i \in 1 .. l : old[i].next < fresh' /\ old[i].ts <= clock'
  <2> SUFFICES ASSUME NEW i \in 1 .. l
               PROVE  old[i].next < fresh' /\ old[i].ts <= clock'
    OBVIOUS
  <2>1. CASE old[i] = elements[i]
    <3>1. /\ elements[i].next < fresh /\ elements[i].next \in Nat
          /\ elements[i].ts <= clock'
      BY <1>3, <1>8
    <3>2. elements[i].next < fresh'
      BY <1>3, <1>7, <3>1
    <3> QED
      BY <2>1, <3>1, <3>2
  <2>2. CASE old[i] # elements[i]
    <3>1. link = 1 /\ i = l
      BY <1>3, <1>4, <1>12, <2>2
    <3>2. old[i].next = fresh /\ old[i].ts = clock + 1
      BY <1>12, <3>1
    <3>3. fresh < fresh' /\ clock + 1 <= clock'
      BY <1>3, <1>7, <3>1
    <3> QED
      BY <3>2, <3>3
  <2> QED
    BY <2>1, <2>2
<1>16. /\ Distinct(old, fresh', clock')
       /\ \A e, i : i \in 1 .. l /\ Forward(e, i, elements, fresh) /\ e.next \in Nat
                    => Forward(e, i, old, fresh')
  <2>1. Len(old) = Len(elements)
    BY <1>12 DEF l
  <2> QED
    BY <1>3, <1>7, <1>8, <1>12, <1>15, <2>1, SameIds
<1>17. Distinct(part, fresh', clock')
  <2>1. m < fresh'
    BY <1>3, <1>7, <1>13
  <2>2. \A i, j \in 1 .. m : part[i].id = part[j].id => i = j
    BY <1>11, <1>14
  <2> QED
    BY <1>10, <1>14, <2>1, <2>2 DEF Distinct
<1>18. \A i \in 1 .. l, j \in 1 .. n : old[i].id < new[j].id /\ old[i].id # new[j].id
  <2> SUFFICES ASSUME NEW i \in 1 .. l, NEW j \in 1 .. n
               PROVE  old[i].id < new[j].id /\ old[i].id # new[j].id
    OBVIOUS
  <2>1. /\ old[i].id < fresh /\ old[i].id \in Nat
        /\ new[j].id \in Nat /\ new[j].id >= fresh
    BY <1>3, <1>8, <1>10, <1>12
  <2> QED
    BY <1>3, <2>1
<1>19. Distinct(elements', fresh', clock')
  <2>1. Len(old) + Len(part) < fresh'
    BY <1>3, <1>7, <1>12, <1>13, <1>14
  <2>2. \A i \in DOMAIN old, j \in DOMAIN part : old[i].id # part[j].id
    BY <1>12, <1>14, <1>18
  <2> QED
    BY <1>2, <1>7, <1>16, <1>17, <2>1, <2>2, DistinctJoined
<1>20. /\ lead \in Seq(Samples) /\ Len(lead) = link
       /\ link = 1 => lead[1].id = elements[l].id /\ lead[1].el = old[l]
  <2>1. CASE link = 0
    BY <2>1 DEF lead
  <2>2. CASE link = 1
    <3>1. Last(old) = old[l] /\ old[l] \in Elements
      BY <1>3, <1>12, <2>2 DEF Last
    <3>2. PICK e \in Elements : e = Last(old)
      BY <3>1
    <3>3. Live(e) \in Samples /\ Live(e).id = e.id /\ Live(e).el = e
      BY SampleOf
    <3>4. lead = [i \in 1 .. 1 |-> Live(e)]
      BY <2>2, <3>2 DEF lead
    <3>5. lead \in Seq(Samples) /\ Len(lead) = 1 /\ lead[1] = Live(e)
      BY <3>3, <3>4
    <3> QED
      BY <1>12, <2>2, <3>1, <3>2, <3>3, <3>5
  <2> QED
    BY <1>3, <2>1, <2>2
<1>21. /\ rest \in Seq(Samples) /\ Len(rest) = n
       /\ \A i \in 1 .. n : rest[i].id = new[i].id /\ rest[i].el = new[i]
  BY <1>9, LiveSamples DEF rest
<1>22. /\ t \in Seq(Samples) /\ DOMAIN t = 1 .. k
       /\ \A i \in 1 .. k :
              \/ /\ i = 1 /\ link = 1
                 /\ t[i].id = elements[l].id /\ t[i].el = old[l]
              \/ \E j \in 1 .. m : /\ j \in 1 .. n /\ i = link + j
                                   /\ t[i].id = new[j].id /\ t[i].el = new[j]
  <2> DEFINE all == lead \o rest
  <2>1. /\ all \in Seq(Samples) /\ Len(all) = Len(lead) + Len(rest)
        /\ \A i \in 1 .. Len(lead) : all[i] = lead[i]
        /\ \A i \in 1 .. Len(rest) : all[Len(lead) + i] = rest[i]
    <3>1. lead \in Seq(Samples) /\ rest \in Seq(Samples)
      BY <1>20, <1>21
    <3> QED
      BY <3>1, Joined
  <2> HIDE DEF all
  <2>2. Len(all) = link + n /\ Len(lead) = link /\ Len(rest) = n
    BY <1>20, <1>21, <2>1
  <2>3. /\ SubSeq(all, 1, k) \in Seq(Samples) /\ DOMAIN SubSeq(all, 1, k) = 1 .. k
        /\ \A i \in 1 .. k : SubSeq(all, 1, k)[i] = all[i]
    BY <1>6, <2>1, <2>2, PrefixFacts
  <2>4. t \in Seq(Samples) /\ DOMAIN t = 1 .. k /\ \A i \in 1 .. k : t[i] = all[i]
    BY <2>3 DEF all, t
  <2>5. ASSUME NEW i \in 1 .. k
        PROVE  \/ /\ i = 1 /\ link = 1
                  /\ t[i].id = elements[l].id /\ t[i].el = old[l]
               \/ \E j \in 1 .. m : /\ j \in 1 .. n /\ i = link + j
                                    /\ t[i].id = new[j].id /\ t[i].el = new[j]
    <3>1. CASE i <= link
      <4>1. i = 1 /\ link = 1 /\ i \in 1 .. Len(lead)
        BY <1>3, <1>6, <2>2, <3>1
      <4> QED
        BY <1>20, <2>1, <2>4, <4>1
    <3>2. CASE i > link
      <4>1. PICK j \in 1 .. m : i = link + j
        <5>1. i - link \in 1 .. m /\ i = link + (i - link)
          BY <1>3, <1>6, <1>13, <3>2
        <5> QED
          BY <5>1
      <4>2. j \in 1 .. n /\ all[i] = rest[j]
        BY <1>14, <2>1, <2>2, <4>1
      <4> QED
        BY <1>21, <2>4, <4>1, <4>2
    <3> QED
      BY <1>3, <1>6, <3>1, <3>2
  <2> QED
    BY <2>4, <2>5
<1>23. /\ wire' = wire \o t /\ published' = FALSE
       /\ UNCHANGED <<posts, readerVars>>
       /\ events \subseteq events' /\ events' \subseteq Disturbances
       /\ "insert" \notin events' => "insert" \notin events
       /\ events' = {} => events = {} /\ k = link + n
  <2>1. (k = link + n) \in BOOLEAN /\ "append" \in AllOps
    BY DEF AllOps
  <2> QED
    BY <1>2, <2>1, SendsFacts
<1>24. /\ elements' \in Seq(Elements) /\ Len(elements') = l + m
       /\ DOMAIN elements' = 1 .. l + m
       /\ \A i \in 1 .. l : elements'[i] = old[i] /\ i \in DOMAIN elements'
       /\ \A i \in 1 .. m : elements'[l + i] = new[i] /\ l + i \in DOMAIN elements'
  <2>1. /\ old \o part \in Seq(Elements) /\ Len(old \o part) = Len(old) + Len(part)
        /\ DOMAIN (old \o part) = 1 .. Len(old) + Len(part)
        /\ \A i \in 1 .. Len(old) : (old \o part)[i] = old[i]
        /\ \A i \in 1 .. Len(part) : (old \o part)[Len(old) + i] = part[i]
    <3>1. old \in Seq(Elements) /\ part \in Seq(Elements)
      BY <1>12, <1>14
    <3> QED
      BY <3>1, Joined
  <2>2. Len(old) = l /\ Len(part) = m
    BY <1>12, <1>14
  <2>3. /\ \A i \in 1 .. l : i \in 1 .. l + m
        /\ \A i \in 1 .. m : l + i \in 1 .. l + m
    BY <1>3, <1>13
  <2> QED
    BY <1>2, <1>14, <2>1, <2>2, <2>3
<1>25. ASSUME "insert" \notin events' PROVE Ahead(elements', Applied(W, t), fresh')
  <2>1. Ahead(elements, W, fresh) /\ W \in Tables
    BY <1>23, <1>25, Before DEF W
  <2>2. ASSUME NEW i \in 1 .. l PROVE Forward(old[i], i, old, fresh')
    <3>1. CASE old[i] = elements[i]
      <4>1. Forward(elements[i], i, elements, fresh) /\ elements[i].next \in Nat
        BY <1>3, <1>8, <2>1 DEF Ahead
      <4> QED
        BY <1>16, <3>1, <4>1
    <3>2. CASE old[i] # elements[i]
      <4>1. link = 1 /\ i = l /\ old[i].next = fresh
        BY <1>3, <1>4, <1>12, <3>2
      <4>2. \A j \in 1 .. i : j \in 1 .. l /\ old[j].id < fresh /\ old[j].id \in Nat
        BY <1>3, <1>8, <1>12, <4>1
      <4>3. \A j \in 1 .. i : old[i].next # old[j].id
        BY <1>3, <4>1, <4>2
      <4> QED
        BY <1>15, <4>3 DEF Forward
    <3> QED
      BY <3>1, <3>2
  <2>3. ASSUME NEW e, e.next \in Nat, NEW i \in 1 .. l, Forward(e, i, old, fresh')
        PROVE  i \in DOMAIN elements' /\ Forward(e, i, elements', fresh')
    <3>1. fresh' <= fresh'
      BY <1>7
    <3> QED
      BY <1>2, <1>7, <1>12, <1>14, <2>3, <3>1, ForwardFirst
  <2>4. ASSUME NEW j \in 1 .. m
        PROVE  l + j \in DOMAIN elements' /\ Forward(new[j], l + j, elements', fresh')
    <3>1. j \in 1 .. n /\ part[j] = new[j] /\ j \in DOMAIN part /\ j \in Nat
      BY <1>14
    <3>2. /\ new[j].next \in Nat /\ new[j].next < fresh' /\ new[j].id \in Nat
          /\ new[j].next = NIL \/ new[j].next > new[j].id
      BY <1>10, <3>1
    <3>3. \A i \in 1 .. j : /\ i \in 1 .. n /\ i \in 1 .. m /\ i <= j
      BY <1>3, <1>13, <3>1
    <3>4. \A i \in 1 .. j : /\ new[i].id \in Nat /\ new[i].id >= fresh
                            /\ new[i].id <= new[j].id
      BY <1>10, <1>11, <3>1, <3>3
    <3>5. \A i \in 1 .. j : new[j].next # new[i].id
      BY <1>3, <3>2, <3>4 DEF NIL
    <3>6. Forward(new[j], j, part, fresh')
      BY <1>14, <3>1, <3>2, <3>3, <3>5 DEF Forward
    <3>7. \A i \in DOMAIN old : new[j].next # old[i].id
      <4> SUFFICES ASSUME NEW i \in 1 .. l PROVE new[j].next # old[i].id
        BY <1>12
      <4>1. /\ old[i].id # NIL /\ old[i].id \in Nat /\ old[i].id < new[j].id
        BY <1>3, <1>8, <1>12, <1>18, <3>1
      <4> QED
        BY <3>2, <4>1
    <3>8. fresh' <= fresh'
      BY <1>7
    <3>9. /\ Len(old) + j \in DOMAIN (old \o part)
          /\ Forward(new[j], Len(old) + j, old \o part, fresh')
      <4>1. old \in Seq(Elements) /\ part \in Seq(Elements) /\ fresh' \in Nat
        BY <1>7, <1>12, <1>14
      <4> QED
        BY <3>1, <3>2, <3>6, <3>7, <3>8, <4>1, ForwardSecond
    <3> QED
      BY <1>2, <1>12, <3>9
  <2>5. ASSUME NEW i \in DOMAIN elements'
        PROVE  Forward(elements'[i], i, elements', fresh')
    <3>1. CASE i \in DOMAIN old /\ elements'[i] = old[i]
      <4>1. i \in 1 .. l /\ old[i].next \in Nat
        BY <1>12, <3>1, ElementFacts
      <4> QED
        BY <2>2, <2>3, <3>1, <4>1
    <3>2. ASSUME NEW j \in DOMAIN part, i = Len(old) + j, elements'[i] = part[j]
          PROVE  Forward(elements'[i], i, elements', fresh')
      BY <1>12, <1>14, <2>4, <3>2
    <3> QED
      BY <1>2, <1>12, <1>14, <2>5, <3>1, <3>2, JoinedFrom
  <2>6. ASSUME NEW i \in DOMAIN t
        PROVE  \E p \in DOMAIN elements' : Forward(t[i].el, p, elements', fresh')
    <3>1. CASE i = 1 /\ link = 1 /\ t[i].el = old[l]
      <4>1. l \in 1 .. l /\ l \in DOMAIN elements' /\ elements'[l] = old[l]
        BY <1>12, <1>24, <3>1
      <4> QED
        BY <2>5, <3>1, <4>1
    <3>2. ASSUME NEW j \in 1 .. m, t[i].el = new[j]
          PROVE  \E p \in DOMAIN elements' : Forward(t[i].el, p, elements', fresh')
      BY <2>4, <3>2
    <3> QED
      BY <1>22, <3>1, <3>2
  <2>7. ASSUME NEW e \in Elements, NEW i \in DOMAIN elements,
               Forward(e, i, elements, fresh)
        PROVE  \E p \in DOMAIN elements' : Forward(e, p, elements', fresh')
    <3>1. e.next \in Nat /\ i \in 1 .. l
      BY <1>3, LargeListAssumption DEF Elements, Ids, NIL
    <3>2. Forward(e, i, old, fresh')
      BY <1>16, <2>7, <3>1
    <3> QED
      BY <2>3, <3>1, <3>2
  <2> QED
    BY <1>22, <2>1, <2>5, <2>6, <2>7, AheadSent
<1>26. ASSUME events' = {}
       PROVE  /\ Linking(elements') /\ Stored(elements', Applied(W, t))
              /\ Describes(metadata', elements')
  <2>1. /\ Linking(elements) /\ Stored(elements, W)
        /\ k = link + n /\ m = n
    BY <1>13, <1>23, <1>26, Before DEF W
  <2>2. ASSUME NEW i \in 1 .. l
        PROVE  elements'[i].next = IF i = l + n THEN NIL ELSE elements'[i + 1].id
    <3>1. i # l + n
      BY <1>3
    <3>2. CASE i = l
      <4>1. link = 1 /\ old[i].next = fresh
        BY <1>3, <1>12, <3>2
      <4>2. 1 \in 1 .. n /\ fresh + 1 - 1 = fresh
        BY <1>3
      <4>3. elements'[l + 1] = new[1] /\ new[1].id = fresh
        BY <1>9, <1>24, <2>1, <4>2
      <4> QED
        BY <1>24, <3>1, <3>2, <4>1, <4>3
    <3>3. CASE i # l
      <4>1. i + 1 \in 1 .. l
        BY <1>3, <3>3
      <4>2. elements[i].next = elements[i + 1].id
        BY <1>3, <2>1, <3>3 DEF Linking, l
      <4> QED
        BY <1>12, <1>24, <3>1, <3>3, <4>1, <4>2
    <3> QED
      BY <3>2, <3>3
  <2>3. ASSUME NEW j \in 1 .. n
        PROVE  elements'[l + j].next =
                   IF l + j = l + n THEN NIL ELSE elements'[(l + j) + 1].id
    <3>1. elements'[l + j] = new[j]
      BY <1>24, <2>1
    <3>2. CASE j = n
      BY <1>9, <3>1, <3>2
    <3>3. CASE j # n
      <4>1. /\ j + 1 \in 1 .. n /\ l + j # l + n /\ (l + j) + 1 = l + (j + 1)
            /\ fresh + (j + 1) - 1 = fresh + j
        BY <1>3, <3>3
      <4>2. elements'[l + (j + 1)] = new[j + 1] /\ new[j + 1].id = fresh + j
        BY <1>9, <1>24, <2>1, <4>1
      <4>3. new[j].next = fresh + j
        BY <1>9, <3>3
      <4> QED
        BY <3>1, <4>1, <4>2, <4>3
    <3> QED
      BY <3>2, <3>3
  <2>4. Linking(elements')
    <3>1. Len(elements') = l + n /\ DOMAIN elements' = 1 .. l + n
      BY <1>24, <2>1
    <3>2. ASSUME NEW i \in 1 .. l + n
          PROVE  i \in 1 .. l \/ \E j \in 1 .. n : i = l + j
      <4>1. CASE i <= l
        BY <1>3, <4>1
      <4>2. CASE i > l
        <5>1. i - l \in 1 .. n /\ i = l + (i - l)
          BY <1>3, <4>2
        <5> QED
          BY <5>1
      <4> QED
        BY <1>3, <4>1, <4>2
    <3>3. ASSUME NEW i \in 1 .. l + n
          PROVE  elements'[i].next = IF i = l + n THEN NIL ELSE elements'[i + 1].id
      BY <2>2, <2>3, <3>2
    <3> QED
      BY <3>1, <3>3 DEF Linking
  <2>5. \A i \in DOMAIN t : Final(t, i)
    <3>1. ASSUME NEW i \in 1 .. k, NEW j \in 1 .. k, t[i].id = t[j].id PROVE i = j
      <4>1. link = 1 => elements[l].id = old[l].id /\ l \in 1 .. l
        BY <1>3, <1>12
      <4>2. \A p \in 1 .. n : link = 1 => elements[l].id # new[p].id
        BY <1>18, <4>1
      <4>3. \A p, q \in 1 .. n : new[p].id = new[q].id => p = q
        BY <1>11
      <4> QED
        BY <1>22, <3>1, <4>2, <4>3
    <3>2. \A i \in 1 .. k : i \in Nat
      OBVIOUS
    <3> QED
      BY <1>22, <3>1, <3>2, AllFinal
  <2>6. ASSUME NEW p \in DOMAIN elements'
        PROVE  \/ \E i \in DOMAIN t : Final(t, i) /\ t[i].el = elements'[p]
               \/ /\ Untold(t, elements'[p].id)
                  /\ \E i \in DOMAIN elements : elements[i] = elements'[p]
    <3>1. CASE p \in DOMAIN old /\ elements'[p] = old[p]
      <4>1. CASE p = l
        <5>1. link = 1 /\ 1 \in 1 .. k
          BY <1>3, <1>12, <2>1, <3>1, <4>1
        <5>2. t[1].el = old[l]
          <6>1. ~ \E j \in 1 .. m : 1 = link + j
            BY <1>13, <5>1
          <6> QED
            BY <1>22, <5>1, <6>1
        <5> QED
          BY <1>22, <2>5, <3>1, <4>1, <5>1, <5>2
      <4>2. CASE p # l
        <5>1. elements'[p] = elements[p] /\ p \in DOMAIN elements /\ p \in 1 .. l
          BY <1>3, <1>12, <3>1, <4>2
        <5>2. link = 1 => elements[p].id # elements[l].id
          BY <1>3, <1>8, <4>2, <5>1 DEF Distinct
        <5>3. \A j \in 1 .. n : elements[p].id # new[j].id
          BY <1>12, <1>18, <5>1
        <5>4. Untold(t, elements'[p].id)
          BY <1>22, <5>1, <5>2, <5>3 DEF Untold
        <5> QED
          BY <5>1, <5>4
      <4> QED
        BY <4>1, <4>2
    <3>2. ASSUME NEW j \in DOMAIN part, elements'[p] = part[j]
          PROVE  \E i \in DOMAIN t : Final(t, i) /\ t[i].el = elements'[p]
      <4>1. j \in 1 .. n /\ j \in 1 .. m /\ elements'[p] = new[j]
        BY <1>14, <3>2
      <4>2. link + j \in 1 .. k
        BY <1>3, <2>1, <4>1
      <4>3. ~ (link + j = 1 /\ link = 1)
        BY <1>3, <4>1
      <4>4. PICK q \in 1 .. m : link + j = link + q /\ t[link + j].el = new[q]
        BY <1>22, <4>2, <4>3
      <4>5. q = j
        BY <1>3, <1>13, <4>1, <4>4
      <4> QED
        BY <1>22, <2>5, <4>1, <4>2, <4>4, <4>5
    <3> QED
      BY <1>2, <1>12, <1>14, <2>6, <3>1, <3>2, JoinedFrom
  <2>7. Stored(elements', Applied(W, t))
    BY <1>22, <1>24, <2>1, <2>6, StoredSent
  <2>8. Describes(metadata', elements')
    BY <1>2, <1>19, <2>1 DEF Describes, Described, Distinct
  <2> QED
    BY <2>4, <2>7, <2>8
<1>27. \A i \in DOMAIN t : t[i].el = Absent \/ t[i].el.ts > clock
  <2>1. link = 1 => old[l].ts > clock
    BY <1>3, <1>12
  <2> QED
    BY <1>10, <1>22, <2>1
<1>28. \/ metadata' = metadata
       \/ \E ts \in {Never, clock'} : metadata' = Described(elements', ts)
  BY <1>2
<1> QED
  BY <1>7, <1>19, <1>22, <1>23, <1>25, <1>26, <1>27, <1>28, WriteStep DEF W

\* Elements made of the parts of a list with new ones in between.
LEMMA DistinctInserted ==
    ASSUME NEW old, NEW new, NEW g \in Nat, NEW d, Distinct(old, g, d),
           Distinct(new, g, d),
           \A i \in DOMAIN old, j \in DOMAIN new : old[i].id # new[j].id,
           Len(old) + Len(new) < g, NEW at \in 0 .. Len(old)
    PROVE  Distinct(SubSeq(old, 1, at) \o new \o SubSeq(old, at + 1, Len(old)), g, d)
<1> DEFINE a == SubSeq(old, 1, at)
           b == SubSeq(old, at + 1, Len(old))
<1>1. /\ old \in Seq(Elements) /\ new \in Seq(Elements)
      /\ Len(old) \in Nat /\ Len(new) \in Nat /\ DOMAIN old = 1 .. Len(old)
      /\ \A i, j \in DOMAIN old : old[i].id = old[j].id => i = j
      /\ \A i \in DOMAIN old : old[i].id < g /\ old[i].next < g /\ old[i].ts <= d
  BY DEF Distinct
<1>2. /\ a \in Seq(Elements) /\ Len(a) = at /\ DOMAIN a = 1 .. at
      /\ \A i \in 1 .. at : a[i] = old[i]
  BY <1>1, PrefixFacts
<1>3. /\ b \in Seq(Elements) /\ Len(b) = Len(old) - at
      /\ DOMAIN b = 1 .. Len(old) - at
      /\ \A i \in 1 .. Len(old) - at : b[i] = old[at + i]
  <2>1. CASE at = 0
    <3>1. b = old
      BY <1>1, <2>1
    <3> QED
      BY <1>1, <2>1, <3>1
  <2>2. CASE at # 0
    <3>1. at \in 1 .. Len(old)
      BY <1>1, <2>2
    <3> QED
      BY <1>1, <3>1, RestOf
  <2> QED
    BY <2>1, <2>2
<1> HIDE DEF a, b
<1>4. /\ \A i \in 1 .. at : i \in DOMAIN old
      /\ \A i \in 1 .. Len(old) - at : at + i \in DOMAIN old
      /\ at \in Nat /\ at < g /\ Len(old) - at < g
  BY <1>1
<1>5. Distinct(a, g, d)
  BY <1>1, <1>2, <1>4 DEF Distinct
<1>6. Distinct(b, g, d)
  <2>1. ASSUME NEW i \in DOMAIN b, NEW j \in DOMAIN b, b[i].id = b[j].id
        PROVE  i = j
    <3>1. at + i = at + j
      <4>1. /\ at + i \in DOMAIN old /\ at + j \in DOMAIN old
            /\ b[i] = old[at + i] /\ b[j] = old[at + j]
        BY <1>3, <1>4
      <4> QED
        BY <1>1, <2>1, <4>1
    <3> QED
      BY <1>1, <1>3, <1>4, <3>1
  <2>2. \A i \in DOMAIN b : b[i].id < g /\ b[i].next < g /\ b[i].ts <= d
    BY <1>1, <1>3, <1>4
  <2> QED
    BY <1>3, <1>4, <2>1, <2>2 DEF Distinct
<1>7. Distinct(a \o new, g, d)
  <2>1. \A i \in DOMAIN a, j \in DOMAIN new : a[i].id # new[j].id
    BY <1>2, <1>4
  <2>2. Len(a) + Len(new) < g
    BY <1>1, <1>2
  <2> QED
    BY <1>5, <2>1, <2>2, DistinctJoined
<1>8. Distinct((a \o new) \o b, g, d)
  <2>1. ASSUME NEW i \in DOMAIN (a \o new), NEW j \in DOMAIN b
        PROVE  (a \o new)[i].id # b[j].id
    <3>1. b[j] = old[at + j] /\ at + j \in DOMAIN old /\ j \in Nat /\ j >= 1
      BY <1>3, <1>4
    <3>2. CASE i \in DOMAIN a /\ (a \o new)[i] = a[i]
      <4>1. i \in 1 .. at /\ i \in DOMAIN old /\ a[i] = old[i] /\ i # at + j
        BY <1>2, <1>4, <3>1, <3>2
      <4> QED
        BY <1>1, <3>1, <3>2, <4>1
    <3>3. ASSUME NEW p \in DOMAIN new, (a \o new)[i] = new[p]
          PROVE  (a \o new)[i].id # b[j].id
      BY <3>1, <3>3
    <3> QED
      BY <1>1, <1>2, <3>2, <3>3, JoinedFrom
  <2>2. Len(a \o new) + Len(b) < g
    <3>1. Len(a \o new) = Len(a) + Len(new)
      <4>1. a \in Seq(Elements) /\ new \in Seq(Elements)
        BY <1>1, <1>2
      <4> QED
        BY <4>1, Joined
    <3> QED
      BY <1>1, <1>2, <1>3, <3>1
  <2> QED
    BY <1>6, <1>7, <2>1, <2>2, DistinctJoined
<1> QED
  BY <1>8 DEF a, b

\* What insert() sends is not what it keeps; the ids stay distinct.
LEMMA InsertStep ==
    ASSUME IInv, NEW vs \in Seq(Values), vs # <<>>,
           NEW pos \in 1 .. Len(elements) - 1, Insert(vs, pos)
    PROVE  IInv'
<1> DEFINE n    == Len(vs)
           l    == Len(elements)
           tail == elements[pos + 1].id
           new  == Chain(vs, tail, clock + 2)
           old  == Linked(elements, pos, fresh, clock + 1)
           lead == <<Live(old[pos])>>
           rest == [i \in 1 .. n |-> Live(new[i])]
           at   == IF n = 1 THEN pos - 1 ELSE pos
           made == SubSeq(old, 1, at) \o Reverse(new) \o SubSeq(old, at + 1, Len(old))
           W    == Applied(table, wire)
<1>1. PICK k \in Through(1 + n) :
          /\ Allocates(n, 1 + n)
          /\ IF k = 1 + n
             THEN /\ elements' = made
                  /\ metadata' = Described(elements', clock')
             ELSE /\ elements' = old
                  /\ UNCHANGED metadata
          /\ Sends("insert", SubSeq(lead \o rest, 1, k), k = 1 + n)
  BY DEF Insert
<1> DEFINE t == SubSeq(lead \o rest, 1, k)
<1>2. /\ elements' = made \/ elements' = old
      /\ metadata' = metadata \/ metadata' = Described(elements', clock')
      /\ Allocates(n, 1 + n) /\ Sends("insert", t, k = 1 + n)
  BY <1>1
<1>3. /\ elements \in Seq(Elements) /\ DOMAIN elements = 1 .. l
      /\ l \in Nat /\ l < fresh
      /\ fresh \in Nat /\ fresh >= 1 /\ clock \in Nat /\ MaxIds \in Nat
      /\ MaxTime \in Nat /\ n \in Nat /\ n >= 1
  BY Before
<1>4. /\ pos \in Nat /\ pos \in 1 .. l /\ pos + 1 \in 1 .. l /\ pos \in DOMAIN elements
      /\ pos + 1 \in DOMAIN elements /\ pos - 1 \in 0 .. l /\ pos \in 0 .. l
  <2> HIDE DEF l
  <2>1. pos \in 1 .. l - 1
    BY DEF l
  <2> QED
    BY <1>3, <2>1
<1>5. k \in 0 .. 1 + n
  <2>1. 1 + n \in Nat
    BY <1>3
  <2> QED
    BY <1>1, <2>1, ThroughFacts
<1>6. at \in 0 .. l
  BY <1>4
<1> HIDE DEF n, l, old, t, lead, rest, W, at, made, new
<1>7. /\ fresh + n <= MaxIds + 1 /\ clock + (1 + n) <= MaxTime
      /\ fresh' = fresh + n /\ clock' = clock + (1 + n)
      /\ fresh' \in 1 .. MaxIds + 1 /\ clock' \in Times /\ clock <= clock'
      /\ fresh' \in Nat /\ clock' \in Nat /\ fresh <= fresh'
  <2>1. fresh + n <= MaxIds + 1 /\ clock + (1 + n) <= MaxTime
    BY <1>2 DEF Allocates
  <2>2. 1 + n \in Nat
    BY <1>3
  <2>3. /\ fresh' = fresh + n /\ clock' = clock + (1 + n)
        /\ fresh' \in 1 .. MaxIds + 1 /\ clock' \in Times /\ clock <= clock'
        /\ fresh' \in Nat /\ clock' \in Nat
    BY <1>2, <1>3, <2>2, AllocatesFacts
  <2> QED
    BY <1>3, <2>1, <2>3
<1>8. /\ Distinct(elements, fresh', clock') /\ Distinct(elements, fresh, clock)
      /\ \A i \in DOMAIN elements :
             /\ elements[i].id < fresh /\ elements[i].next < fresh
             /\ elements[i].id \in Nat /\ elements[i].next \in Nat
             /\ elements[i].id # NIL /\ elements[i].id \in Ids
             /\ elements[i].ts <= clock'
  BY <1>7, <1>3, OldDistinct
<1>9. tail \in Ids \cup {NIL} /\ tail \in Nat /\ tail < fresh
  BY <1>4, <1>8
<1> HIDE DEF tail
<1>10. /\ new \in Seq(Elements) /\ Len(new) = n /\ DOMAIN new = 1 .. n
       /\ \A i \in 1 .. n :
              /\ new[i].id = fresh + i - 1
              /\ new[i].next = IF i = n THEN tail ELSE fresh + i
              /\ new[i].ts = (clock + 2) + i - 1
  <2>1. clock + 2 \in Nat /\ (clock + 2) + n <= MaxTime + 1 /\ Len(vs) = n
    BY <1>3, <1>7 DEF n
  <2>2. PICK d \in Nat : d = clock + 2
    BY <2>1
  <2>3. IsChain(new, vs, tail, d)
    <3>1. /\ new = Chain(vs, tail, d) /\ d + Len(vs) <= MaxTime + 1
          /\ fresh + Len(vs) <= MaxIds + 1
      BY <1>7, <2>1, <2>2 DEF new
    <3> QED
      BY <1>9, <3>1, ChainFacts, Zenon
  <2> QED
    BY <2>1, <2>2, <2>3 DEF IsChain
<1>11. \A i \in 1 .. n :
           /\ new[i].id \in Nat /\ new[i].id >= fresh /\ new[i].id < fresh'
           /\ new[i].ts > clock /\ new[i].ts <= clock'
           /\ new[i].next < fresh'
  <2>1. ASSUME NEW i \in 1 .. n
        PROVE  /\ new[i].id \in Nat /\ new[i].id >= fresh /\ new[i].id < fresh'
               /\ new[i].ts > clock /\ new[i].ts <= clock'
    <3>1. new[i].id = fresh + i - 1 /\ new[i].ts = (clock + 2) + i - 1
      BY <1>10
    <3> QED
      BY <1>3, <1>7, <3>1
  <2>2. ASSUME NEW i \in 1 .. n PROVE new[i].next < fresh'
    <3>1. CASE i = n
      <4>1. new[i].next = tail
        BY <1>10, <3>1
      <4> QED
        BY <1>3, <1>7, <1>9, <4>1
    <3>2. CASE i # n
      <4>1. new[i].next = fresh + i
        BY <1>10, <3>2
      <4> QED
        BY <1>3, <1>7, <3>2, <4>1
    <3> QED
      BY <3>1, <3>2
  <2> QED
    BY <2>1, <2>2
<1>12. \A i, j \in 1 .. n : new[i].id = new[j].id => i = j
  <2> SUFFICES ASSUME NEW i \in 1 .. n, NEW j \in 1 .. n
               PROVE  new[i].id = new[j].id => i = j
    OBVIOUS
  <2>1. new[i].id = fresh + i - 1 /\ new[j].id = fresh + j - 1
    BY <1>10
  <2> QED
    BY <1>3, <2>1
<1>13. /\ old \in Seq(Elements) /\ Len(old) = l /\ DOMAIN old = 1 .. l
       /\ \A i \in 1 .. l : /\ old[i].id = elements[i].id
                            /\ i # pos => old[i] = elements[i]
       /\ old[pos].next = fresh /\ old[pos].ts = clock + 1
  <2>1. clock + 1 \in Times /\ fresh \in Ids \cup {NIL}
    BY <1>3, <1>7 DEF Times, Ids
  <2>2. PICK d \in Times : d = clock + 1
    BY <2>1
  <2>3. PICK id \in Ids \cup {NIL} : id = fresh
    BY <2>1
  <2>4. old = Linked(elements, pos, id, d)
    BY <2>2, <2>3 DEF old
  <2>5. /\ old \in Seq(Elements) /\ Len(old) = Len(elements)
        /\ DOMAIN old = DOMAIN elements
        /\ old[pos].next = id /\ old[pos].ts = d
        /\ \A j \in DOMAIN elements :
               /\ old[j].id = elements[j].id
               /\ j # pos => old[j] = elements[j]
    <3>1. ASSUME NEW els \in Seq(Elements), NEW i \in DOMAIN els,
                 NEW o, o = Linked(els, i, id, d)
          PROVE  /\ o \in Seq(Elements) /\ Len(o) = Len(els)
                 /\ DOMAIN o = DOMAIN els
                 /\ o[i].next = id /\ o[i].ts = d
                 /\ \A j \in DOMAIN els :
                        o[j].id = els[j].id /\ (j # i => o[j] = els[j])
      BY <3>1, LinkedFacts
    <3> QED
      BY <1>3, <1>4, <2>4, <3>1
  <2> QED
    BY <1>3, <2>2, <2>3, <2>5 DEF l
<1>14. \A i \in 1 .. l : old[i].next < fresh' /\ old[i].ts <= clock'
  <2> SUFFICES ASSUME NEW i \in 1 .. l
               PROVE  old[i].next < fresh' /\ old[i].ts <= clock'
    OBVIOUS
  <2>1. CASE i # pos
    <3>1. /\ elements[i].next < fresh /\ elements[i].next \in Nat
          /\ elements[i].ts <= clock' /\ old[i] = elements[i]
      BY <1>3, <1>8, <1>13, <2>1
    <3> QED
      BY <1>3, <1>7, <3>1
  <2>2. CASE i = pos
    <3>1. fresh < fresh' /\ clock + 1 <= clock'
      BY <1>3, <1>7
    <3> QED
      BY <1>13, <2>2, <3>1
  <2> QED
    BY <2>1, <2>2
<1>15. Distinct(old, fresh', clock')
  <2>1. /\ Distinct(elements, fresh, clock) /\ fresh \in Nat /\ fresh' \in Nat
        /\ fresh <= fresh' /\ old \in Seq(Elements) /\ Len(old) = Len(elements)
        /\ \A i \in DOMAIN elements :
               /\ old[i].id = elements[i].id
               /\ old[i].next < fresh' /\ old[i].ts <= clock'
    BY <1>3, <1>7, <1>8, <1>13, <1>14 DEF l
  <2> QED
    BY <2>1, SameIds
<1>16. Distinct(Reverse(new), fresh', clock') /\ Len(Reverse(new)) = n
       /\ \A i \in DOMAIN Reverse(new) : Reverse(new)[i].id >= fresh
                                         /\ Reverse(new)[i].id \in Nat
  <2> DEFINE r == Reverse(new)
  <2>1. /\ r \in Seq(Elements) /\ Len(r) = n /\ DOMAIN r = 1 .. n
        /\ \A i \in 1 .. n : n - i + 1 \in 1 .. n /\ r[i] = new[n - i + 1]
    BY <1>10, ReversedFacts
  <2> HIDE DEF r
  <2>2. ASSUME NEW i \in 1 .. n, NEW j \in 1 .. n, r[i].id = r[j].id PROVE i = j
    <3>1. PICK p \in 1 .. n : p = n - i + 1 /\ r[i] = new[p]
      BY <2>1
    <3>2. PICK q \in 1 .. n : q = n - j + 1 /\ r[j] = new[q]
      BY <2>1
    <3>3. p = q
      BY <1>12, <2>2, <3>1, <3>2
    <3> QED
      BY <1>3, <3>1, <3>2, <3>3
  <2>3. n < fresh'
    BY <1>3, <1>7
  <2>4. \A i \in 1 .. n : /\ r[i].id < fresh' /\ r[i].next < fresh'
                          /\ r[i].ts <= clock' /\ r[i].id >= fresh /\ r[i].id \in Nat
    BY <1>11, <2>1
  <2>5. Distinct(r, fresh', clock')
    BY <2>1, <2>2, <2>3, <2>4 DEF Distinct
  <2> QED
    BY <2>1, <2>4, <2>5 DEF r
<1>17. Distinct(elements', fresh', clock')
  <2>1. ASSUME NEW i \in DOMAIN old, NEW j \in DOMAIN Reverse(new)
        PROVE  old[i].id # Reverse(new)[j].id
    <3>1. old[i].id < fresh /\ old[i].id \in Nat
      BY <1>3, <1>8, <1>13
    <3>2. Reverse(new)[j].id >= fresh /\ Reverse(new)[j].id \in Nat
      BY <1>16
    <3> QED
      BY <1>3, <3>1, <3>2
  <2>2. Len(old) + Len(Reverse(new)) < fresh' /\ at \in 0 .. Len(old)
    BY <1>3, <1>6, <1>7, <1>13, <1>16
  <2>3. Distinct(made, fresh', clock')
    BY <1>7, <1>15, <1>16, <2>1, <2>2, DistinctInserted DEF made
  <2> QED
    BY <1>2, <1>15, <2>3
<1>18. /\ lead \in Seq(Samples) /\ Len(lead) = 1 /\ lead[1].el = old[pos]
       /\ rest \in Seq(Samples) /\ Len(rest) = n
       /\ \A i \in 1 .. n : rest[i].el = new[i]
  <2>1. PICK e \in Elements : e = old[pos]
    BY <1>4, <1>13
  <2>2. Live(e) \in Samples /\ Live(e).el = e
    BY SampleOf
  <2>3. lead \in Seq(Samples) /\ Len(lead) = 1 /\ lead[1].el = old[pos]
    BY <2>1, <2>2 DEF lead
  <2>4. /\ rest \in Seq(Samples) /\ Len(rest) = n
        /\ \A i \in 1 .. n : rest[i].el = new[i]
    BY <1>10, LiveSamples DEF rest
  <2> QED
    BY <2>3, <2>4
<1>19. /\ t \in Seq(Samples) /\ DOMAIN t = 1 .. k
       /\ \A i \in 1 .. k : t[i].el.ts > clock
  <2> DEFINE all == lead \o rest
  <2>1. /\ all \in Seq(Samples) /\ Len(all) = Len(lead) + Len(rest)
        /\ \A i \in 1 .. Len(lead) : all[i] = lead[i]
        /\ \A i \in 1 .. Len(rest) : all[Len(lead) + i] = rest[i]
    <3>1. lead \in Seq(Samples) /\ rest \in Seq(Samples)
      BY <1>18
    <3> QED
      BY <3>1, Joined
  <2> HIDE DEF all
  <2>2. Len(all) = 1 + n
    BY <1>18, <2>1
  <2>3. /\ SubSeq(all, 1, k) \in Seq(Samples) /\ DOMAIN SubSeq(all, 1, k) = 1 .. k
        /\ \A i \in 1 .. k : SubSeq(all, 1, k)[i] = all[i]
    BY <1>5, <2>1, <2>2, PrefixFacts
  <2>4. t \in Seq(Samples) /\ DOMAIN t = 1 .. k /\ \A i \in 1 .. k : t[i] = all[i]
    BY <2>3 DEF all, t
  <2>5. ASSUME NEW i \in 1 .. k PROVE t[i].el.ts > clock
    <3>1. CASE i = 1
      <4>1. t[i].el = old[pos]
        BY <1>18, <2>1, <2>4, <3>1
      <4> QED
        BY <1>3, <1>13, <4>1
    <3>2. CASE i # 1
      <4>1. PICK j \in 1 .. n : i = 1 + j
        <5>1. i - 1 \in 1 .. n /\ i = 1 + (i - 1)
          BY <1>3, <1>5, <3>2
        <5> QED
          BY <5>1
      <4>2. t[i].el = new[j]
        BY <1>18, <2>1, <2>4, <4>1
      <4> QED
        BY <1>11, <4>2
    <3> QED
      BY <3>1, <3>2
  <2> QED
    BY <2>4, <2>5
<1>20. /\ wire' = wire \o t /\ published' = FALSE
       /\ UNCHANGED <<posts, readerVars>>
       /\ events \subseteq events' /\ events' \subseteq Disturbances
       /\ "insert" \in events' /\ events' # {}
  <2>1. (k = 1 + n) \in BOOLEAN /\ "insert" \in AllOps
    BY DEF AllOps
  <2>2. "insert" \in events'
    BY <1>2 DEF Sends, Disturbances
  <2> QED
    BY <1>2, <2>1, <2>2, SendsFacts
<1>21. \/ metadata' = metadata
       \/ \E ts \in {Never, clock'} : metadata' = Described(elements', ts)
  BY <1>2
<1>22. \A i \in DOMAIN t : t[i].el = Absent \/ t[i].el.ts > clock
  BY <1>19
<1> QED
  BY <1>7, <1>17, <1>19, <1>20, <1>21, <1>22, WriteStep
-----------------------------------------------------------------------------
(* Publishing.                                                             *)

LEMMA PublishStep ==
    ASSUME IInv, Publish
    PROVE  IInv'
<1> DEFINE p == [described |-> metadata, behind |-> Len(wire)]
<1>1. /\ Types /\ StampsFit /\ BusFits /\ Len(posts) < MaxPosts
      /\ posts' = Append(posts, p) /\ published' = TRUE
      /\ UNCHANGED <<elements, metadata, fresh, clock>>
      /\ UNCHANGED <<wire, table, latest, cache, events>>
  BY DEF IInv, Publish, writerVars, readerVars
<1>2. /\ p \in Posted /\ p.described = metadata /\ p.behind = Len(wire)
      /\ Len(wire) \in Nat
  BY <1>1 DEF Types, Posted
<1>3. posts \in Seq(Posted)
  BY <1>1 DEF Types
<1> HIDE DEF p
<1>4. /\ posts' \in Seq(Posted) /\ Len(posts') = Len(posts) + 1
      /\ Len(posts) \in Nat
      /\ posts'[Len(posts')] = p /\ \A i \in DOMAIN posts : posts'[i] = posts[i]
      /\ \A i \in DOMAIN posts' : i # Len(posts') => i \in DOMAIN posts
      /\ posts' # <<>> /\ Len(posts') <= MaxPosts
  BY <1>1, <1>2, <1>3, LargeListAssumption
<1>5. Types'
  BY <1>1, <1>4 DEF Types
<1>6. BusFits'
  <2>1. ASSUME NEW i \in DOMAIN posts' PROVE posts'[i].behind <= Len(wire)
    <3>1. CASE i = Len(posts')
      BY <1>2, <1>4, <3>1
    <3>2. CASE i # Len(posts')
      BY <1>1, <1>4, <3>2 DEF BusFits
    <3> QED
      BY <3>1, <3>2
  <2>2. ASSUME "insert" \notin events, NEW i \in DOMAIN posts'
        PROVE  Snapshot(table, wire, posts'[i].described, posts'[i].behind)
    <3>1. CASE i = Len(posts')
      <4>1. Snapshot(table, wire, metadata, Len(wire))
        BY <1>1, <2>2 DEF BusFits
      <4> QED
        BY <1>2, <1>4, <3>1, <4>1
    <3>2. CASE i # Len(posts')
      BY <1>1, <1>4, <2>2, <3>2 DEF BusFits
    <3> QED
      BY <3>1, <3>2
  <2> QED
    BY <1>1, <2>1, <2>2 DEF BusFits
<1>7. StampsFit'
  <2>1. /\ metadata.ts \in Nat /\ latest.ts <= clock /\ metadata.ts <= clock
        /\ metadata.ts # Never => latest.ts <= metadata.ts
        /\ metadata.ts <= metadata.ts
    BY <1>1, DescriptionFacts DEF Types, StampsFit
  <2>2. ASSUME NEW i \in DOMAIN posts'
        PROVE  /\ posts'[i].described.ts <= clock
               /\ metadata.ts # Never => posts'[i].described.ts <= metadata.ts
               /\ posts'[i].described.ts # Never =>
                      /\ latest.ts <= posts'[i].described.ts
                      /\ \A j \in 1 .. i - 1 :
                             posts'[j].described.ts <= posts'[i].described.ts
    <3>1. CASE i = Len(posts')
      <4>1. \A j \in 1 .. i - 1 : j \in DOMAIN posts /\ posts'[j] = posts[j]
        BY <1>3, <1>4, <3>1
      <4>2. \A j \in DOMAIN posts :
                metadata.ts # Never => posts[j].described.ts <= metadata.ts
        BY <1>1 DEF StampsFit
      <4> QED
        BY <1>2, <1>4, <2>1, <3>1, <4>1, <4>2
    <3>2. CASE i # Len(posts')
      <4>1. i \in DOMAIN posts /\ posts'[i] = posts[i]
        BY <1>4, <3>2
      <4>2. \A j \in 1 .. i - 1 : j \in DOMAIN posts /\ posts'[j] = posts[j]
        BY <1>3, <1>4, <4>1
      <4> QED
        BY <1>1, <4>1, <4>2 DEF StampsFit
    <3> QED
      BY <3>1, <3>2
  <2> QED
    BY <1>1, <2>1, <2>2 DEF StampsFit
<1>8. Current'
  BY <1>1, <1>4 DEF Current, p
<1>9. Distinct(elements', fresh', clock') /\ SnapshotRead' /\ Undisturbed'
  BY <1>1 DEF IInv, SnapshotRead, Undisturbed
<1> QED
  BY <1>5, <1>6, <1>7, <1>8, <1>9 DEF IInv

-----------------------------------------------------------------------------
(* The reader.                                                             *)

Left(b, k) == IF b > k THEN b - k ELSE 0

LEMMA NearerFacts ==
    ASSUME NEW seq \in Seq(Posted), NEW k \in Nat
    PROVE  /\ Nearer(seq, k) \in Seq(Posted) /\ Len(Nearer(seq, k)) = Len(seq)
           /\ DOMAIN Nearer(seq, k) = DOMAIN seq
           /\ \A i \in DOMAIN seq :
                  Nearer(seq, k)[i] = [described |-> seq[i].described,
                                       behind |-> Left(seq[i].behind, k)]
<1>1. ASSUME NEW p \in Posted
      PROVE  /\ [p EXCEPT !.behind = IF @ > k THEN @ - k ELSE 0] =
                    [described |-> p.described, behind |-> Left(p.behind, k)]
             /\ [described |-> p.described, behind |-> Left(p.behind, k)] \in Posted
  BY DEF Posted, Left
<1>2. \A i \in DOMAIN seq : seq[i] \in Posted
  OBVIOUS
<1>3. \A i \in DOMAIN seq :
          /\ Nearer(seq, k)[i] =
                 [described |-> seq[i].described, behind |-> Left(seq[i].behind, k)]
          /\ Nearer(seq, k)[i] \in Posted
  BY <1>1, <1>2 DEF Nearer
<1>4. /\ DOMAIN Nearer(seq, k) = 1 .. Len(seq)
      /\ Nearer(seq, k) = [i \in 1 .. Len(seq) |-> Nearer(seq, k)[i]]
  BY DEF Nearer
<1>5. Nearer(seq, k) \in Seq(Posted)
  <2>1. \A i \in 1 .. Len(seq) : Nearer(seq, k)[i] \in Posted
    <3>1. DOMAIN seq = 1 .. Len(seq)
      OBVIOUS
    <3> QED
      BY <1>3, <3>1
  <2>2. Nearer(seq, k) \in [1 .. Len(seq) -> Posted]
    BY <1>4, <2>1, Zenon
  <2>3. Len(seq) \in Nat
    OBVIOUS
  <2> QED
    BY <2>2, <2>3
<1>6. Len(Nearer(seq, k)) = Len(seq)
  BY <1>4, <1>5
<1>7. DOMAIN Nearer(seq, k) = DOMAIN seq
  BY DEF Nearer
<1> QED
  BY <1>3, <1>5, <1>6, <1>7

\* The reader drains k samples: what it will have in the end is the same.
LEMMA DrainedBus ==
    ASSUME Types, NEW k \in 0 .. Len(wire),
           table' = Applied(table, SubSeq(wire, 1, k)),
           wire' = SubSeq(wire, k + 1, Len(wire))
    PROVE  /\ table' \in Tables /\ wire' \in Seq(Samples)
           /\ Len(wire') = Len(wire) - k
           /\ Applied(table', wire') = Applied(table, wire)
           /\ \A m, b : b \in Nat /\ Snapshot(table, wire, m, b) =>
                  Snapshot(table', wire', m, Left(b, k))
<1>1. /\ table \in Tables /\ wire \in Seq(Samples)
      /\ SubSeq(wire, 1, k) \in Seq(Samples)
      /\ SubSeq(wire, k + 1, Len(wire)) \in Seq(Samples)
      /\ Len(SubSeq(wire, k + 1, Len(wire))) = Len(wire) - k
  BY RestType DEF Types
<1>2. wire = SubSeq(wire, 1, k) \o SubSeq(wire, k + 1, Len(wire))
  <2>1. Len(wire) - k \in 0 .. Len(wire) - k /\ k + (Len(wire) - k) = Len(wire)
    BY <1>1
  <2>2. SubSeq(wire, 1, Len(wire)) =
            SubSeq(wire, 1, k)
                \o SubSeq(SubSeq(wire, k + 1, Len(wire)), 1, Len(wire) - k)
    BY <1>1, <2>1, PrefixOfRest
  <2>3. SubSeq(SubSeq(wire, k + 1, Len(wire)), 1, Len(wire) - k) =
            SubSeq(wire, k + 1, Len(wire))
    <3> DEFINE rest == SubSeq(wire, k + 1, Len(wire))
    <3>1. rest \in Seq(Samples) /\ Len(rest) = Len(wire) - k
      BY <1>1
    <3> HIDE DEF rest
    <3>2. SubSeq(rest, 1, Len(rest)) = rest
      BY <3>1, WholePrefix
    <3> QED
      BY <3>1, <3>2 DEF rest
  <2> QED
    BY <1>1, <2>2, <2>3, WholePrefix
<1>3. Applied(table', wire') = Applied(table, wire)
  <2> DEFINE first == SubSeq(wire, 1, k)
             rest  == SubSeq(wire, k + 1, Len(wire))
  <2>1. /\ first \in Seq(Samples) /\ rest \in Seq(Samples) /\ wire = first \o rest
        /\ table' = Applied(table, first) /\ wire' = rest
    BY <1>1, <1>2
  <2> HIDE DEF first, rest
  <2>2. Applied(table, first \o rest) = Applied(Applied(table, first), rest)
    BY <2>1, AppliedTwice
  <2> QED
    BY <2>1, <2>2
<1>4. table' \in Tables
  BY <1>1, AppliedType
<1>5. ASSUME NEW m, NEW b \in Nat, Snapshot(table, wire, m, b)
      PROVE  Snapshot(table', wire', m, Left(b, k))
  <2> SUFFICES ASSUME m.ts # Never
               PROVE  \E ids \in [1 .. m.size -> Ids] :
                          Chart(ids, m) /\ FitsFrom(table', wire', m, ids, Left(b, k))
    BY DEF Snapshot
  <2>1. PICK ids \in [1 .. m.size -> Ids] :
            Chart(ids, m) /\ FitsFrom(table, wire, m, ids, b)
    BY <1>5 DEF Snapshot
  <2>2. FitsFrom(table', wire', m, ids, Left(b, k))
    BY <1>1, <2>1, FitsDrained DEF Left
  <2> QED
    BY <2>1, <2>2
<1> QED
  BY <1>1, <1>3, <1>4, <1>5

\* What the draining leaves of the bus fits the metadata left.
LEMMA DrainedPosts ==
    ASSUME Types, BusFits, NEW k \in 0 .. Len(wire), NEW seq \in Seq(Posted),
           posts' = Nearer(seq, k),
           \A i \in DOMAIN seq : \E j \in DOMAIN posts : seq[i] = posts[j],
           Len(wire') = Len(wire) - k,
           Applied(table', wire') = Applied(table, wire),
           \A m, b : b \in Nat /\ Snapshot(table, wire, m, b) =>
               Snapshot(table', wire', m, Left(b, k)),
           UNCHANGED <<elements, metadata, fresh, events>>,
           "insert" \notin events => Snapshot(table', wire', latest', 0)
    PROVE  BusFits'
<1>1. k \in Nat /\ Len(wire) \in Nat /\ Len(wire') \in Nat /\ k <= Len(wire)
  BY DEF Types
<1>2. ASSUME NEW i \in DOMAIN posts'
      PROVE  /\ posts'[i].behind <= Len(wire')
             /\ "insert" \notin events =>
                    Snapshot(table', wire', posts'[i].described, posts'[i].behind)
  <2>1. i \in DOMAIN seq
    BY <1>1, NearerFacts
  <2>2. posts'[i] = [described |-> seq[i].described,
                     behind |-> Left(seq[i].behind, k)]
    BY <1>1, <2>1, NearerFacts
  <2>3. PICK j \in DOMAIN posts : seq[i] = posts[j]
    BY <2>1
  <2>4. /\ posts[j].behind \in Nat /\ posts[j].behind <= Len(wire)
        /\ "insert" \notin events =>
               Snapshot(table, wire, posts[j].described, posts[j].behind)
    BY PostFacts DEF BusFits
  <2>5. Left(posts[j].behind, k) <= Len(wire')
    BY <1>1, <2>4 DEF Left
  <2> QED
    BY <2>2, <2>3, <2>4, <2>5
<1>3. ASSUME "insert" \notin events PROVE Snapshot(table', wire', metadata, Len(wire'))
  <2>1. Snapshot(table, wire, metadata, Len(wire))
    BY <1>3 DEF BusFits
  <2>2. Left(Len(wire), k) = Len(wire')
    BY <1>1 DEF Left
  <2> QED
    BY <1>1, <2>1, <2>2
<1> QED
  BY <1>2, <1>3 DEF BusFits

\* A list the reader generates is the one described, when it is not torn, and
\* the writer's, when the reader has received all there is.
LEMMA GeneratedFits ==
    ASSUME IInv, table' \in Tables, NEW m \in Descriptions, NEW k \in 0 .. Len(wire),
           table' = Applied(table, SubSeq(wire, 1, k)),
           NEW b \in 0 .. k,
           "insert" \notin events => Snapshot(table, wire, m, b)
    PROVE  /\ Generated(table', m) \in [is : BOOLEAN, list : Seq(Values)]
           /\ Generated(table', m).is /\ m.ts # Never /\ "insert" \notin events
                  => Generated(table', m).list = m.list
           /\ events = {} /\ k = Len(wire) /\ m = metadata =>
                  Generated(table', m) =
                      IF elements = <<>> THEN Nothing ELSE Just(Contents(elements))
<1>1. Generated(table', m) \in [is : BOOLEAN, list : Seq(Values)]
  BY GeneratedType
<1>2. ASSUME Generated(table', m).is, m.ts # Never, "insert" \notin events
      PROVE  Generated(table', m).list = m.list
  <2>1. PICK ids \in [1 .. m.size -> Ids] :
            Chart(ids, m) /\ FitsFrom(table, wire, m, ids, b)
    BY <1>2 DEF Snapshot
  <2>2. k \in b .. Len(wire)
    BY DEF IInv, Types
  <2>3. \A id \in Ids : Fits(table'[id], m, ids)
    BY <2>1, <2>2 DEF FitsFrom
  <2> QED
    BY <1>2, <2>1, <2>3, GeneratedSnapshot
<1>3. ASSUME events = {}, k = Len(wire), m = metadata
      PROVE  Generated(table', m) =
                 IF elements = <<>> THEN Nothing ELSE Just(Contents(elements))
  <2>1. table' = Applied(table, wire)
    BY <1>3, WholePrefix DEF IInv, Types
  <2>2. /\ Linking(elements) /\ Stored(elements, table') /\ Describes(m, elements)
    BY <1>3, <2>1, Before
  <2>3. Distinct(elements, fresh, clock) /\ Len(elements) <= MaxIds
    BY Before DEF IInv
  <2> QED
    BY <2>2, <2>3, GeneratedList
<1> QED
  BY <1>1, <1>2, <1>3

LEMMA JustFacts ==
    ASSUME NEW els, NEW c, c = IF els = <<>> THEN Nothing ELSE Just(Contents(els)), c.is
    PROVE  c.list = Contents(els)
  BY DEF Just, Nothing

LEMMA GetListByIdStep ==
    ASSUME IInv, GetListById
    PROVE  IInv'
<1>1. PICK k \in 0 .. Len(wire) : Drains(k) /\ posts' = Nearer(posts, k)
  BY DEF GetListById
<1>2. /\ Types /\ StampsFit /\ BusFits /\ k \in Nat /\ posts \in Seq(Posted)
      /\ wire \in Seq(Samples) /\ latest \in Descriptions
      /\ cache \in [is : BOOLEAN, list : Seq(Values)]
  BY DEF IInv, Types
<1>3. /\ cache' = IF cache.is THEN cache ELSE Generated(table', latest)
      /\ UNCHANGED <<elements, metadata, fresh, clock>>
      /\ UNCHANGED <<published, latest, events>>
      /\ table' = Applied(table, SubSeq(wire, 1, k))
      /\ wire' = SubSeq(wire, k + 1, Len(wire))
  BY <1>1 DEF GetListById, Drains, writerVars
<1>4. /\ table' \in Tables /\ wire' \in Seq(Samples)
      /\ Len(wire') = Len(wire) - k
      /\ Applied(table', wire') = Applied(table, wire)
      /\ \A m, b : b \in Nat /\ Snapshot(table, wire, m, b) =>
             Snapshot(table', wire', m, Left(b, k))
  BY <1>2, <1>3, DrainedBus
<1>5. /\ posts' \in Seq(Posted) /\ Len(posts') = Len(posts)
      /\ DOMAIN posts' = DOMAIN posts
      /\ \A i \in DOMAIN posts :
             posts'[i] = [described |-> posts[i].described,
                          behind |-> Left(posts[i].behind, k)]
  BY <1>1, <1>2, NearerFacts
<1>6. BusFits'
  <2>1. ASSUME "insert" \notin events PROVE Snapshot(table', wire', latest', 0)
    <3>1. Snapshot(table, wire, latest, 0) /\ Left(0, k) = 0
      BY <1>2, <2>1 DEF BusFits, Left
    <3> QED
      BY <1>3, <1>4, <3>1
  <2> QED
    BY <1>1, <1>2, <1>3, <1>4, <2>1, DrainedPosts
<1>7. /\ Generated(table', latest) \in [is : BOOLEAN, list : Seq(Values)]
      /\ Generated(table', latest).is /\ latest.ts # Never /\ "insert" \notin events
             => Generated(table', latest).list = latest.list
      /\ events = {} /\ k = Len(wire) /\ latest = metadata =>
             Generated(table', latest) =
                 IF elements = <<>> THEN Nothing ELSE Just(Contents(elements))
  <2>1. 0 \in 0 .. k /\ ("insert" \notin events => Snapshot(table, wire, latest, 0))
    BY <1>2 DEF BusFits
  <2> QED
    BY <1>2, <1>3, <1>4, <2>1, GeneratedFits
<1>8. Types'
  BY <1>2, <1>3, <1>4, <1>5, <1>7 DEF Types
<1>9. SnapshotRead'
  BY <1>3, <1>7 DEF IInv, SnapshotRead
<1>10. StampsFit'
  <2>1. \A i \in DOMAIN posts : posts'[i].described = posts[i].described
    BY <1>5
  <2>2. \A i \in DOMAIN posts : \A j \in 1 .. i - 1 : j \in DOMAIN posts
    BY <1>2
  <2> QED
    BY <1>2, <1>3, <1>5, <2>1, <2>2 DEF StampsFit
<1>11. Current'
  <2> SUFFICES ASSUME published, events = {}
               PROVE  IF posts' = <<>>
                      THEN /\ wire' = <<>> /\ latest' = metadata'
                           /\ cache'.is => cache'.list = Contents(elements')
                      ELSE posts'[Len(posts')] =
                               [described |-> metadata', behind |-> Len(wire')]
    BY <1>3 DEF Current
  <2>1. CASE posts = <<>>
    <3>1. /\ wire = <<>> /\ latest = metadata
          /\ cache.is => cache.list = Contents(elements)
      BY <2>1 DEF IInv, Current
    <3>2. k = Len(wire) /\ Len(wire') = 0 /\ posts' = <<>>
      BY <1>2, <1>4, <1>5, <2>1, <3>1
    <3>3. cache'.is => cache'.list = Contents(elements)
      BY <1>3, <1>7, <3>1, <3>2, JustFacts
    <3> QED
      BY <1>3, <1>4, <3>1, <3>2, <3>3
  <2>2. CASE posts # <<>>
    <3>1. posts[Len(posts)] = [described |-> metadata, behind |-> Len(wire)]
      BY <2>2 DEF IInv, Current
    <3>2. Len(posts) \in DOMAIN posts /\ posts' # <<>>
      BY <1>2, <1>5, <2>2
    <3>3. posts'[Len(posts')] =
              [described |-> metadata, behind |-> Left(Len(wire), k)]
      BY <1>5, <3>1, <3>2
    <3>4. Left(Len(wire), k) = Len(wire')
      BY <1>2, <1>4 DEF Left
    <3> QED
      BY <1>3, <3>2, <3>3, <3>4
  <2> QED
    BY <2>1, <2>2
<1>12. Distinct(elements', fresh', clock') /\ Undisturbed'
  BY <1>3, <1>4 DEF IInv, Undisturbed
<1> QED
  BY <1>6, <1>8, <1>9, <1>10, <1>11, <1>12 DEF IInv

LEMMA GetListFromMetadataStep ==
    ASSUME Ordered, IInv, GetListFromMetadata
    PROVE  IInv'
<1> DEFINE m == Head(posts).described
<1>1. PICK k \in 0 .. Len(wire) :
          /\ k >= Head(posts).behind
          /\ Drains(k)
          /\ posts' = Nearer(Tail(posts), k)
  BY DEF GetListFromMetadata
<1>2. /\ Types /\ StampsFit /\ BusFits /\ k \in Nat /\ posts \in Seq(Posted)
      /\ wire \in Seq(Samples) /\ posts # <<>>
  BY DEF IInv, Types, GetListFromMetadata
<1>3. /\ IF Accepts(m) THEN latest' = m /\ cache' = Generated(table', m)
         ELSE UNCHANGED <<latest, cache>>
      /\ UNCHANGED <<elements, metadata, fresh, clock>>
      /\ UNCHANGED <<published, events>>
      /\ table' = Applied(table, SubSeq(wire, 1, k))
      /\ wire' = SubSeq(wire, k + 1, Len(wire))
  BY <1>1 DEF GetListFromMetadata, Drains, writerVars
<1>4. /\ table' \in Tables /\ wire' \in Seq(Samples)
      /\ Len(wire') = Len(wire) - k
      /\ Applied(table', wire') = Applied(table, wire)
      /\ \A d, b : b \in Nat /\ Snapshot(table, wire, d, b) =>
             Snapshot(table', wire', d, Left(b, k))
  BY <1>2, <1>3, DrainedBus
<1>5. /\ Tail(posts) \in Seq(Posted) /\ Len(Tail(posts)) = Len(posts) - 1
      /\ Len(posts) \in Nat /\ Len(posts) >= 1
      /\ DOMAIN Tail(posts) = 1 .. Len(posts) - 1
      /\ \A i \in 1 .. Len(posts) - 1 :
             Tail(posts)[i] = posts[i + 1] /\ i + 1 \in DOMAIN posts
      /\ Head(posts) = posts[1] /\ 1 \in DOMAIN posts
  BY <1>2
<1>6. /\ posts' \in Seq(Posted) /\ Len(posts') = Len(posts) - 1
      /\ DOMAIN posts' = 1 .. Len(posts) - 1
      /\ \A i \in 1 .. Len(posts) - 1 :
             posts'[i] = [described |-> posts[i + 1].described,
                          behind |-> Left(posts[i + 1].behind, k)]
  <2> DEFINE rest == Tail(posts)
  <2>1. /\ rest \in Seq(Posted) /\ Len(rest) = Len(posts) - 1
        /\ DOMAIN rest = 1 .. Len(posts) - 1
        /\ \A i \in 1 .. Len(posts) - 1 : rest[i] = posts[i + 1]
        /\ posts' = Nearer(rest, k)
    BY <1>1, <1>5
  <2> HIDE DEF rest
  <2>2. /\ posts' \in Seq(Posted) /\ Len(posts') = Len(rest)
        /\ DOMAIN posts' = DOMAIN rest
        /\ \A i \in DOMAIN rest :
               posts'[i] = [described |-> rest[i].described,
                            behind |-> Left(rest[i].behind, k)]
    BY <1>2, <2>1, NearerFacts
  <2> QED
    BY <2>1, <2>2
<1>7. /\ m \in Descriptions /\ m = posts[1].described /\ posts[1].behind <= k
      /\ posts[1].behind \in Nat /\ m.ts <= clock /\ m.ts \in Nat
      /\ m.ts # Never => latest.ts <= m.ts
      /\ metadata.ts # Never => m.ts <= metadata.ts
      /\ "insert" \notin events => Snapshot(table, wire, m, posts[1].behind)
  BY <1>1, <1>2, <1>5, PostFacts DEF StampsFit, BusFits
<1> HIDE DEF m
<1>8. Accepts(m)
  BY <1>7 DEF Accepts
<1>9. latest' = m /\ cache' = Generated(table', m)
  BY <1>3, <1>8
<1>10. BusFits'
  <2>1. ASSUME "insert" \notin events PROVE Snapshot(table', wire', latest', 0)
    <3>1. Snapshot(table', wire', m, Left(posts[1].behind, k))
      BY <1>4, <1>7, <2>1
    <3>2. Left(posts[1].behind, k) = 0
      BY <1>2, <1>7 DEF Left
    <3> QED
      BY <1>9, <3>1, <3>2
  <2>2. \A i \in DOMAIN Tail(posts) : \E j \in DOMAIN posts : Tail(posts)[i] = posts[j]
    BY <1>5
  <2> QED
    BY <1>1, <1>2, <1>3, <1>4, <1>5, <2>1, <2>2, DrainedPosts
<1>11. /\ cache' \in [is : BOOLEAN, list : Seq(Values)]
       /\ cache'.is /\ m.ts # Never /\ "insert" \notin events
              => cache'.list = m.list
       /\ events = {} /\ k = Len(wire) /\ m = metadata =>
              cache' = IF elements = <<>> THEN Nothing ELSE Just(Contents(elements))
  <2>1. posts[1].behind \in 0 .. k
    BY <1>2, <1>7
  <2> QED
    BY <1>3, <1>4, <1>7, <1>9, <2>1, GeneratedFits
<1>12. Types'
  <2>1. Len(posts') <= MaxPosts
    BY <1>2, <1>5, <1>6, LargeListAssumption DEF Types
  <2> QED
    BY <1>2, <1>3, <1>4, <1>6, <1>7, <1>9, <1>11, <2>1 DEF Types
<1>13. SnapshotRead'
  BY <1>3, <1>9, <1>11 DEF SnapshotRead
<1>14. StampsFit'
  <2>1. \A i \in 1 .. Len(posts) - 1 : posts'[i].described = posts[i + 1].described
    BY <1>6
  <2>2. \A i \in DOMAIN posts :
            /\ posts[i].described.ts <= clock
            /\ metadata.ts # Never => posts[i].described.ts <= metadata.ts
    BY <1>2 DEF StampsFit
  <2>3. ASSUME NEW i \in 1 .. Len(posts) - 1, posts[i + 1].described.ts # Never,
               NEW j \in 1 .. i
        PROVE  posts[j].described.ts <= posts[i + 1].described.ts
    <3>1. i + 1 \in DOMAIN posts /\ j \in 1 .. (i + 1) - 1
      BY <1>5
    <3> QED
      BY <1>2, <2>3, <3>1 DEF StampsFit
  <2>4. ASSUME NEW i \in DOMAIN posts', posts'[i].described.ts # Never
        PROVE  /\ latest'.ts <= posts'[i].described.ts
               /\ \A j \in 1 .. i - 1 :
                      posts'[j].described.ts <= posts'[i].described.ts
    <3>1. i \in 1 .. Len(posts) - 1 /\ posts'[i].described = posts[i + 1].described
      BY <1>6, <2>1
    <3>2. posts[1].described.ts <= posts[i + 1].described.ts
      BY <2>3, <2>4, <3>1
    <3>3. ASSUME NEW j \in 1 .. i - 1
          PROVE  posts'[j].described.ts <= posts'[i].described.ts
      <4>1. j + 1 \in 1 .. i /\ j \in 1 .. Len(posts) - 1
        BY <1>5, <3>1
      <4> QED
        BY <2>1, <2>3, <2>4, <3>1, <4>1
    <3> QED
      BY <1>7, <1>9, <3>1, <3>2, <3>3
  <2>5. \A i \in DOMAIN posts' :
            /\ posts'[i].described.ts <= clock
            /\ metadata.ts # Never => posts'[i].described.ts <= metadata.ts
    BY <1>5, <1>6, <2>1, <2>2
  <2>6. latest'.ts <= clock /\ (metadata.ts # Never => latest'.ts <= metadata.ts)
    BY <1>7, <1>9
  <2> QED
    BY <1>2, <1>3, <2>4, <2>5, <2>6 DEF StampsFit
<1>15. Current'
  <2> SUFFICES ASSUME published, events = {}
               PROVE  IF posts' = <<>>
                      THEN /\ wire' = <<>> /\ latest' = metadata'
                           /\ cache'.is => cache'.list = Contents(elements')
                      ELSE posts'[Len(posts')] =
                               [described |-> metadata', behind |-> Len(wire')]
    BY <1>3 DEF Current
  <2>1. posts[Len(posts)] = [described |-> metadata, behind |-> Len(wire)]
    BY <1>2 DEF IInv, Current
  <2>2. CASE Len(posts) = 1
    <3>1. m = metadata /\ k = Len(wire)
      BY <1>2, <1>7, <2>1, <2>2
    <3>2. posts' = <<>> /\ Len(wire') = 0
      BY <1>4, <1>6, <2>2, <3>1
    <3>3. cache'.is => cache'.list = Contents(elements)
      BY <1>11, <3>1, JustFacts
    <3> QED
      BY <1>3, <1>4, <1>9, <3>1, <3>2, <3>3
  <2>3. CASE Len(posts) # 1
    <3>1. /\ Len(posts') = Len(posts) - 1 /\ Len(posts') \in 1 .. Len(posts) - 1
          /\ posts' # <<>>
      BY <1>5, <1>6, <2>3
    <3>2. posts[Len(posts') + 1] = posts[Len(posts)]
      BY <1>5, <3>1
    <3>3. posts'[Len(posts')] =
              [described |-> metadata, behind |-> Left(Len(wire), k)]
      <4>1. /\ posts[Len(posts') + 1].described = metadata
            /\ posts[Len(posts') + 1].behind = Len(wire)
        BY <2>1, <3>2
      <4> QED
        BY <1>6, <3>1, <4>1
    <3>4. Len(wire') = Left(Len(wire), k)
      BY <1>2, <1>4 DEF Left
    <3> QED
      BY <1>3, <3>1, <3>3, <3>4
  <2> QED
    BY <2>2, <2>3
<1>16. Distinct(elements', fresh', clock') /\ Undisturbed'
  BY <1>3, <1>4 DEF IInv, Undisturbed
<1> QED
  BY <1>10, <1>12, <1>13, <1>14, <1>15, <1>16 DEF IInv

-----------------------------------------------------------------------------
(* The theorems.                                                           *)

LEMMA InitIInv == Init => IInv
<1> SUFFICES ASSUME Init PROVE IInv
  OBVIOUS
<1>1. /\ elements = <<>> /\ metadata = NoMetadata /\ fresh = 1 /\ clock = 0
      /\ wire = <<>> /\ posts = <<>> /\ published = TRUE
      /\ latest = NoMetadata /\ cache = Nothing /\ events = {}
      /\ table = [id \in Ids |-> Absent] /\ table \in Tables
  <2>1. table \in [Ids -> Elems]
    BY DEF Init, Elems
  <2> QED
    BY <2>1 DEF Init, Tables
<1>2. /\ NoMetadata \in Descriptions /\ NoMetadata.ts = Never
      /\ Nothing \in [is : BOOLEAN, list : Seq(Values)] /\ ~ Nothing.is
  BY NoMetadataFacts DEF Nothing
<1>3. Types
  <2>1. wire \in Seq(Samples) /\ posts \in Seq(Posted) /\ Len(posts) <= MaxPosts
    BY <1>1, LargeListAssumption
  <2>2. fresh \in 1 .. MaxIds + 1 /\ clock \in Times
    BY <1>1, LargeListAssumption DEF Times
  <2>3. published \in BOOLEAN /\ events \subseteq Disturbances
    BY <1>1
  <2> QED
    BY <1>1, <1>2, <2>1, <2>2, <2>3 DEF Types
<1>4. Distinct(elements, fresh, clock)
  BY <1>1 DEF Distinct
<1>5. StampsFit
  BY <1>1, <1>2 DEF StampsFit, Never
<1>6. BusFits
  <2>1. Applied(table, wire) = table
    BY <1>1, AppliedNothing
  <2>2. Ahead(elements, Applied(table, wire), fresh)
    BY <1>1, <2>1 DEF Ahead
  <2>3. /\ Snapshot(table, wire, metadata, Len(wire))
        /\ Snapshot(table, wire, latest, 0)
    BY <1>1, <1>2 DEF Snapshot
  <2>4. DOMAIN posts = {}
    BY <1>1
  <2> QED
    BY <2>2, <2>3, <2>4 DEF BusFits
<1>7. Undisturbed
  <2>1. Linking(elements) /\ Stored(elements, Applied(table, wire))
    BY <1>1 DEF Linking, Stored
  <2>2. Describes(metadata, elements)
    BY <1>1 DEF Describes, NoMetadata, Described
  <2> QED
    BY <2>1, <2>2 DEF Undisturbed
<1>8. SnapshotRead /\ Current
  BY <1>1, <1>2 DEF SnapshotRead, Current
<1> QED
  BY <1>3, <1>4, <1>5, <1>6, <1>7, <1>8 DEF IInv

LEMMA NextIInv ==
    ASSUME Ordered, IInv, [Next]_vars
    PROVE  IInv'
<1>1. ASSUME NEW v \in Values, NEW pos \in DOMAIN elements, Update(v, pos)
      PROVE  IInv'
  BY <1>1, UpdateStep
<1>2. \A vs \in Vectors : vs \in Seq(Values) /\ vs # <<>>
  <2>1. ASSUME NEW v \in Values PROVE <<v>> \in Seq(Values) /\ <<v>> # <<>>
    OBVIOUS
  <2>2. ASSUME NEW v \in Values, NEW w \in Values
        PROVE  <<v, w>> \in Seq(Values) /\ <<v, w>> # <<>>
    OBVIOUS
  <2>3. ASSUME NEW vs \in Vectors
        PROVE  \/ \E v \in Values : vs = <<v>>
               \/ \E v, w \in Values : vs = <<v, w>>
    BY <2>3, SMT DEF Vectors
  <2> QED
    BY <2>1, <2>2, <2>3
<1>3. ASSUME NEW vs \in Vectors, Prepend(vs) PROVE IInv'
  BY <1>2, <1>3, PrependStep
<1>4. ASSUME NEW vs \in Vectors, AppendAll(vs) PROVE IInv'
  BY <1>2, <1>4, AppendStep
<1>5. ASSUME NEW vs \in Vectors, NEW pos \in 1 .. Len(elements) - 1, Insert(vs, pos)
      PROVE  IInv'
  BY <1>2, <1>5, InsertStep
<1>6. ASSUME NEW pos \in 1 .. Len(elements) - 2, RemovePos(pos) PROVE IInv'
  BY <1>6, RemovePosStep
<1>7. CASE Write
  BY <1>1, <1>3, <1>4, <1>5, <1>6, <1>7, PopBackStep, PopFrontStep, ClearStep
     DEF Write
<1>8. CASE UNCHANGED vars
  <2>1. /\ UNCHANGED <<elements, metadata, fresh, clock>>
        /\ UNCHANGED <<wire, posts, published, table, latest, cache, events>>
    BY <1>8 DEF vars, writerVars, readerVars
  <2>2. Types' /\ StampsFit' /\ SnapshotRead' /\ Current'
    BY <2>1 DEF IInv, Types, StampsFit, SnapshotRead, Current
  <2>3. Distinct(elements, fresh, clock)'
    BY <2>1 DEF IInv
  <2>4. BusFits'
    BY <2>1 DEF IInv, BusFits
  <2>5. Undisturbed'
    BY <2>1 DEF IInv, Undisturbed
  <2> QED
    BY <2>2, <2>3, <2>4, <2>5 DEF IInv
<1> QED
  BY <1>7, <1>8, PublishStep, GetListFromMetadataStep, GetListByIdStep DEF Next

LEMMA Invariance == ASSUME Ordered PROVE Spec => []IInv
<1>1. IInv /\ [Next]_vars => IInv'
  BY NextIInv
<1> QED
  BY <1>1, InitIInv, PTL DEF Spec

\* What a reader takes for a valid list is the list the metadata were taken
\* of, for all values, bounds, delays and failures (LargeList::generateList,
\* include/umaa/LargeList.h:152).
THEOREM ListsAreReal == ASSUME Ordered PROVE Spec => []ListInv
<1>1. IInv => ListInv
  <2> SUFFICES ASSUME IInv PROVE ListInv
    OBVIOUS
  <2>1. /\ elements \in Seq(Elements) /\ Len(elements) < fresh
        /\ \A i, j \in DOMAIN elements : elements[i].id = elements[j].id => i = j
        /\ \A i \in DOMAIN elements : elements[i].ts <= clock
    BY DEF IInv, Distinct
  <2>2. Elements \subseteq Element
    BY DEF Elements, Element, Ids, NIL
  <2>3. elements \in Seq(Element)
    BY <2>1, <2>2
  <2>4. /\ fresh \in 1 .. MaxIds + 1 /\ clock \in Times /\ Len(posts) <= MaxPosts
        /\ events \subseteq Disturbances
        /\ DOMAIN table = Ids
        /\ \A id \in Ids : table[id] # Absent => /\ table[id] \in Elements
                                                /\ table[id].id = id
    BY DEF IInv, Types, Tables, Elems
  <2>5. Len(elements) <= MaxIds
    BY <2>1, <2>4, LargeListAssumption
  <2> QED
    BY <2>1, <2>2, <2>3, <2>4, <2>5 DEF IInv, ListInv, TypeOK
<1> QED
  BY <1>1, Invariance, PTL

\* Once everything has arrived the reader answers with the writer's list
\* (LargeListReader::getListById).
THEOREM ReaderCatchesUp == ASSUME Ordered PROVE Spec => []CatchesUp
<1>1. IInv => CatchesUp
  <2> SUFFICES ASSUME IInv, events = {}, wire = <<>>, posts = <<>>, published
               PROVE  /\ Generated(table, latest) =
                             IF elements = <<>> THEN Nothing
                             ELSE Just(Contents(elements))
                      /\ cache.is => cache.list = Contents(elements)
    BY DEF CatchesUp, Received, Agrees
  <2>1. latest = metadata /\ (cache.is => cache.list = Contents(elements))
    BY DEF IInv, Current
  <2>2. Applied(table, wire) = table
    BY AppliedNothing DEF IInv, Types
  <2>3. /\ Linking(elements) /\ Stored(elements, table)
        /\ Describes(metadata, elements) /\ metadata \in Descriptions
        /\ Distinct(elements, fresh, clock) /\ Len(elements) <= MaxIds
    <3>1. Len(elements) <= MaxIds
      BY Before
    <3> QED
      BY <2>2, <3>1 DEF IInv, Undisturbed, Types
  <2>4. Generated(table, metadata) =
            IF elements = <<>> THEN Nothing ELSE Just(Contents(elements))
    BY <2>3, GeneratedList
  <2> QED
    BY <2>1, <2>4
<1> QED
  BY <1>1, Invariance, PTL
=============================================================================
