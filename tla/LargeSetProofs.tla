--------------------------- MODULE LargeSetProofs ---------------------------
(***************************************************************************)
(* The large set, for any number of values, elements, time stamps and      *)
(* metadata under way, when metadata do not overtake the elements sent     *)
(* before them: what a reader takes for a valid set is the set the writer  *)
(* had, the reader catches up, and the writer's destructor leaves nothing. *)
(*                                                                         *)
(* The argument is about what the bus will make of the reader's table.     *)
(* Metadata with a time stamp describe the table after the samples sent    *)
(* before them, except for elements that are gone by then or newer: this   *)
(* is so when they are taken, every sample sent later is gone or newer,    *)
(* and draining or forgetting only shortens what is to come.               *)
(***************************************************************************)
EXTENDS LargeSet, Integers, TLAPS, FiniteSetTheorems, WellFoundedInduction

Elems   == {Absent} \cup [val : Values, ts : Times \ {Never}]
Samples == [id : Ids, el : Elems]
Tables  == [Ids -> Elems]

Descriptions ==
    {m \in [size : Nat, ts : Times, set : SUBSET Values] :
        IsFiniteSet(m.set) /\ Cardinality(m.set) <= m.size}

Posted == [described : Descriptions, behind : Nat]

Types ==
    /\ elements \in Tables /\ table \in Tables
    /\ index \in [Values -> Ids \cup {NIL}]
    /\ wire \in Seq(Samples)
    /\ posts \in Seq(Posted)
    /\ Len(posts) <= MaxPosts
    /\ metadata \in Descriptions /\ latest \in Descriptions
    /\ cache \in [is : BOOLEAN, set : SUBSET Values]
    /\ clock \in Times /\ alive \in BOOLEAN /\ published \in BOOLEAN
    /\ events \subseteq Disturbances

\* The two tables of the writer.
IndexFits ==
    /\ \A v \in Indexed :
           elements[index[v]] # Absent /\ elements[index[v]].val = v
    /\ "collision" \notin events =>
           \A id \in Held(elements) : index[elements[id].val] = id
    /\ ~alive /\ events \cap {"collision", "kept"} = {} => Held(elements) = {}

\* Stamps grow from the reader's metadata to the writer's.
StampsFit ==
    /\ metadata = Described(elements, metadata.ts)
    /\ metadata.ts \in {Never, clock}
    /\ \A id \in Held(elements) : elements[id].ts <= clock
    /\ latest.ts <= clock
    /\ \A i \in DOMAIN posts : posts[i].described.ts <= clock
    /\ \A i \in DOMAIN posts : posts[i].described.ts # Never =>
           /\ latest.ts <= posts[i].described.ts
           /\ \A j \in 1 .. i - 1 :
                  posts[j].described.ts <= posts[i].described.ts

\* The element is in the set described, or the reader sees that it is not.
Fits(e, m) == m.ts = Never \/ e = Absent \/ e.ts > m.ts \/ e.val \in m.set

\* The table fits after each draining of at least b of the samples w.
FitsFrom(tab, w, m, b) ==
    \A k \in b .. Len(w) : \A id \in Ids :
        Fits(Applied(tab, SubSeq(w, 1, k))[id], m)

\* What is on the bus.
BusFits ==
    /\ \A id \in Ids :
           \/ Applied(table, wire)[id] = elements[id]
           \/ Applied(table, wire)[id] = Absent /\ "removed" \in events
    /\ FitsFrom(table, wire, latest, 0)
    /\ \A i \in DOMAIN posts :
           /\ posts[i].behind <= Len(wire)
           /\ FitsFrom(table, wire, posts[i].described, posts[i].behind)

\* The metadata published last.
Current ==
    published /\ "removed" \notin events =>
        IF posts = <<>>
        THEN /\ wire = <<>> /\ latest = metadata
             /\ cache.is => cache.set = Contents(elements)
        ELSE posts[Len(posts)] = [described |-> metadata, behind |-> Len(wire)]

IInv == Types /\ IndexFits /\ StampsFit /\ BusFits /\ SnapshotRead /\ Current

-----------------------------------------------------------------------------
(* Natural numbers.                                                        *)

LEMMA LeastNatural ==
    ASSUME NEW T, T \subseteq Nat, T # {}
    PROVE  \E x \in T : \A y \in T : x <= y
<1> DEFINE Below == {0 .. x - 1 : x \in T}
<1>1. Below # {} /\ Below \subseteq FiniteSubsetsOf(Nat)
  <2> SUFFICES ASSUME NEW x \in T
               PROVE  IsFiniteSet(0 .. x - 1) /\ 0 .. x - 1 \in SUBSET Nat
    BY DEF FiniteSubsetsOf
  <2> QED
    BY FS_Interval
<1>2. PICK b \in Below : \A c \in Below : ~ (<<c, b>> \in StrictSubsetOrdering(Nat))
  BY <1>1, FS_StrictSubsetOrderingWellFounded, WFMin
<1>3. PICK x \in T : b = 0 .. x - 1
  OBVIOUS
<1>4. ASSUME NEW y \in T, y < x PROVE FALSE
  <2>1. /\ 0 .. y - 1 \in Below /\ y \in b /\ y \notin 0 .. y - 1
        /\ 0 .. y - 1 \subseteq b
    BY <1>3, <1>4
  <2> HIDE DEF Below
  <2>2. <<0 .. y - 1, b>> \in StrictSubsetOrdering(Nat)
    <3>1. <<0 .. y - 1, b>> \in (SUBSET Nat) \X (SUBSET Nat)
      BY <1>3, SMT
    <3>2. 0 .. y - 1 # b
      BY <2>1
    <3> QED
      BY <3>1, <3>2, <2>1, Zenon DEF StrictSubsetOrdering
  <2> QED
    BY <2>1, <2>2, <1>2
<1> QED
  BY <1>4

LEMMA GreatestIndex ==
    ASSUME NEW n \in Nat, NEW T, T \subseteq 1 .. n, T # {}
    PROVE  \E x \in T : \A y \in T : y <= x
<1>1. PICK z \in {n - x : x \in T} : \A y \in {n - x : x \in T} : z <= y
  <2>1. \A x \in T : x \in Int /\ x <= n
    OBVIOUS
  <2>2. \A x \in T : n - x \in Nat
    BY <2>1
  <2>3. {n - x : x \in T} \subseteq Nat /\ {n - x : x \in T} # {}
    BY <2>2
  <2> QED
    BY <2>3, LeastNatural
<1>2. PICK x \in T : z = n - x
  OBVIOUS
<1>3. \A y \in T : n - x <= n - y
  BY <1>1, <1>2
<1> QED
  BY <1>3

-----------------------------------------------------------------------------
(* Applying samples.                                                       *)

LEMMA SampleFacts ==
    ASSUME NEW s \in Seq(Samples), NEW i \in DOMAIN s
    PROVE  s[i].id \in Ids /\ s[i].el \in Elems
<1>1. s[i] \in Samples
  OBVIOUS
<1> QED
  BY <1>1 DEF Samples

LEMMA AppliedIsFunction ==
    ASSUME NEW tab, NEW s
    PROVE  Applied(tab, s) = [id \in Ids |-> Applied(tab, s)[id]]
  BY DEF Applied

LEMMA AppliedKeeps ==
    ASSUME NEW tab, NEW s, NEW id \in Ids, \A i \in DOMAIN s : s[i].id # id
    PROVE  Applied(tab, s)[id] = tab[id]
  BY DEF Applied

LEMMA AppliedLast ==
    ASSUME NEW tab, NEW s \in Seq(Samples), NEW i \in DOMAIN s,
           \A j \in DOMAIN s : s[j].id = s[i].id => j <= i
    PROVE  Applied(tab, s)[s[i].id] = s[i].el
<1> DEFINE own == {j \in DOMAIN s : s[j].id = s[i].id}
           last == CHOOSE j \in own : \A k \in own : k <= j
<1>1. i \in own /\ \A k \in own : k <= i
  OBVIOUS
<1>2. last \in own /\ \A k \in own : k <= last
  BY <1>1
<1>3. last = i
  BY <1>1, <1>2
<1>4. s[i].id \in Ids
  BY SampleFacts
<1> QED
  BY <1>1, <1>3, <1>4 DEF Applied

\* Either no sample is about the element, or there is a last one.
LEMMA LastSample ==
    ASSUME NEW s \in Seq(Samples), NEW id
    PROVE  \/ \A i \in DOMAIN s : s[i].id # id
           \/ \E i \in DOMAIN s :
                  s[i].id = id /\ \A j \in DOMAIN s : s[j].id = id => j <= i
<1> DEFINE own == {j \in DOMAIN s : s[j].id = id}
<1>1. CASE own = {}
  BY <1>1
<1>2. CASE own # {}
  <2>1. PICK i \in own : \A j \in own : j <= i
    <3>1. Len(s) \in Nat /\ own \subseteq 1 .. Len(s)
      OBVIOUS
    <3> QED
      BY <3>1, <1>2, GreatestIndex
  <2> QED
    BY <2>1
<1> QED
  BY <1>1, <1>2

\* The table after samples has an old element or one of a sample.
LEMMA AppliedFrom ==
    ASSUME NEW tab, NEW s \in Seq(Samples), NEW id \in Ids
    PROVE  \/ Applied(tab, s)[id] = tab[id] /\ \A i \in DOMAIN s : s[i].id # id
           \/ \E i \in DOMAIN s :
                  s[i].id = id /\ \A other : Applied(other, s)[id] = s[i].el
<1>1. CASE \A i \in DOMAIN s : s[i].id # id
  BY <1>1, AppliedKeeps
<1>2. ASSUME NEW i \in DOMAIN s, s[i].id = id,
             \A j \in DOMAIN s : s[j].id = id => j <= i
      PROVE  \A other : Applied(other, s)[id] = s[i].el
  BY <1>2, AppliedLast
<1> QED
  BY <1>1, <1>2, LastSample

LEMMA ForgottenFrom ==
    ASSUME NEW tab, NEW other, NEW s \in Seq(Samples), NEW id \in Ids
    PROVE  \/ Applied(other, s)[id] = other[id]
           \/ Applied(other, s)[id] = Applied(tab, s)[id]
<1>1. CASE \A i \in DOMAIN s : s[i].id # id
  BY <1>1, AppliedKeeps, Zenon
<1>2. ASSUME NEW i \in DOMAIN s, s[i].id = id,
             \A j \in DOMAIN s : s[j].id = id => j <= i
      PROVE  Applied(other, s)[id] = Applied(tab, s)[id]
  <2>1. \A j \in DOMAIN s : s[j].id = s[i].id => j <= i
    BY <1>2
  <2>2. Applied(other, s)[s[i].id] = s[i].el
    BY <2>1, AppliedLast, Zenon
  <2>3. Applied(tab, s)[s[i].id] = s[i].el
    BY <2>1, AppliedLast, Zenon
  <2> QED
    BY <1>2, <2>2, <2>3
<1> QED
  BY <1>1, <1>2, LastSample, Zenon

LEMMA AppliedType ==
    ASSUME NEW tab \in Tables, NEW s \in Seq(Samples)
    PROVE  Applied(tab, s) \in Tables
<1>1. \A id \in Ids : Applied(tab, s)[id] \in Elems
  <2> SUFFICES ASSUME NEW id \in Ids PROVE Applied(tab, s)[id] \in Elems
    OBVIOUS
  <2> QED
    BY SampleFacts, AppliedFrom DEF Tables
<1> QED
  BY <1>1, AppliedIsFunction DEF Tables

LEMMA AppliedNothing ==
    ASSUME NEW tab \in Tables
    PROVE  Applied(tab, <<>>) = tab
<1>1. \A id \in Ids : Applied(tab, <<>>)[id] = tab[id]
  BY AppliedKeeps
<1> QED
  BY <1>1, AppliedIsFunction DEF Tables

LEMMA AppliedTwice ==
    ASSUME NEW tab, NEW s \in Seq(Samples), NEW t \in Seq(Samples)
    PROVE  Applied(tab, s \o t) = Applied(Applied(tab, s), t)
<1>1. s \o t \in Seq(Samples) /\ DOMAIN (s \o t) = 1 .. Len(s) + Len(t)
  OBVIOUS
<1>2. ASSUME NEW id \in Ids
      PROVE  Applied(tab, s \o t)[id] = Applied(Applied(tab, s), t)[id]
  <2>1. ASSUME NEW i \in DOMAIN t, t[i].id = id,
               \A j \in DOMAIN t : t[j].id = id => j <= i
        PROVE  Applied(tab, s \o t)[id] = Applied(Applied(tab, s), t)[id]
    <3>1. Len(s) + i \in DOMAIN (s \o t) /\ (s \o t)[Len(s) + i] = t[i]
      BY <1>1, <2>1
    <3>2. \A j \in DOMAIN (s \o t) : (s \o t)[j].id = id => j <= Len(s) + i
      <4> SUFFICES ASSUME NEW j \in DOMAIN (s \o t), (s \o t)[j].id = id, j > Len(s)
                   PROVE  j <= Len(s) + i
        BY <1>1, <2>1
      <4>1. (s \o t)[j] = t[j - Len(s)] /\ j - Len(s) \in DOMAIN t
        BY <1>1
      <4> QED
        BY <4>1, <2>1
    <3>3. Applied(tab, s \o t)[id] = t[i].el
      BY <1>1, <3>1, <3>2, <2>1, AppliedLast
    <3> QED
      BY <3>3, <2>1, AppliedLast
  <2>2. ASSUME \A i \in DOMAIN t : t[i].id # id
        PROVE  Applied(tab, s \o t)[id] = Applied(Applied(tab, s), t)[id]
    <3>1. Applied(Applied(tab, s), t)[id] = Applied(tab, s)[id]
      BY <2>2, AppliedKeeps
    <3>2. \A j \in DOMAIN (s \o t) : (s \o t)[j].id = id =>
              j \in DOMAIN s /\ (s \o t)[j] = s[j]
      <4> SUFFICES ASSUME NEW j \in DOMAIN (s \o t), j > Len(s)
                   PROVE  (s \o t)[j].id # id
        BY <1>1
      <4>1. (s \o t)[j] = t[j - Len(s)] /\ j - Len(s) \in DOMAIN t
        BY <1>1
      <4> QED
        BY <4>1, <2>2
    <3>3. ASSUME NEW i \in DOMAIN s, s[i].id = id,
                 \A j \in DOMAIN s : s[j].id = id => j <= i
          PROVE  Applied(tab, s \o t)[id] = Applied(tab, s)[id]
      <4>1. i \in DOMAIN (s \o t) /\ (s \o t)[i] = s[i]
        BY <1>1
      <4>2. \A j \in DOMAIN (s \o t) : (s \o t)[j].id = id => j <= i
        BY <3>2, <3>3
      <4>3. Applied(tab, s \o t)[id] = s[i].el
        BY <4>1, <4>2, <1>1, <3>3, AppliedLast
      <4> QED
        BY <4>3, <3>3, AppliedLast
    <3>4. ASSUME \A i \in DOMAIN s : s[i].id # id
          PROVE  Applied(tab, s \o t)[id] = Applied(tab, s)[id]
      <4>1. \A j \in DOMAIN (s \o t) : (s \o t)[j].id # id
        BY <3>4, <3>2
      <4>2. Applied(tab, s \o t)[id] = tab[id]
        BY <4>1, AppliedKeeps, Zenon
      <4>3. Applied(tab, s)[id] = tab[id]
        BY <3>4, AppliedKeeps, Zenon
      <4> QED
        BY <4>2, <4>3
    <3> QED
      BY <3>1, <3>3, <3>4, LastSample
  <2> QED
    BY <2>1, <2>2, LastSample
<1>3. /\ Applied(tab, s \o t) = [id \in Ids |-> Applied(tab, s \o t)[id]]
      /\ Applied(Applied(tab, s), t) =
             [id \in Ids |-> Applied(Applied(tab, s), t)[id]]
  BY AppliedIsFunction
<1> QED
  BY <1>2, <1>3, Zenon

-----------------------------------------------------------------------------
(* Prefixes of the bus.                                                    *)

LEMMA WholePrefix ==
    ASSUME NEW w \in Seq(Samples)
    PROVE  SubSeq(w, 1, Len(w)) = w
  OBVIOUS

LEMMA PrefixOfSent ==
    ASSUME NEW w \in Seq(Samples), NEW t \in Seq(Samples),
           NEW k \in 0 .. Len(w \o t)
    PROVE  SubSeq(w \o t, 1, k) =
               IF k <= Len(w) THEN SubSeq(w, 1, k)
               ELSE w \o SubSeq(t, 1, k - Len(w))
  OBVIOUS

LEMMA PrefixOfRest ==
    ASSUME NEW w \in Seq(Samples), NEW k \in 0 .. Len(w),
           NEW j \in 0 .. Len(w) - k
    PROVE  SubSeq(w, 1, k + j) =
               SubSeq(w, 1, k) \o SubSeq(SubSeq(w, k + 1, Len(w)), 1, j)
  OBVIOUS

LEMMA RestType ==
    ASSUME NEW w \in Seq(Samples), NEW k \in 0 .. Len(w)
    PROVE  /\ SubSeq(w, 1, k) \in Seq(Samples)
           /\ SubSeq(w, k + 1, Len(w)) \in Seq(Samples)
           /\ Len(SubSeq(w, k + 1, Len(w))) = Len(w) - k
  OBVIOUS

\* Samples that fit are sent.
LEMMA FitsSent ==
    ASSUME NEW tab \in Tables, NEW w \in Seq(Samples), NEW t \in Seq(Samples),
           NEW m, NEW b \in 0 .. Len(w), FitsFrom(tab, w, m, b),
           \A i \in DOMAIN t : Fits(t[i].el, m)
    PROVE  FitsFrom(tab, w \o t, m, b)
<1> SUFFICES ASSUME NEW k \in b .. Len(w \o t), NEW id \in Ids
             PROVE  Fits(Applied(tab, SubSeq(w \o t, 1, k))[id], m)
  BY DEF FitsFrom
<1>1. k \in 0 .. Len(w \o t) /\ Len(w) \in Nat /\ Len(w \o t) = Len(w) + Len(t)
  OBVIOUS
<1>2. CASE k <= Len(w)
  <2>1. SubSeq(w \o t, 1, k) = SubSeq(w, 1, k) /\ k \in b .. Len(w)
    BY <1>1, <1>2, PrefixOfSent
  <2> QED
    BY <2>1 DEF FitsFrom
<1>3. CASE k > Len(w)
  <2> DEFINE u == SubSeq(t, 1, k - Len(w))
  <2>1. SubSeq(w \o t, 1, k) = w \o u
    BY <1>1, <1>3, PrefixOfSent
  <2>2. u \in Seq(Samples) /\ \A i \in DOMAIN u : i \in DOMAIN t /\ u[i] = t[i]
    BY <1>1, <1>3
  <2> HIDE DEF u
  <2>3. Applied(tab, w \o u) = Applied(Applied(tab, w), u)
    BY <2>2, AppliedTwice
  <2>4. Fits(Applied(tab, w)[id], m)
    BY WholePrefix, Len(w) \in b .. Len(w) DEF FitsFrom
  <2>5. \/ Applied(Applied(tab, w), u)[id] = Applied(tab, w)[id]
        \/ \E i \in DOMAIN u : Applied(Applied(tab, w), u)[id] = u[i].el
    BY <2>2, AppliedFrom
  <2>6. \A i \in DOMAIN u : Fits(u[i].el, m)
    BY <2>2
  <2> QED
    BY <2>1, <2>3, <2>4, <2>5, <2>6
<1> QED
  BY <1>1, <1>2, <1>3

\* The first k samples are drained.
LEMMA FitsDrained ==
    ASSUME NEW tab \in Tables, NEW w \in Seq(Samples), NEW m, NEW b \in Nat,
           NEW k \in 0 .. Len(w), FitsFrom(tab, w, m, b)
    PROVE  FitsFrom(Applied(tab, SubSeq(w, 1, k)), SubSeq(w, k + 1, Len(w)), m,
                    IF b > k THEN b - k ELSE 0)
<1> DEFINE rest == SubSeq(w, k + 1, Len(w))
<1>1. /\ SubSeq(w, 1, k) \in Seq(Samples) /\ rest \in Seq(Samples)
      /\ Len(rest) = Len(w) - k
  BY RestType
<1> SUFFICES ASSUME NEW j \in (IF b > k THEN b - k ELSE 0) .. Len(rest),
                    NEW id \in Ids
             PROVE  Fits(Applied(Applied(tab, SubSeq(w, 1, k)),
                                 SubSeq(rest, 1, j))[id], m)
  BY DEF FitsFrom
<1> HIDE DEF rest
<1>2. j \in 0 .. Len(w) - k /\ k + j \in b .. Len(w)
  BY <1>1
<1>3. SubSeq(rest, 1, j) \in Seq(Samples)
  BY <1>1, <1>2
<1>4. SubSeq(w, 1, k + j) = SubSeq(w, 1, k) \o SubSeq(rest, 1, j)
  BY <1>2, PrefixOfRest DEF rest
<1>5. Applied(tab, SubSeq(w, 1, k + j)) =
          Applied(Applied(tab, SubSeq(w, 1, k)), SubSeq(rest, 1, j))
  <2> DEFINE first == SubSeq(w, 1, k)
             next  == SubSeq(rest, 1, j)
  <2>1. first \in Seq(Samples) /\ next \in Seq(Samples)
    BY <1>1, <1>3
  <2>2. SubSeq(w, 1, k + j) = first \o next
    BY <1>4
  <2> HIDE DEF first, next
  <2>3. Applied(tab, first \o next) = Applied(Applied(tab, first), next)
    BY <2>1, AppliedTwice
  <2> QED
    BY <2>2, <2>3 DEF first, next
<1>6. Fits(Applied(tab, SubSeq(w, 1, k + j))[id], m)
  BY <1>2 DEF FitsFrom
<1> QED
  BY <1>5, <1>6

\* The reader's table is forgotten.
LEMMA FitsForgotten ==
    ASSUME NEW tab, NEW w \in Seq(Samples), NEW m, NEW b \in Nat,
           FitsFrom(tab, w, m, b)
    PROVE  FitsFrom(NoElements, w, m, b)
<1> SUFFICES ASSUME NEW k \in b .. Len(w), NEW id \in Ids
             PROVE  Fits(Applied(NoElements, SubSeq(w, 1, k))[id], m)
  BY DEF FitsFrom
<1> DEFINE first == SubSeq(w, 1, k)
<1>1. first \in Seq(Samples)
  OBVIOUS
<1>2. Fits(Applied(tab, first)[id], m)
  BY DEF FitsFrom
<1>3. SubSeq(w, 1, k) = first
  OBVIOUS
<1> HIDE DEF first
<1>4. \/ Applied(NoElements, first)[id] = NoElements[id]
      \/ Applied(NoElements, first)[id] = Applied(tab, first)[id]
  BY <1>1, ForgottenFrom
<1>5. NoElements[id] = Absent
  BY DEF NoElements
<1> QED
  BY <1>2, <1>3, <1>4, <1>5 DEF Fits

-----------------------------------------------------------------------------
(* Elements and their descriptions.                                        *)

LEMMA ElemFacts ==
    ASSUME NEW e \in Elems
    PROVE  /\ e.ts \in Nat
           /\ e # Absent => e.val \in Values /\ e.ts # Never
  BY LargeSetAssumption DEF Elems, Absent, Never, Times

LEMMA NewElem ==
    ASSUME NEW v \in Values, NEW ts \in Times, ts # Never
    PROVE  /\ [val |-> v, ts |-> ts] \in Elems /\ [val |-> v, ts |-> ts] # Absent
           /\ [val |-> v, ts |-> ts].val = v /\ [val |-> v, ts |-> ts].ts = ts
<1>1. [val |-> v, ts |-> ts].ts # Absent.ts
  BY DEF Absent
<1> QED
  BY <1>1 DEF Elems

LEMMA HeldFinite ==
    ASSUME NEW els \in Tables
    PROVE  /\ IsFiniteSet(Held(els)) /\ Cardinality(Held(els)) \in Nat
           /\ Contents(els) \subseteq Values
           /\ IsFiniteSet(Contents(els))
           /\ Cardinality(Contents(els)) \in Nat
           /\ Cardinality(Contents(els)) <= Cardinality(Held(els))
           /\ (\A i, j \in Held(els) : els[i].val = els[j].val => i = j)
                  => Cardinality(Contents(els)) = Cardinality(Held(els))
<1> DEFINE f == [id \in Held(els) |-> els[id].val]
<1>1. IsFiniteSet(Held(els))
  <2>1. IsFiniteSet(Ids)
    BY FS_Interval, LargeSetAssumption DEF Ids
  <2>2. Held(els) \in SUBSET Ids
    BY DEF Held
  <2> QED
    BY <2>1, <2>2, FS_Subset
<1>2. f \in Surjection(Held(els), Contents(els))
  BY DEF Surjection, Contents
<1>3. /\ IsFiniteSet(Contents(els))
      /\ Cardinality(Contents(els)) <= Cardinality(Held(els))
      /\ Cardinality(Contents(els)) = Cardinality(Held(els))
             <=> f \in Injection(Held(els), Contents(els))
  BY <1>1, <1>2, FS_Surjection
<1>4. (\A i, j \in Held(els) : els[i].val = els[j].val => i = j)
          => f \in Injection(Held(els), Contents(els))
  <2>1. f \in [Held(els) -> Contents(els)]
    BY DEF Contents
  <2> QED
    BY <2>1 DEF Injection, IsInjective
<1>5. Contents(els) \subseteq Values
  <2> SUFFICES ASSUME NEW id \in Held(els) PROVE els[id].val \in Values
    BY DEF Contents
  <2>1. els[id] \in Elems /\ els[id] # Absent
    BY DEF Held, Tables
  <2> QED
    BY <2>1, ElemFacts
<1> QED
  BY <1>1, <1>3, <1>4, <1>5, FS_CardinalityType

LEMMA DescribedFacts ==
    ASSUME NEW els \in Tables, NEW ts \in Times
    PROVE  /\ Described(els, ts) \in Descriptions
           /\ Described(els, ts).ts = ts
           /\ Described(els, ts).set = Contents(els)
           /\ Described(els, ts).size = Cardinality(Held(els))
           /\ \A id \in Ids : Fits(els[id], Described(els, ts))
<1>1. /\ Described(els, ts).ts = ts /\ Described(els, ts).set = Contents(els)
      /\ Described(els, ts).size = Cardinality(Held(els))
  BY DEF Described
<1>2. Described(els, ts) \in Descriptions
  BY HeldFinite DEF Described, Descriptions
<1>3. \A id \in Ids : els[id] # Absent => els[id].val \in Contents(els)
  BY DEF Contents, Held
<1> QED
  BY <1>1, <1>2, <1>3 DEF Fits

LEMMA NoElementsFacts ==
    /\ NoElements \in Tables /\ Held(NoElements) = {} /\ Contents(NoElements) = {}
    /\ NoMetadata \in Descriptions /\ NoMetadata.ts = Never
<1>1. NoElements \in Tables
  BY DEF NoElements, Tables, Elems
<1>2. Held(NoElements) = {} /\ Contents(NoElements) = {}
  BY DEF NoElements, Held, Contents
<1>3. Never \in Times
  BY LargeSetAssumption DEF Never, Times
<1> QED
  BY <1>1, <1>2, <1>3, DescribedFacts DEF NoMetadata

\* A valid set of a table that fits is the one described.
LEMMA GeneratedFacts ==
    ASSUME NEW tab \in Tables, NEW m \in Descriptions
    PROVE  /\ Generated(tab, m) \in [is : BOOLEAN, set : SUBSET Values]
           /\ Generated(tab, m).is => Generated(tab, m).set = Contents(tab)
           /\ Generated(tab, m).is /\ m.ts # Never
                  /\ (\A id \in Ids : Fits(tab[id], m))
              => Generated(tab, m).set = m.set
<1>1. /\ Contents(tab) \subseteq Values /\ IsFiniteSet(Contents(tab))
      /\ Cardinality(Contents(tab)) \in Nat
  BY HeldFinite
<1>2. \/ Generated(tab, m) = Just(Contents(tab))
      \/ Generated(tab, m) = Nothing
  BY DEF Generated
<1>3. ~ Nothing.is /\ Just(Contents(tab)).set = Contents(tab)
  BY DEF Nothing, Just
<1>4. Generated(tab, m) \in [is : BOOLEAN, set : SUBSET Values]
  <2> DEFINE c == Contents(tab)
  <2>1. c \in SUBSET Values
    BY <1>1
  <2> HIDE DEF c
  <2>2. /\ Just(c) \in [is : BOOLEAN, set : SUBSET Values]
        /\ Nothing \in [is : BOOLEAN, set : SUBSET Values]
    BY <2>1 DEF Just, Nothing
  <2> QED
    BY <1>2, <2>2 DEF c
<1>5. ASSUME Generated(tab, m).is, m.ts # Never, \A id \in Ids : Fits(tab[id], m)
      PROVE  Contents(tab) = m.set
  <2>1. /\ Cardinality(Contents(tab)) = m.size
        /\ \A id \in Held(tab) : tab[id].ts <= m.ts
    BY <1>5, <1>3 DEF Generated
  <2>2. Contents(tab) \subseteq m.set
    <3> SUFFICES ASSUME NEW id \in Held(tab) PROVE tab[id].val \in m.set
      BY DEF Contents
    <3>1. id \in Ids /\ tab[id] # Absent /\ tab[id] \in Elems
      BY DEF Held, Tables
    <3>2. tab[id].ts \in Nat /\ tab[id].ts <= m.ts /\ m.ts \in Nat
      BY <3>1, <2>1, ElemFacts, LargeSetAssumption DEF Descriptions, Times
    <3> QED
      BY <3>1, <3>2, <1>5 DEF Fits
  <2>3. /\ IsFiniteSet(m.set) /\ Cardinality(m.set) <= m.size /\ m.size \in Nat
        /\ Cardinality(m.set) \in Nat
    BY FS_CardinalityType DEF Descriptions
  <2>4. Cardinality(Contents(tab)) <= Cardinality(m.set)
    BY <2>2, <2>3, FS_Subset
  <2> QED
    BY <2>1, <2>2, <2>3, <2>4, <1>1, FS_Subset
<1> QED
  BY <1>2, <1>3, <1>4, <1>5

LEMMA PostFacts ==
    ASSUME Types, NEW i \in DOMAIN posts
    PROVE  /\ posts[i].described \in Descriptions /\ posts[i].behind \in Nat
           /\ posts[i].described.ts \in Nat
<1>1. posts \in Seq(Posted)
  BY DEF Types
<1>2. posts[i] \in Posted
  BY <1>1
<1>3. posts[i].described \in Descriptions /\ posts[i].behind \in Nat
  BY <1>2 DEF Posted
<1> QED
  BY <1>3 DEF Descriptions, Times

-----------------------------------------------------------------------------
(* The writer.                                                             *)

\* Samples of elements that are gone or newer than all before are sent.
LEMMA SentBus ==
    ASSUME Types, StampsFit, BusFits, NEW t \in Seq(Samples),
           \A i \in DOMAIN t : t[i].el = Absent \/ t[i].el.ts > clock,
           \A id \in Ids : elements'[id] = Applied(elements, t)[id],
           wire' = wire \o t, events \subseteq events',
           UNCHANGED <<table, latest, posts>>
    PROVE  BusFits'
<1>1. ASSUME NEW m \in Descriptions, m.ts <= clock, NEW i \in DOMAIN t
      PROVE  Fits(t[i].el, m)
  <2>1. m.ts \in Nat /\ clock \in Nat /\ t[i].el \in Elems
    BY SampleFacts, LargeSetAssumption DEF Descriptions, Types, Times
  <2> QED
    BY <1>1, <2>1, ElemFacts DEF Fits
<1>2. table \in Tables /\ wire \in Seq(Samples) /\ Len(wire') >= Len(wire)
  BY DEF Types
<1>3. FitsFrom(table', wire', latest', 0)
  <2>1. FitsFrom(table, wire, latest, 0) /\ 0 \in 0 .. Len(wire)
    BY <1>2 DEF BusFits
  <2>2. latest \in Descriptions /\ latest.ts <= clock
    BY DEF Types, StampsFit
  <2> QED
    BY <1>1, <1>2, <2>1, <2>2, FitsSent
<1>4. ASSUME NEW i \in DOMAIN posts'
      PROVE  /\ posts'[i].behind <= Len(wire')
             /\ FitsFrom(table', wire', posts'[i].described, posts'[i].behind)
  <2>1. /\ posts[i].described \in Descriptions /\ posts[i].behind \in Nat
        /\ i \in DOMAIN posts
    BY PostFacts
  <2>2. /\ posts[i].described.ts <= clock /\ posts[i].behind \in 0 .. Len(wire)
        /\ FitsFrom(table, wire, posts[i].described, posts[i].behind)
    BY <1>2, <2>1 DEF StampsFit, BusFits
  <2>3. \A j \in DOMAIN t : Fits(t[j].el, posts[i].described)
    BY <1>1, <2>1, <2>2
  <2> QED
    BY <1>2, <2>2, <2>3, FitsSent
<1>5. ASSUME NEW id \in Ids
      PROVE  \/ Applied(table', wire')[id] = elements'[id]
             \/ Applied(table', wire')[id] = Absent /\ "removed" \in events'
  <2>1. Applied(table', wire') = Applied(Applied(table, wire), t)
    BY <1>2, AppliedTwice
  <2>2. CASE \A i \in DOMAIN t : t[i].id # id
    <3>1. Applied(Applied(table, wire), t)[id] = Applied(table, wire)[id]
      BY <2>2, AppliedKeeps
    <3>2. elements'[id] = elements[id]
      BY <2>2, AppliedKeeps
    <3> QED
      BY <2>1, <3>1, <3>2 DEF BusFits
  <2>3. ASSUME NEW i \in DOMAIN t, t[i].id = id,
               \A j \in DOMAIN t : t[j].id = id => j <= i
        PROVE  Applied(Applied(table, wire), t)[id] = elements'[id]
    <3>1. \A j \in DOMAIN t : t[j].id = t[i].id => j <= i
      BY <2>3
    <3>2. Applied(Applied(table, wire), t)[t[i].id] = t[i].el
      BY <3>1, AppliedLast, Zenon
    <3>3. Applied(elements, t)[t[i].id] = t[i].el
      BY <3>1, AppliedLast, Zenon
    <3> QED
      BY <2>3, <3>2, <3>3
  <2> QED
    BY <2>1, <2>2, <2>3, LastSample
<1> QED
  BY <1>3, <1>4, <1>5 DEF BusFits

\* Metadata taken of the elements now.
LEMMA TakenStamps ==
    ASSUME Types, StampsFit, elements' \in Tables, clock' \in Times,
           clock <= clock', NEW ts \in {Never, clock'},
           metadata' = Described(elements', ts),
           \A id \in Held(elements') : elements'[id].ts <= clock',
           UNCHANGED <<latest, posts>>
    PROVE  StampsFit' /\ metadata' \in Descriptions
<1>1. ts \in Times
  BY LargeSetAssumption DEF Never, Times
<1>2. metadata' \in Descriptions /\ metadata'.ts = ts
  BY <1>1, DescribedFacts
<1>3. latest'.ts <= clock'
  <2>1. latest.ts \in Nat /\ latest.ts <= clock /\ clock \in Nat /\ clock' \in Nat
    BY DEF Types, StampsFit, Descriptions, Times
  <2> QED
    BY <2>1
<1>4. \A i \in DOMAIN posts' : posts'[i].described.ts <= clock'
  <2> SUFFICES ASSUME NEW i \in DOMAIN posts PROVE posts[i].described.ts <= clock'
    OBVIOUS
  <2>1. posts[i].described.ts \in Nat /\ clock \in Nat /\ clock' \in Nat
    BY PostFacts DEF Types, Times
  <2> QED
    BY <2>1 DEF StampsFit
<1> QED
  BY <1>2, <1>3, <1>4 DEF StampsFit

LEMMA UpdateStep ==
    ASSUME IInv, alive, NEW old \in Values, NEW v \in Values, Update(old, v)
    PROVE  IInv'
<1> DEFINE id == index[old]
           e == [val |-> v, ts |-> clock']
           t == <<Sample(id, e)>>
<1>1. /\ id \in Ids /\ id # NIL /\ old \in Indexed
      /\ clock \in Nat /\ clock' = clock + 1 /\ clock' \in Times /\ clock' # Never
  BY LargeSetAssumption DEF IInv, Types, Update, Times, NIL, Ids, Never, Indexed
<1>2. e \in Elems /\ e # Absent /\ e.val = v /\ e.ts = clock'
  BY <1>1, NewElem
<1> HIDE DEF e
<1>3. Sample(id, e) \in Samples /\ Sample(id, e).id = id /\ Sample(id, e).el = e
  BY <1>1, <1>2 DEF Sample, Samples
<1>4. /\ elements' = [elements EXCEPT ![id] = e]
      /\ index' = Reindexed(old, v, id)
      /\ metadata' = Described(elements', e.ts)
      /\ events' = events \cup
             (IF v # old /\ index[v] # NIL THEN {"collision"} ELSE {})
      /\ wire' = wire \o t /\ published' = FALSE
      /\ UNCHANGED <<posts, readerVars, alive>>
  BY <1>1 DEF Update, Sends, e
<1>5. /\ elements' \in Tables /\ elements'[id] = e
      /\ \A x \in Ids : x # id => elements'[x] = elements[x]
  BY <1>1, <1>2, <1>4 DEF IInv, Types, Tables
<1>6. /\ t \in Seq(Samples) /\ DOMAIN t = {1} /\ t[1].id = id /\ t[1].el = e
  BY <1>3
<1>7. \A x \in Ids : elements'[x] = Applied(elements, t)[x]
  <2> HIDE DEF t
  <2> QED
    BY <1>5, <1>6, AppliedLast, AppliedKeeps
<1>8. BusFits'
  <2>1. \A i \in DOMAIN t : t[i].el = Absent \/ t[i].el.ts > clock
    BY <1>1, <1>2, <1>6
  <2> HIDE DEF t
  <2>2. Types /\ StampsFit /\ BusFits
    BY DEF IInv
  <2>3. events \subseteq events' /\ UNCHANGED <<table, latest, posts>>
    BY <1>4 DEF readerVars
  <2> QED
    BY <1>4, <1>6, <1>7, <2>1, <2>2, <2>3, SentBus
<1>9. StampsFit' /\ metadata' \in Descriptions
  <2>1. \A x \in Held(elements') : elements'[x].ts <= clock'
    <3> SUFFICES ASSUME NEW x \in Held(elements'), x # id
                 PROVE  elements'[x].ts <= clock'
      BY <1>1, <1>2, <1>5
    <3>1. x \in Held(elements) /\ elements'[x] = elements[x]
      BY <1>5 DEF Held
    <3>2. elements[x].ts \in Nat /\ elements[x].ts <= clock
      BY <3>1, ElemFacts DEF IInv, Types, Tables, Held, StampsFit
    <3> QED
      BY <1>1, <3>1, <3>2
  <2>2. Types /\ StampsFit /\ clock <= clock' /\ e.ts \in {Never, clock'}
    BY <1>1, <1>2 DEF IInv
  <2>3. UNCHANGED <<latest, posts>>
    BY <1>4 DEF readerVars
  <2> QED
    BY <1>1, <1>4, <1>5, <2>1, <2>2, <2>3, TakenStamps
<1>10. /\ index' \in [Values -> Ids \cup {NIL}]
       /\ index'[v] = IF index[v] = NIL \/ v = old THEN id ELSE index[v]
       /\ v # old => index'[old] = NIL
       /\ \A x \in Values : x \notin {old, v} => index'[x] = index[x]
  BY <1>1, <1>4 DEF IInv, Types, Reindexed
<1>11. IndexFits'
  <2>1. \A x \in Indexed : elements[index[x]] # Absent /\ elements[index[x]].val = x
    BY DEF IInv, IndexFits
  <2>2. ASSUME NEW x \in Indexed'
        PROVE  elements'[index'[x]] # Absent /\ elements'[index'[x]].val = x
    <3>1. x \in Values /\ index'[x] # NIL /\ index'[x] \in Ids
      BY <1>10 DEF Indexed
    <3>2. CASE index'[x] = index[x] /\ index[x] # id
      BY <1>5, <2>1, <3>1, <3>2 DEF Indexed
    <3>3. CASE x = v /\ index'[x] = id
      BY <1>2, <1>5, <3>3
    <3>4. CASE index'[x] = index[x] /\ index[x] = id
      <4>1. x = old
        BY <1>1, <2>1, <3>1, <3>4 DEF Indexed
      <4> QED
        BY <1>10, <3>1, <3>3, <3>4, <4>1
    <3> QED
      BY <1>10, <3>1, <3>2, <3>3, <3>4
  <2>3. ASSUME "collision" \notin events', NEW x \in Held(elements')
        PROVE  index'[elements'[x].val] = x
    <3>1. "collision" \notin events /\ (v # old => index[v] = NIL)
      BY <1>4, <2>3
    <3>2. CASE x = id
      BY <1>1, <1>2, <1>5, <1>10, <3>1, <3>2
    <3>3. CASE x # id
      <4>1. x \in Held(elements) /\ elements'[x] = elements[x]
        BY <1>5, <3>3 DEF Held
      <4>2. index[elements[x].val] = x /\ elements[x].val \in Values /\ x \in Ids
        BY <3>1, <4>1, ElemFacts DEF IInv, IndexFits, Types, Tables, Held
      <4>3. elements[x].val # old /\ x # NIL
        BY <3>3, <4>2 DEF Ids, NIL
      <4>4. elements[x].val # v
        BY <3>1, <4>2, <4>3
      <4> QED
        BY <1>10, <4>1, <4>2, <4>3, <4>4
    <3> QED
      BY <3>2, <3>3
  <2> QED
    BY <1>4, <2>2, <2>3 DEF IndexFits
<1>12. Types'
  <2>1. wire' \in Seq(Samples)
    BY <1>4, <1>6 DEF IInv, Types
  <2>2. events' \subseteq Disturbances
    BY <1>4 DEF IInv, Types, Disturbances
  <2> QED
    BY <1>1, <1>4, <1>5, <1>9, <1>10, <2>1, <2>2 DEF IInv, Types, readerVars
<1>13. SnapshotRead' /\ Current'
  BY <1>4 DEF IInv, SnapshotRead, Current, readerVars
<1> QED
  BY <1>8, <1>9, <1>11, <1>12, <1>13 DEF IInv

LEMMA InsertStep ==
    ASSUME IInv, alive, NEW vs \in Seq(Values), Insert(vs)
    PROVE  IInv'
<1> DEFINE New(k) == [i \in 1 .. k |-> [val |-> vs[i], ts |-> clock + i]]
           Sent(k, at) == [i \in 1 .. k |-> Sample(at[i], New(k)[i])]
<1>0. PICK k \in 1 .. Len(vs) :
          /\ \A i \in 1 .. k : /\ index[vs[i]] = NIL
                               /\ \A j \in 1 .. i - 1 : vs[j] # vs[i]
          /\ clock + k <= MaxTime /\ clock' = clock + k
          /\ \E at \in NewIds(k) :
                /\ elements' = Applied(elements, Sent(k, at))
                /\ index' = [v \in Values |->
                       IF \E i \in 1 .. k : vs[i] = v
                       THEN at[CHOOSE i \in 1 .. k : vs[i] = v] ELSE index[v]]
                /\ Sends(Sent(k, at))
          /\ metadata' = Described(elements', clock')
          /\ UNCHANGED events
  BY DEF Insert
<1> DEFINE new == New(k)
<1>1. PICK at \in NewIds(k) :
          /\ elements' = Applied(elements, Sent(k, at))
          /\ index' = [v \in Values |->
                 IF \E i \in 1 .. k : vs[i] = v
                 THEN at[CHOOSE i \in 1 .. k : vs[i] = v] ELSE index[v]]
          /\ Sends(Sent(k, at))
  BY <1>0
<1> DEFINE samples == Sent(k, at)
<1>2. /\ Types /\ IndexFits /\ StampsFit /\ BusFits
      /\ clock \in Nat /\ clock' \in Times /\ k \in Nat /\ clock' = clock + k
      /\ clock' \in Nat
  BY <1>0, LargeSetAssumption DEF IInv, Types, Times
<1>3. /\ \A i \in 1 .. k : at[i] \in Ids /\ at[i] \notin Held(elements)
      /\ \A i, j \in 1 .. k : at[i] = at[j] => i = j
  <2>1. at \in [1 .. k -> Unused] /\ \A i, j \in 1 .. k : i < j => at[i] < at[j]
    BY DEF NewIds
  <2>2. \A i \in 1 .. k : at[i] \in Ids /\ at[i] \notin Held(elements)
    BY <2>1 DEF Unused
  <2>3. \A i \in 1 .. k : at[i] \in Nat
    BY <2>2, LargeSetAssumption DEF Ids
  <2> QED
    BY <2>1, <2>2, <2>3
<1>4. ASSUME NEW i \in 1 .. k
      PROVE  /\ vs[i] \in Values /\ clock + i \in Times
             /\ new[i] \in Elems /\ new[i] # Absent /\ new[i].val = vs[i]
             /\ new[i].ts = clock + i
             /\ samples[i] \in Samples /\ samples[i].id = at[i]
             /\ samples[i].el = new[i]
  <2>1. vs[i] \in Values /\ clock + i \in Times /\ clock + i # Never
    BY <1>0, <1>2, LargeSetAssumption DEF Times, Never
  <2>2. /\ new[i] \in Elems /\ new[i] # Absent /\ new[i].val = vs[i]
        /\ new[i].ts = clock + i
    BY <2>1, NewElem
  <2>3. samples[i] = Sample(at[i], new[i])
    OBVIOUS
  <2> HIDE DEF new, samples
  <2> QED
    BY <1>3, <2>1, <2>2, <2>3 DEF Sample, Samples
<1>5. samples \in Seq(Samples) /\ DOMAIN samples = 1 .. k
  BY <1>4
<1>6. /\ elements' = Applied(elements, samples)
      /\ wire' = wire \o samples /\ published' = FALSE
      /\ UNCHANGED <<posts, readerVars, alive, events>>
      /\ metadata' = Described(elements', clock')
  BY <1>0, <1>1 DEF Sends
<1>7. \A i \in 1 .. k : samples[i] \in Samples /\ samples[i].id = at[i]
                        /\ samples[i].el = new[i]
  BY <1>4
<1> HIDE DEF samples, new
<1>8. /\ elements' \in Tables
      /\ \A i \in 1 .. k : elements'[at[i]] = new[i]
      /\ \A id \in Ids : (\A i \in 1 .. k : at[i] # id)
             => elements'[id] = elements[id]
  <2>1. elements' \in Tables
    BY <1>2, <1>5, <1>6, AppliedType DEF Types
  <2>2. ASSUME NEW i \in 1 .. k PROVE elements'[at[i]] = new[i]
    <3>1. \A j \in DOMAIN samples : samples[j].id = samples[i].id => j <= i
      BY <1>3, <1>5, <1>7
    <3>2. Applied(elements, samples)[samples[i].id] = samples[i].el
      BY <1>5, <3>1, AppliedLast, Zenon
    <3> QED
      BY <1>6, <1>7, <3>2
  <2>3. ASSUME NEW id \in Ids, \A i \in 1 .. k : at[i] # id
        PROVE  elements'[id] = elements[id]
    <3>1. \A i \in DOMAIN samples : samples[i].id # id
      BY <1>5, <1>7, <2>3
    <3> QED
      BY <1>6, <3>1, AppliedKeeps
  <2> QED
    BY <2>1, <2>2, <2>3
<1>9. BusFits'
  <2>1. \A i \in DOMAIN samples :
            samples[i].el = Absent \/ samples[i].el.ts > clock
    <3> SUFFICES ASSUME NEW i \in 1 .. k PROVE samples[i].el.ts > clock
      BY <1>5
    <3>1. samples[i].el.ts = clock + i /\ i \in Nat /\ i > 0
      BY <1>4, <1>7
    <3> QED
      BY <1>2, <3>1
  <2>2. \A id \in Ids : elements'[id] = Applied(elements, samples)[id]
    BY <1>6
  <2>3. events \subseteq events' /\ UNCHANGED <<table, latest, posts>>
    BY <1>6 DEF readerVars
  <2> QED
    BY <1>2, <1>5, <1>6, <2>1, <2>2, <2>3, SentBus
<1>10. StampsFit' /\ metadata' \in Descriptions
  <2>1. ASSUME NEW x \in Held(elements') PROVE elements'[x].ts <= clock'
    <3>1. x \in Ids /\ elements'[x] # Absent
      BY DEF Held
    <3>2. CASE \A i \in 1 .. k : at[i] # x
      <4>1. elements'[x] = elements[x] /\ x \in Held(elements)
        BY <1>8, <3>1, <3>2 DEF Held
      <4>2. elements[x].ts \in Nat /\ elements[x].ts <= clock
        BY <1>2, <4>1, ElemFacts DEF Types, Tables, Held, StampsFit
      <4> QED
        BY <1>2, <4>1, <4>2
    <3>3. ASSUME NEW i \in 1 .. k, at[i] = x PROVE elements'[x].ts <= clock'
      <4>1. elements'[x].ts = clock + i
        BY <1>4, <1>8, <3>3
      <4> QED
        BY <1>2, <4>1
    <3> QED
      BY <3>2, <3>3
  <2>2. clock <= clock' /\ UNCHANGED <<latest, posts>>
    BY <1>2, <1>6 DEF readerVars
  <2> QED
    BY <1>2, <1>6, <1>8, <2>1, <2>2, TakenStamps
<1>11. /\ index' \in [Values -> Ids \cup {NIL}]
       /\ \A i \in 1 .. k : index'[vs[i]] = at[i]
       /\ \A v \in Values : (\A i \in 1 .. k : vs[i] # v) => index'[v] = index[v]
  <2>1. index' = [v \in Values |-> IF \E i \in 1 .. k : vs[i] = v
                     THEN at[CHOOSE i \in 1 .. k : vs[i] = v] ELSE index[v]]
    BY <1>1
  <2>2. ASSUME NEW i \in 1 .. k
        PROVE  (CHOOSE j \in 1 .. k : vs[j] = vs[i]) = i
    <3>1. \A j \in 1 .. k : vs[j] = vs[i] => j = i
      <4>1. \A a \in 1 .. k : \A b \in 1 .. a - 1 : vs[b] # vs[a]
        BY <1>0
      <4> QED
        BY <4>1, <1>2
    <3> QED
      BY <3>1
  <2>3. \A i \in 1 .. k : index'[vs[i]] = at[i]
    BY <1>4, <2>1, <2>2
  <2>4. \A v \in Values : (\A i \in 1 .. k : vs[i] # v) => index'[v] = index[v]
    BY <2>1
  <2>5. ASSUME NEW v \in Values PROVE index'[v] \in Ids \cup {NIL}
    BY SMTT(30), <1>2, <1>3, <2>3, <2>4 DEF Types
  <2> QED
    BY <2>1, <2>3, <2>4, <2>5
<1>12. \A i \in 1 .. k : index[vs[i]] = NIL
  BY <1>0
<1>13. IndexFits'
  <2>1. ASSUME NEW v \in Indexed'
        PROVE  elements'[index'[v]] # Absent /\ elements'[index'[v]].val = v
    <3>1. CASE \A i \in 1 .. k : vs[i] # v
      <4>1. v \in Indexed /\ index'[v] = index[v] /\ index[v] \in Ids
        BY <1>2, <1>11, <3>1 DEF Indexed, Types
      <4>2. elements[index[v]] # Absent /\ elements[index[v]].val = v
        BY <1>2, <4>1 DEF IndexFits
      <4>3. \A i \in 1 .. k : at[i] # index[v]
        BY <1>3, <4>1, <4>2 DEF Held
      <4> QED
        BY <1>8, <4>1, <4>2, <4>3
    <3>2. ASSUME NEW i \in 1 .. k, vs[i] = v
          PROVE  elements'[index'[v]] # Absent /\ elements'[index'[v]].val = v
      BY <1>4, <1>8, <1>11, <3>2
    <3> QED
      BY <3>1, <3>2
  <2>2. ASSUME "collision" \notin events', NEW x \in Held(elements')
        PROVE  index'[elements'[x].val] = x
    <3>1. CASE \A i \in 1 .. k : at[i] # x
      <4>1. x \in Held(elements) /\ elements'[x] = elements[x] /\ x \in Ids
        BY <1>8, <3>1 DEF Held
      <4>2. index[elements[x].val] = x /\ elements[x].val \in Values
        BY <1>2, <1>6, <2>2, <4>1, ElemFacts DEF IndexFits, Types, Tables, Held
      <4>3. x # NIL
        BY <4>1 DEF Ids, NIL
      <4> QED
        BY <1>11, <1>12, <4>1, <4>2, <4>3
    <3>2. ASSUME NEW i \in 1 .. k, at[i] = x
          PROVE  index'[elements'[x].val] = x
      BY <1>4, <1>8, <1>11, <3>2
    <3> QED
      BY <3>1, <3>2
  <2> QED
    BY <1>6, <2>1, <2>2 DEF IndexFits
<1>14. Types'
  <2>1. wire' \in Seq(Samples)
    BY <1>2, <1>5, <1>6 DEF Types
  <2> QED
    BY <1>2, <1>6, <1>8, <1>10, <1>11, <2>1 DEF Types, readerVars
<1>15. SnapshotRead' /\ Current'
  BY <1>6 DEF IInv, SnapshotRead, Current, readerVars
<1> QED
  BY <1>9, <1>10, <1>13, <1>14, <1>15 DEF IInv

LEMMA IndexedFinite ==
    ASSUME Types, IndexFits
    PROVE  IsFiniteSet(Indexed)
<1> DEFINE f == [v \in Indexed |-> index[v]]
<1>1. IsFiniteSet(Ids)
  BY FS_Interval, LargeSetAssumption DEF Ids
<1>2. f \in [Indexed -> Ids]
  BY DEF Indexed, Types
<1>3. \A v, w \in Indexed : f[v] = f[w] => v = w
  BY DEF IndexFits
<1>4. f \in Injection(Indexed, Ids)
  BY <1>2, <1>3 DEF Injection, IsInjective
<1> QED
  BY <1>1, <1>4, FS_Injection

\* The orders of a finite set are sequences of all its members.
LEMMA OrderFacts ==
    ASSUME NEW S, IsFiniteSet(S), NEW vs \in SetToSeqs(S)
    PROVE  vs \in Seq(S) /\ ToSet(vs) = S /\ (S = {} <=> vs = <<>>)
<1> DEFINE n == Cardinality(S)
<1>1. n \in Nat
  BY FS_CardinalityType
<1>2. vs \in [1 .. n -> S] /\ \A i, j \in 1 .. n : i # j => vs[i] # vs[j]
  BY DEF SetToSeqs
<1>3. vs \in Injection(1 .. n, S)
  BY <1>2 DEF Injection, IsInjective
<1>4. Cardinality(1 .. n) = n
  BY <1>1, FS_Interval
<1>5. vs \in Surjection(1 .. n, S)
  BY <1>3, <1>4, FS_Injection
<1>6. \A x \in S : \E i \in 1 .. n : vs[i] = x
  BY <1>5 DEF Surjection
<1>7. vs \in Seq(S) /\ DOMAIN vs = 1 .. n /\ Len(vs) = n
  BY <1>1, <1>2
<1>8. ToSet(vs) = S
  BY <1>2, <1>6, <1>7 DEF ToSet
<1>9. S = {} <=> n = 0
  BY FS_EmptySet
<1> HIDE DEF n
<1> QED
  BY <1>1, <1>7, <1>8, <1>9

\* What remove(), clear() and the destructor do to the tables.
LEMMA RemovesFacts ==
    ASSUME IInv, NEW vs \in Seq(Indexed), Removes(vs), events \subseteq events',
           wire' = wire \o Gone(vs), UNCHANGED <<posts, readerVars>>
    PROVE  /\ elements' \in Tables /\ index' \in [Values -> Ids \cup {NIL}]
           /\ wire' \in Seq(Samples) /\ metadata' \in Descriptions
           /\ \A v \in Indexed' :
                  elements'[index'[v]] # Absent /\ elements'[index'[v]].val = v
           /\ "collision" \notin events =>
                  \A id \in Held(elements') : index'[elements'[id].val] = id
           /\ "collision" \notin events /\ ToSet(vs) = Indexed
                  => Held(elements') = {}
           /\ vs = <<>> => UNCHANGED <<elements, metadata, wire>>
           /\ Held(elements') \subseteq Held(elements)
           /\ BusFits' /\ StampsFit'
<1> DEFINE gone == {index[vs[i]] : i \in DOMAIN vs}
           t == Gone(vs)
<1>1. /\ Types /\ IndexFits /\ StampsFit /\ BusFits
      /\ elements' = [id \in Ids |-> IF id \in gone THEN Absent ELSE elements[id]]
      /\ index' = [v \in Values |-> IF v \in ToSet(vs) THEN NIL ELSE index[v]]
      /\ metadata' = IF vs = <<>> THEN metadata ELSE Described(elements', Never)
      /\ clock' = clock
  BY DEF Removes, IInv
<1>2. \A i \in DOMAIN vs : vs[i] \in Indexed /\ vs[i] \in ToSet(vs)
  BY DEF ToSet
<1>3. \A v \in ToSet(vs) : v \in Indexed /\ index[v] \in gone
  BY DEF ToSet
<1>4. \A v \in Indexed : v \in Values /\ index[v] \in Ids
  BY <1>1 DEF Indexed, Types
<1>5. \A v \in Indexed : elements[index[v]] # Absent /\ elements[index[v]].val = v
  BY <1>1 DEF IndexFits
<1>6. \A v \in Indexed : index[v] \in gone => v \in ToSet(vs)
  BY <1>2, <1>5
<1>7. t \in Seq(Samples) /\ DOMAIN t = DOMAIN vs
      /\ \A i \in DOMAIN vs : t[i].id = index[vs[i]] /\ t[i].el = Absent
  <2>1. \A i \in DOMAIN vs : Sample(index[vs[i]], Absent) \in Samples
    BY <1>2, <1>4 DEF Sample, Samples, Elems
  <2>2. \A id : Sample(id, Absent).id = id /\ Sample(id, Absent).el = Absent
    BY DEF Sample
  <2> QED
    BY <2>1, <2>2 DEF Gone
<1>8. vs = <<>> => gone = {} /\ t = <<>>
  BY DEF Gone
<1>9. /\ elements' \in Tables
      /\ \A id \in Ids : id \in gone => elements'[id] = Absent
      /\ \A id \in Ids : id \notin gone => elements'[id] = elements[id]
  <2>1. Absent \in Elems
    BY DEF Elems
  <2> HIDE DEF gone
  <2> QED
    BY <1>1, <2>1 DEF Types, Tables
<1>10. Held(elements') \subseteq Held(elements)
  BY <1>9 DEF Held
<1>11. \A id \in Ids : elements'[id] = Applied(elements, t)[id]
  <2> SUFFICES ASSUME NEW id \in Ids PROVE elements'[id] = Applied(elements, t)[id]
    OBVIOUS
  <2>1. CASE \A i \in DOMAIN t : t[i].id # id
    <3>1. id \notin gone
      BY <1>7, <2>1
    <3>2. Applied(elements, t)[id] = elements[id]
      BY <2>1, AppliedKeeps, Zenon
    <3> QED
      BY <1>9, <3>1, <3>2
  <2>2. ASSUME NEW i \in DOMAIN t, t[i].id = id,
               \A j \in DOMAIN t : t[j].id = id => j <= i
        PROVE  elements'[id] = Applied(elements, t)[id]
    <3>1. \A j \in DOMAIN t : t[j].id = t[i].id => j <= i
      BY <2>2
    <3> HIDE DEF t
    <3>2. Applied(elements, t)[t[i].id] = t[i].el
      BY <1>7, <3>1, AppliedLast, Zenon
    <3>3. id \in gone
      BY <1>7, <2>2
    <3> QED
      BY <1>7, <1>9, <2>2, <3>2, <3>3
  <2> QED
    BY <1>7, <2>1, <2>2, LastSample
<1>12. UNCHANGED <<table, latest, posts>>
  BY DEF readerVars
<1>13. BusFits'
  <2>1. \A i \in DOMAIN t : t[i].el = Absent \/ t[i].el.ts > clock
    BY <1>7
  <2> QED
    BY <1>1, <1>7, <1>11, <1>12, <2>1, SentBus
<1>14. vs = <<>> => UNCHANGED <<elements, metadata, wire>>
  <2> SUFFICES ASSUME vs = <<>> PROVE UNCHANGED <<elements, metadata, wire>>
    OBVIOUS
  <2>1. elements' = elements
    BY <1>1, <1>8 DEF Types, Tables
  <2>2. wire' = wire
    BY <1>1, <1>8 DEF Types
  <2> QED
    BY <1>1, <2>1, <2>2
<1>15. StampsFit' /\ metadata' \in Descriptions
  <2>1. CASE vs = <<>>
    BY <1>1, <1>12, <1>14, <2>1 DEF StampsFit, Types
  <2>2. CASE vs # <<>>
    <3>1. \A id \in Held(elements') : elements'[id].ts <= clock'
      BY <1>1, <1>9, <1>10 DEF Held, StampsFit
    <3>2. clock' \in Times /\ clock <= clock' /\ metadata' = Described(elements', Never)
      BY <1>1, <2>2, LargeSetAssumption DEF Types, Times
    <3> QED
      BY <1>1, <1>9, <1>12, <3>1, <3>2, TakenStamps
  <2> QED
    BY <2>1, <2>2
<1>16. index' \in [Values -> Ids \cup {NIL}]
  BY <1>1 DEF Types
<1>17. ASSUME NEW v \in Indexed'
       PROVE  elements'[index'[v]] # Absent /\ elements'[index'[v]].val = v
  <2>1. v \notin ToSet(vs) /\ v \in Indexed /\ index'[v] = index[v]
    BY <1>1 DEF Indexed
  <2> QED
    BY <1>4, <1>5, <1>6, <1>9, <2>1
<1>18. ASSUME "collision" \notin events, NEW id \in Held(elements')
       PROVE  /\ index'[elements'[id].val] = id
              /\ elements'[id].val \in Indexed \ ToSet(vs)
  <2>1. /\ id \in Ids /\ id \notin gone /\ elements'[id] = elements[id]
        /\ id \in Held(elements)
    BY <1>9, <1>10 DEF Held
  <2>2. index[elements[id].val] = id
    BY <1>1, <1>18, <2>1 DEF IndexFits
  <2>3. elements[id].val \in Values
    BY <1>1, <2>1, ElemFacts DEF Types, Tables, Held
  <2>4. elements[id].val \in Indexed
    BY <2>1, <2>2, <2>3 DEF Indexed, Ids, NIL
  <2>5. elements[id].val \notin ToSet(vs)
    BY <1>3, <2>1, <2>2
  <2> QED
    BY <1>1, <2>1, <2>2, <2>3, <2>4, <2>5
<1>19. "collision" \notin events /\ ToSet(vs) = Indexed => Held(elements') = {}
  BY <1>18
<1>20. wire' \in Seq(Samples)
  BY <1>1, <1>7 DEF Types
<1> QED
  BY <1>9, <1>10, <1>13, <1>14, <1>15, <1>16, <1>17, <1>18, <1>19, <1>20

\* remove() and clear().
LEMMA RemoveStep ==
    ASSUME IInv, alive, NEW vs \in Seq(Indexed), Removes(vs), Sends(Gone(vs)),
           UNCHANGED events
    PROVE  IInv'
<1>1. /\ wire' = wire \o Gone(vs) /\ published' = FALSE
      /\ UNCHANGED <<posts, readerVars, alive, clock>>
      /\ events \subseteq events'
  BY DEF Sends, Removes
<1>2. /\ elements' \in Tables /\ index' \in [Values -> Ids \cup {NIL}]
      /\ wire' \in Seq(Samples) /\ metadata' \in Descriptions
      /\ \A v \in Indexed' :
             elements'[index'[v]] # Absent /\ elements'[index'[v]].val = v
      /\ "collision" \notin events =>
             \A id \in Held(elements') : index'[elements'[id].val] = id
      /\ BusFits' /\ StampsFit'
  BY <1>1, RemovesFacts
<1>3. Types'
  BY <1>1, <1>2 DEF IInv, Types, readerVars
<1>4. IndexFits'
  BY <1>1, <1>2 DEF IndexFits
<1>5. SnapshotRead' /\ Current'
  BY <1>1 DEF IInv, SnapshotRead, Current, readerVars
<1> QED
  BY <1>2, <1>3, <1>4, <1>5 DEF IInv

LEMMA ClearStep ==
    ASSUME IInv, alive, Clear
    PROVE  IInv'
<1>0. PICK some \in SUBSET Indexed : \E vs \in SetToSeqs(some) :
          Removes(vs) /\ Sends(Gone(vs)) /\ UNCHANGED events
  BY DEF Clear
<1>1. PICK vs \in SetToSeqs(some) :
          Removes(vs) /\ Sends(Gone(vs)) /\ UNCHANGED events
  BY <1>0
<1>2. IsFiniteSet(some)
  BY IndexedFinite, FS_Subset DEF IInv
<1>3. vs \in Seq(Indexed)
  BY <1>2, OrderFacts
<1> QED
  BY <1>1, <1>3, RemoveStep

LEMMA RemoveValueStep ==
    ASSUME IInv, alive, NEW v \in Values, RemoveValue(v)
    PROVE  IInv'
<1>1. <<v>> \in Seq(Indexed)
  BY DEF RemoveValue
<1> QED
  BY <1>1, RemoveStep DEF RemoveValue

LEMMA DestructStep ==
    ASSUME IInv, alive, Destruct
    PROVE  IInv'
<1>1. PICK some \in SUBSET Indexed :
          \E vs \in SetToSeqs(some) :
              /\ Removes(vs)
              /\ alive' = FALSE
              /\ wire' = wire \o Gone(vs)
              /\ events' = events \cup (IF some = Indexed THEN {} ELSE {"kept"})
              /\ published' = (published /\ some = {})
              /\ UNCHANGED <<posts, readerVars>>
  BY DEF Destruct
<1>2. PICK vs \in SetToSeqs(some) :
          /\ Removes(vs)
          /\ alive' = FALSE
          /\ wire' = wire \o Gone(vs)
          /\ events' = events \cup (IF some = Indexed THEN {} ELSE {"kept"})
          /\ published' = (published /\ some = {})
          /\ UNCHANGED <<posts, readerVars>>
  BY <1>1
<1>3. /\ vs \in Seq(Indexed) /\ ToSet(vs) = some
      /\ some = {} <=> vs = <<>>
  <2>1. IsFiniteSet(some)
    BY IndexedFinite, FS_Subset DEF IInv
  <2> QED
    BY <2>1, OrderFacts
<1>4. events \subseteq events' /\ clock' = clock
  BY <1>2 DEF Removes
<1>5. /\ elements' \in Tables /\ index' \in [Values -> Ids \cup {NIL}]
      /\ wire' \in Seq(Samples) /\ metadata' \in Descriptions
      /\ \A v \in Indexed' :
             elements'[index'[v]] # Absent /\ elements'[index'[v]].val = v
      /\ "collision" \notin events =>
             \A id \in Held(elements') : index'[elements'[id].val] = id
      /\ "collision" \notin events /\ ToSet(vs) = Indexed
             => Held(elements') = {}
      /\ vs = <<>> => UNCHANGED <<elements, metadata, wire>>
      /\ BusFits' /\ StampsFit'
  BY <1>2, <1>3, <1>4, RemovesFacts
<1>6. Types'
  <2>1. events' \subseteq Disturbances
    BY <1>2 DEF IInv, Types, Disturbances
  <2>2. published' \in BOOLEAN
    BY <1>2 DEF IInv, Types
  <2> QED
    BY <1>2, <1>4, <1>5, <2>1, <2>2 DEF IInv, Types, readerVars
<1>7. IndexFits'
  BY <1>2, <1>3, <1>5 DEF IndexFits
<1>8. SnapshotRead' /\ Current'
  <2>1. CASE vs = <<>>
    BY <1>2, <1>3, <1>4, <1>5, <2>1 DEF IInv, SnapshotRead, Current, readerVars
  <2>2. CASE vs # <<>>
    BY <1>2, <1>3, <2>2 DEF IInv, SnapshotRead, Current, readerVars
  <2> QED
    BY <2>1, <2>2
<1> QED
  BY <1>5, <1>6, <1>7, <1>8 DEF IInv

LEMMA PublishStep ==
    ASSUME IInv, Publish
    PROVE  IInv'
<1> DEFINE p == [described |-> metadata, behind |-> Len(wire)]
<1>1. /\ Types /\ StampsFit /\ BusFits /\ Len(posts) < MaxPosts
      /\ posts' = Append(posts, p) /\ published' = TRUE
      /\ UNCHANGED <<writerVars, wire, readerVars, events>>
  BY DEF IInv, Publish
<1>2. /\ p \in Posted /\ p.described = metadata /\ p.behind = Len(wire)
      /\ Len(wire) \in Nat
  BY <1>1 DEF Types, Posted
<1>3. posts \in Seq(Posted)
  BY <1>1 DEF Types
<1> HIDE DEF p
<1>4. /\ posts' \in Seq(Posted) /\ Len(posts') = Len(posts) + 1
      /\ Len(posts) \in Nat
      /\ posts'[Len(posts')] = p /\ \A i \in DOMAIN posts : posts'[i] = posts[i]
      /\ \A i \in DOMAIN posts' : i # Len(posts') => i \in DOMAIN posts
      /\ posts' # <<>> /\ Len(posts') <= MaxPosts
  BY <1>1, <1>2, <1>3, LargeSetAssumption
<1>5. Types'
  BY <1>1, <1>4 DEF Types, writerVars, readerVars
<1>6. FitsFrom(table, wire, metadata, Len(wire))
  <2>1. /\ elements \in Tables /\ metadata.ts \in Times
        /\ metadata = Described(elements, metadata.ts)
    BY <1>1 DEF Types, StampsFit, Descriptions
  <2>2. \A id \in Ids : Fits(elements[id], metadata)
    BY <2>1, DescribedFacts
  <2>3. \A id \in Ids : Fits(Applied(table, wire)[id], metadata)
    BY <1>1, <2>2 DEF BusFits, Fits
  <2>4. SubSeq(wire, 1, Len(wire)) = wire
    BY <1>1, WholePrefix DEF Types
  <2>5. \A k \in Len(wire) .. Len(wire) : k = Len(wire)
    BY <1>2
  <2> QED
    BY <2>3, <2>4, <2>5 DEF FitsFrom
<1>7. BusFits'
  <2> SUFFICES ASSUME NEW i \in DOMAIN posts'
               PROVE  /\ posts'[i].behind <= Len(wire)
                      /\ FitsFrom(table, wire, posts'[i].described, posts'[i].behind)
    BY <1>1 DEF BusFits, writerVars, readerVars
  <2>1. CASE i = Len(posts')
    BY <1>2, <1>4, <1>6, <2>1
  <2>2. CASE i # Len(posts')
    BY <1>1, <1>4, <2>2 DEF BusFits
  <2> QED
    BY <2>1, <2>2
<1>8. StampsFit'
  <2>1. /\ clock \in Nat /\ latest.ts \in Nat /\ latest.ts <= clock
        /\ metadata.ts \in {Never, clock} /\ Never <= clock
    BY <1>1, LargeSetAssumption DEF Types, StampsFit, Times, Never, Descriptions
  <2>2. ASSUME NEW i \in DOMAIN posts'
        PROVE  /\ posts'[i].described.ts <= clock
               /\ posts'[i].described.ts # Never =>
                      /\ latest.ts <= posts'[i].described.ts
                      /\ \A j \in 1 .. i - 1 :
                             posts'[j].described.ts <= posts'[i].described.ts
    <3>1. CASE i = Len(posts')
      <4>1. \A j \in 1 .. i - 1 : j \in DOMAIN posts /\ posts'[j] = posts[j]
        BY <1>3, <1>4, <3>1
      <4>2. \A j \in DOMAIN posts : posts[j].described.ts <= clock
        BY <1>1 DEF StampsFit
      <4> QED
        BY <1>2, <1>4, <2>1, <3>1, <4>1, <4>2
    <3>2. CASE i # Len(posts')
      <4>1. i \in DOMAIN posts /\ posts'[i] = posts[i]
        BY <1>4, <3>2
      <4>2. \A j \in 1 .. i - 1 : j \in DOMAIN posts /\ posts'[j] = posts[j]
        BY <1>3, <1>4, <4>1
      <4> QED
        BY <1>1, <4>1, <4>2 DEF StampsFit
    <3> QED
      BY <3>1, <3>2
  <2> QED
    BY <1>1, <2>2 DEF StampsFit, writerVars, readerVars
<1>9. Current'
  BY <1>1, <1>4 DEF Current, p, writerVars
<1>10. IndexFits' /\ SnapshotRead'
  BY <1>1 DEF IInv, IndexFits, SnapshotRead, writerVars, readerVars, Indexed, Held
<1> QED
  BY <1>5, <1>7, <1>8, <1>9, <1>10 DEF IInv

-----------------------------------------------------------------------------
(* The reader.                                                             *)

LEMMA NearerFacts ==
    ASSUME NEW seq \in Seq(Posted), NEW k \in Nat
    PROVE  /\ Nearer(seq, k) \in Seq(Posted) /\ Len(Nearer(seq, k)) = Len(seq)
           /\ DOMAIN Nearer(seq, k) = DOMAIN seq
           /\ \A i \in DOMAIN seq :
                  Nearer(seq, k)[i] =
                      [described |-> seq[i].described,
                       behind |-> IF seq[i].behind > k
                                  THEN seq[i].behind - k ELSE 0]
<1> DEFINE left(b) == IF b > k THEN b - k ELSE 0
<1>1. ASSUME NEW p \in Posted
      PROVE  /\ [p EXCEPT !.behind = IF @ > k THEN @ - k ELSE 0] =
                    [described |-> p.described, behind |-> left(p.behind)]
             /\ [described |-> p.described, behind |-> left(p.behind)] \in Posted
  BY DEF Posted
<1>2. \A i \in DOMAIN seq : seq[i] \in Posted
  OBVIOUS
<1>3. \A i \in DOMAIN seq :
          /\ Nearer(seq, k)[i] =
                 [described |-> seq[i].described, behind |-> left(seq[i].behind)]
          /\ Nearer(seq, k)[i] \in Posted
  BY <1>1, <1>2 DEF Nearer
<1>4. /\ DOMAIN Nearer(seq, k) = 1 .. Len(seq)
      /\ Nearer(seq, k) = [i \in 1 .. Len(seq) |-> Nearer(seq, k)[i]]
  BY DEF Nearer
<1>5. Nearer(seq, k) \in Seq(Posted)
  <2>1. \A i \in 1 .. Len(seq) : Nearer(seq, k)[i] \in Posted
    <3>1. DOMAIN seq = 1 .. Len(seq)
      OBVIOUS
    <3> QED
      BY <1>3, <3>1
  <2>2. Nearer(seq, k) \in [1 .. Len(seq) -> Posted]
    BY <1>4, <2>1, Zenon
  <2>3. Len(seq) \in Nat
    OBVIOUS
  <2> HIDE DEF left
  <2> QED
    BY <2>2, <2>3
<1>6. Len(Nearer(seq, k)) = Len(seq)
  BY <1>4, <1>5
<1> QED
  BY SMTT(30), <1>3, <1>4, <1>5, <1>6

\* k samples are drained, or lost with what the reader had.
LEMMA DrainedBus ==
    ASSUME Types, BusFits, NEW k \in 0 .. Len(wire),
           \/ table' = Applied(table, SubSeq(wire, 1, k))
           \/ table' = NoElements /\ "removed" \in events',
           events \subseteq events',
           wire' = SubSeq(wire, k + 1, Len(wire)), elements' = elements
    PROVE  /\ table' \in Tables /\ wire' \in Seq(Samples)
           /\ Len(wire') = Len(wire) - k
           /\ \A id \in Ids :
                  \/ Applied(table', wire')[id] = elements'[id]
                  \/ Applied(table', wire')[id] = Absent /\ "removed" \in events'
           /\ \A m, b : b \in Nat /\ FitsFrom(table, wire, m, b) =>
                  FitsFrom(table', wire', m, IF b > k THEN b - k ELSE 0)
<1> DEFINE first == SubSeq(wire, 1, k)
           rest  == SubSeq(wire, k + 1, Len(wire))
<1>1. /\ table \in Tables /\ wire \in Seq(Samples)
      /\ first \in Seq(Samples) /\ rest \in Seq(Samples)
      /\ Len(rest) = Len(wire) - k /\ wire = first \o rest
  <2>1. table \in Tables /\ wire \in Seq(Samples)
    BY DEF Types
  <2>2. first \in Seq(Samples) /\ rest \in Seq(Samples)
        /\ Len(rest) = Len(wire) - k
    BY <2>1
  <2>3. wire = first \o rest
    <3>1. Len(wire) - k \in 0 .. Len(wire) - k /\ k + (Len(wire) - k) = Len(wire)
      BY <2>1
    <3>2. SubSeq(wire, 1, Len(wire)) = first \o SubSeq(rest, 1, Len(wire) - k)
      BY <2>1, <3>1, PrefixOfRest
    <3> HIDE DEF first, rest
    <3>3. SubSeq(rest, 1, Len(wire) - k) = rest
      BY <2>2, WholePrefix
    <3> QED
      BY <2>1, <3>2, <3>3, WholePrefix
  <2> QED
    BY <2>1, <2>2, <2>3
<1> HIDE DEF first, rest
<1>2. Applied(table, first) \in Tables /\ NoElements \in Tables
  BY <1>1, AppliedType, NoElementsFacts
<1>3. Applied(Applied(table, first), rest) = Applied(table, wire)
  BY <1>1, AppliedTwice
<1>4. /\ table' \in Tables /\ wire' \in Seq(Samples)
      /\ Len(wire') = Len(wire) - k /\ wire' = rest
      /\ \/ table' = Applied(table, first)
         \/ table' = NoElements /\ "removed" \in events'
  BY <1>1, <1>2 DEF first, rest
<1>5. ASSUME NEW id \in Ids
      PROVE  \/ Applied(table', wire')[id] = elements'[id]
             \/ Applied(table', wire')[id] = Absent /\ "removed" \in events'
  <2>1. \/ Applied(table, wire)[id] = elements[id]
        \/ Applied(table, wire)[id] = Absent /\ "removed" \in events
    BY DEF BusFits
  <2>2. CASE table' = Applied(table, first)
    BY <1>3, <1>4, <2>1, <2>2
  <2>3. CASE table' = NoElements /\ "removed" \in events'
    <3>1. \/ Applied(NoElements, rest)[id] = NoElements[id]
          \/ Applied(NoElements, rest)[id] = Applied(Applied(table, first), rest)[id]
      BY <1>1, ForgottenFrom
    <3>2. NoElements[id] = Absent
      BY DEF NoElements
    <3> QED
      BY <1>3, <1>4, <2>1, <2>3, <3>1, <3>2
  <2> QED
    BY <1>4, <2>2, <2>3
<1>6. ASSUME NEW m, NEW b \in Nat, FitsFrom(table, wire, m, b)
      PROVE  FitsFrom(table', wire', m, IF b > k THEN b - k ELSE 0)
  <2> DEFINE c == IF b > k THEN b - k ELSE 0
  <2>1. FitsFrom(Applied(table, first), rest, m, c)
    BY <1>1, <1>6, FitsDrained DEF first, rest
  <2>2. c \in Nat
    OBVIOUS
  <2> HIDE DEF c
  <2>3. FitsFrom(NoElements, rest, m, c)
    BY <1>1, <2>1, <2>2, FitsForgotten
  <2>4. FitsFrom(table', wire', m, c)
    BY <1>4, <2>1, <2>3
  <2> QED
    BY <2>4 DEF c
<1> QED
  BY <1>4, <1>5, <1>6

\* Metadata of a suffix of those under way, as they are after the draining.
LEMMA DrainedPosts ==
    ASSUME Types, BusFits, NEW k \in 0 .. Len(wire), NEW seq \in Seq(Posted),
           posts' = Nearer(seq, k),
           \A i \in DOMAIN seq : \E j \in DOMAIN posts : seq[i] = posts[j],
           Len(wire') = Len(wire) - k,
           \A m, b : b \in Nat /\ FitsFrom(table, wire, m, b) =>
               FitsFrom(table', wire', m, IF b > k THEN b - k ELSE 0)
    PROVE  \A i \in DOMAIN posts' :
               /\ posts'[i].behind <= Len(wire')
               /\ FitsFrom(table', wire', posts'[i].described, posts'[i].behind)
<1> SUFFICES ASSUME NEW i \in DOMAIN posts'
             PROVE  /\ posts'[i].behind <= Len(wire')
                    /\ FitsFrom(table', wire', posts'[i].described,
                                posts'[i].behind)
  OBVIOUS
<1>1. /\ i \in DOMAIN seq
      /\ posts'[i].described = seq[i].described
      /\ posts'[i].behind = IF seq[i].behind > k THEN seq[i].behind - k ELSE 0
  <2>1. k \in Nat
    BY DEF Types
  <2>2. i \in DOMAIN seq
    BY <2>1, NearerFacts
  <2>3. posts'[i] = [described |-> seq[i].described,
                     behind |-> IF seq[i].behind > k
                                THEN seq[i].behind - k ELSE 0]
    BY <2>1, <2>2, NearerFacts
  <2> QED
    BY <2>2, <2>3
<1>2. PICK j \in DOMAIN posts : seq[i] = posts[j]
  BY <1>1
<1>3. /\ posts[j].behind \in Nat /\ posts[j].behind <= Len(wire)
      /\ FitsFrom(table, wire, posts[j].described, posts[j].behind)
  BY PostFacts DEF BusFits
<1>4. Len(wire) \in Nat
  BY DEF Types
<1>5. posts'[i].behind <= Len(wire')
  BY <1>1, <1>2, <1>3, <1>4
<1>6. FitsFrom(table', wire', posts'[i].described, posts'[i].behind)
  BY <1>1, <1>2, <1>3
<1> QED
  BY <1>5, <1>6

LEMMA GetSetByIdStep ==
    ASSUME IInv, GetSetById
    PROVE  IInv'
<1>1. PICK k \in 0 .. Len(wire) : Drains(k) /\ posts' = Nearer(posts, k)
  BY DEF GetSetById
<1>2. /\ Types /\ StampsFit /\ BusFits /\ k \in Nat /\ posts \in Seq(Posted)
      /\ wire \in Seq(Samples) /\ latest \in Descriptions
  BY DEF IInv, Types
<1>3. /\ cache' = IF cache.is THEN cache ELSE Generated(table', latest)
      /\ UNCHANGED <<elements, index, metadata, clock, alive>>
      /\ UNCHANGED <<published, latest, events>>
      /\ table' = Applied(table, SubSeq(wire, 1, k))
      /\ wire' = SubSeq(wire, k + 1, Len(wire))
  BY <1>1 DEF GetSetById, Drains, writerVars
<1>4. /\ table' \in Tables /\ wire' \in Seq(Samples)
      /\ Len(wire') = Len(wire) - k
      /\ \A id \in Ids :
             \/ Applied(table', wire')[id] = elements'[id]
             \/ Applied(table', wire')[id] = Absent /\ "removed" \in events'
      /\ \A m, b : b \in Nat /\ FitsFrom(table, wire, m, b) =>
             FitsFrom(table', wire', m, IF b > k THEN b - k ELSE 0)
  BY <1>2, <1>3, DrainedBus
<1>5. /\ posts' \in Seq(Posted) /\ Len(posts') = Len(posts)
      /\ DOMAIN posts' = DOMAIN posts
      /\ \A i \in DOMAIN posts :
             posts'[i] = [described |-> posts[i].described,
                          behind |-> IF posts[i].behind > k
                                     THEN posts[i].behind - k ELSE 0]
  BY <1>1, <1>2, NearerFacts
<1>6. BusFits'
  <2>1. FitsFrom(table', wire', latest', 0)
    BY <1>2, <1>3, <1>4 DEF BusFits
  <2>2. \A i \in DOMAIN posts' :
            /\ posts'[i].behind <= Len(wire')
            /\ FitsFrom(table', wire', posts'[i].described, posts'[i].behind)
    BY <1>1, <1>2, <1>4, DrainedPosts
  <2> QED
    BY <1>4, <2>1, <2>2 DEF BusFits
<1>7. /\ cache' \in [is : BOOLEAN, set : SUBSET Values]
      /\ cache'.is /\ ~ cache.is => cache'.set = Contents(table')
      /\ cache'.is /\ ~ cache.is /\ latest.ts # Never => cache'.set = latest.set
  <2>1. \A id \in Ids : Fits(table'[id], latest)
    BY <1>2, <1>3 DEF BusFits, FitsFrom
  <2> QED
    BY <1>2, <1>3, <1>4, <2>1, GeneratedFacts DEF Types
<1>8. Types' /\ SnapshotRead'
  <2>1. Len(posts') <= MaxPosts
    BY <1>2, <1>5 DEF Types
  <2> QED
    BY <1>2, <1>3, <1>4, <1>5, <1>7, <2>1 DEF Types, IInv, SnapshotRead
<1>9. StampsFit'
  <2>1. \A i \in DOMAIN posts : posts'[i].described = posts[i].described
    BY <1>5
  <2>2. \A i \in DOMAIN posts : \A j \in 1 .. i - 1 : j \in DOMAIN posts
    BY <1>2
  <2> QED
    BY <1>2, <1>3, <1>5, <2>1, <2>2 DEF StampsFit
<1>10. Current'
  <2> SUFFICES ASSUME published, "removed" \notin events
               PROVE  IF posts' = <<>>
                      THEN /\ wire' = <<>> /\ latest' = metadata'
                           /\ cache'.is => cache'.set = Contents(elements')
                      ELSE posts'[Len(posts')] =
                               [described |-> metadata', behind |-> Len(wire')]
    BY <1>3 DEF Current
  <2>1. IF posts = <<>>
        THEN /\ wire = <<>> /\ latest = metadata
             /\ cache.is => cache.set = Contents(elements)
        ELSE posts[Len(posts)] = [described |-> metadata, behind |-> Len(wire)]
    BY DEF IInv, Current
  <2>2. CASE posts = <<>>
    <3>1. Len(wire) = 0 /\ k = 0
      BY <1>2, <2>1, <2>2
    <3>2. posts' = <<>>
      BY <1>5, <2>2
    <3>3. wire' = <<>>
      BY <1>4, <3>1
    <3>4. Applied(table', wire') = table'
      BY <1>4, <3>3, AppliedNothing
    <3>5. table' = elements
      BY <1>2, <1>3, <1>4, <3>4 DEF Types, Tables
    <3> QED
      BY <1>3, <1>7, <2>1, <2>2, <3>5, <3>2, <3>3
  <2>3. CASE posts # <<>>
    <3>1. Len(posts) \in DOMAIN posts /\ posts' # <<>>
      BY <1>2, <1>5, <2>3
    <3>2. posts'[Len(posts')].described = metadata
          /\ posts'[Len(posts')].behind = Len(wire) - k
      BY <1>2, <1>5, <2>1, <2>3, <3>1
    <3> QED
      BY <1>3, <1>4, <1>5, <2>1, <2>3, <3>1, <3>2
  <2> QED
    BY <2>2, <2>3
<1>11. IndexFits'
  BY <1>3 DEF IInv, IndexFits, Indexed, Held
<1> QED
  BY <1>6, <1>8, <1>9, <1>10, <1>11 DEF IInv

LEMMA RemoveSetByIdStep ==
    ASSUME IInv, RemoveSetById
    PROVE  IInv'
<1>1. PICK k \in 0 .. Len(wire) :
          wire' = SubSeq(wire, k + 1, Len(wire)) /\ posts' = Nearer(posts, k)
  BY DEF RemoveSetById
<1>2. /\ Types /\ StampsFit /\ BusFits /\ k \in Nat /\ posts \in Seq(Posted)
      /\ wire \in Seq(Samples)
  BY DEF IInv, Types
<1>3. /\ table' = NoElements /\ latest' = NoMetadata /\ cache' = Nothing
      /\ UNCHANGED <<elements, index, metadata, clock, alive, published>>
      /\ events' = events \cup {"removed"}
  BY DEF RemoveSetById, writerVars
<1>4. /\ table' \in Tables /\ wire' \in Seq(Samples)
      /\ Len(wire') = Len(wire) - k
      /\ \A id \in Ids :
             \/ Applied(table', wire')[id] = elements'[id]
             \/ Applied(table', wire')[id] = Absent /\ "removed" \in events'
      /\ \A m, b : b \in Nat /\ FitsFrom(table, wire, m, b) =>
             FitsFrom(table', wire', m, IF b > k THEN b - k ELSE 0)
  BY <1>1, <1>2, <1>3, DrainedBus
<1>5. /\ posts' \in Seq(Posted) /\ Len(posts') = Len(posts)
      /\ DOMAIN posts' = DOMAIN posts
      /\ \A i \in DOMAIN posts :
             posts'[i] = [described |-> posts[i].described,
                          behind |-> IF posts[i].behind > k
                                     THEN posts[i].behind - k ELSE 0]
  BY <1>1, <1>2, NearerFacts
<1>6. BusFits'
  <2>1. FitsFrom(table', wire', latest', 0)
    BY <1>3, NoElementsFacts DEF FitsFrom, Fits
  <2>2. \A i \in DOMAIN posts' :
            /\ posts'[i].behind <= Len(wire')
            /\ FitsFrom(table', wire', posts'[i].described, posts'[i].behind)
    BY <1>1, <1>2, <1>4, DrainedPosts
  <2> QED
    BY <1>4, <2>1, <2>2 DEF BusFits
<1>7. Types' /\ SnapshotRead' /\ Current'
  <2>1. Len(posts') <= MaxPosts /\ events' \subseteq Disturbances
    BY <1>2, <1>3, <1>5 DEF Types, Disturbances
  <2>2. Nothing \in [is : BOOLEAN, set : SUBSET Values] /\ ~ Nothing.is
    BY DEF Nothing
  <2> QED
    BY <1>2, <1>3, <1>4, <1>5, <2>1, <2>2, NoElementsFacts
       DEF Types, SnapshotRead, Current
<1>8. StampsFit'
  <2>1. \A i \in DOMAIN posts : \A j \in 1 .. i - 1 : j \in DOMAIN posts
    BY <1>2
  <2>2. /\ \A i \in DOMAIN posts : posts[i].described.ts \in Nat
        /\ clock \in Nat
    BY <1>2, PostFacts DEF Types, Times
  <2>3. \A i \in DOMAIN posts : posts'[i].described = posts[i].described
    BY <1>5
  <2>4. latest'.ts = 0
    BY <1>3, NoElementsFacts DEF Never
  <2>5. \A i \in DOMAIN posts' : posts'[i].described.ts <= clock'
    BY <1>2, <1>3, <1>5, <2>3 DEF StampsFit
  <2>6. ASSUME NEW i \in DOMAIN posts', posts'[i].described.ts # Never
        PROVE  /\ latest'.ts <= posts'[i].described.ts
               /\ \A j \in 1 .. i - 1 :
                      posts'[j].described.ts <= posts'[i].described.ts
    <3>1. i \in DOMAIN posts /\ posts'[i].described = posts[i].described
      BY <1>5, <2>3
    <3>2. \A j \in 1 .. i - 1 : posts[j].described.ts <= posts[i].described.ts
      BY <1>2, <2>6, <3>1 DEF StampsFit
    <3> QED
      BY <2>1, <2>2, <2>3, <2>4, <3>1, <3>2
  <2>7. /\ metadata' = Described(elements', metadata'.ts)
        /\ metadata'.ts \in {Never, clock'}
        /\ \A id \in Held(elements') : elements'[id].ts <= clock'
    BY <1>2, <1>3 DEF StampsFit
  <2>8. latest'.ts <= clock'
    BY <1>3, <2>2, <2>4
  <2> QED
    BY <2>5, <2>6, <2>7, <2>8 DEF StampsFit
<1>9. IndexFits'
  BY <1>3 DEF IInv, IndexFits, Indexed, Held
<1> QED
  BY <1>6, <1>7, <1>8, <1>9 DEF IInv

LEMMA GetSetFromMetadataStep ==
    ASSUME Ordered, IInv, GetSetFromMetadata
    PROVE  IInv'
<1> DEFINE m == Head(posts).described
<1>1. PICK k \in 0 .. Len(wire) :
          /\ k >= Head(posts).behind
          /\ Drains(k)
          /\ posts' = Nearer(Tail(posts), k)
  BY DEF GetSetFromMetadata
<1>2. /\ Types /\ StampsFit /\ BusFits /\ k \in Nat /\ posts \in Seq(Posted)
      /\ wire \in Seq(Samples) /\ posts # <<>>
  BY DEF IInv, Types, GetSetFromMetadata
<1>3. /\ IF Accepts(m) THEN latest' = m /\ cache' = Generated(table', m)
         ELSE UNCHANGED <<latest, cache>>
      /\ UNCHANGED <<elements, index, metadata, clock, alive>>
      /\ UNCHANGED <<published, events>>
      /\ table' = Applied(table, SubSeq(wire, 1, k))
      /\ wire' = SubSeq(wire, k + 1, Len(wire))
  BY <1>1 DEF GetSetFromMetadata, Drains, writerVars
<1>4. /\ table' \in Tables /\ wire' \in Seq(Samples)
      /\ Len(wire') = Len(wire) - k
      /\ \A id \in Ids :
             \/ Applied(table', wire')[id] = elements'[id]
             \/ Applied(table', wire')[id] = Absent /\ "removed" \in events'
      /\ \A d, b : b \in Nat /\ FitsFrom(table, wire, d, b) =>
             FitsFrom(table', wire', d, IF b > k THEN b - k ELSE 0)
  BY <1>2, <1>3, DrainedBus
<1>5. /\ Tail(posts) \in Seq(Posted) /\ Len(Tail(posts)) = Len(posts) - 1
      /\ Len(posts) \in Nat /\ Len(posts) >= 1
      /\ DOMAIN Tail(posts) = 1 .. Len(posts) - 1
      /\ \A i \in 1 .. Len(posts) - 1 :
             Tail(posts)[i] = posts[i + 1] /\ i + 1 \in DOMAIN posts
      /\ Head(posts) = posts[1] /\ 1 \in DOMAIN posts
  BY <1>2
<1>6. /\ posts' \in Seq(Posted) /\ Len(posts') = Len(posts) - 1
      /\ DOMAIN posts' = 1 .. Len(posts) - 1
      /\ \A i \in 1 .. Len(posts) - 1 :
             posts'[i] = [described |-> posts[i + 1].described,
                          behind |-> IF posts[i + 1].behind > k
                                     THEN posts[i + 1].behind - k ELSE 0]
  <2> DEFINE rest == Tail(posts)
  <2>1. /\ rest \in Seq(Posted) /\ Len(rest) = Len(posts) - 1
        /\ DOMAIN rest = 1 .. Len(posts) - 1
        /\ \A i \in 1 .. Len(posts) - 1 : rest[i] = posts[i + 1]
        /\ posts' = Nearer(rest, k)
    BY <1>1, <1>5
  <2> HIDE DEF rest
  <2>2. /\ posts' \in Seq(Posted) /\ Len(posts') = Len(rest)
        /\ DOMAIN posts' = DOMAIN rest
        /\ \A i \in DOMAIN rest :
               posts'[i] = [described |-> rest[i].described,
                            behind |-> IF rest[i].behind > k
                                       THEN rest[i].behind - k ELSE 0]
    BY <1>2, <2>1, NearerFacts
  <2> QED
    BY <2>1, <2>2
<1>7. /\ m \in Descriptions /\ m = posts[1].described /\ posts[1].behind <= k
      /\ posts[1].behind \in Nat /\ m.ts <= clock /\ m.ts \in Nat
      /\ m.ts # Never => latest.ts <= m.ts
      /\ FitsFrom(table, wire, m, posts[1].behind)
  BY <1>1, <1>2, <1>5, PostFacts DEF StampsFit, BusFits
<1> HIDE DEF m
<1>8. Accepts(m)
  BY <1>7 DEF Accepts
<1>9. latest' = m /\ cache' = Generated(table', m)
  BY <1>3, <1>8
<1>10. BusFits'
  <2>1. FitsFrom(table', wire', latest', 0)
    BY <1>4, <1>7, <1>9
  <2>2. \A i \in DOMAIN Tail(posts) : \E j \in DOMAIN posts : Tail(posts)[i] = posts[j]
    BY <1>5
  <2>3. \A i \in DOMAIN posts' :
            /\ posts'[i].behind <= Len(wire')
            /\ FitsFrom(table', wire', posts'[i].described, posts'[i].behind)
    BY <1>1, <1>2, <1>4, <1>5, <2>2, DrainedPosts
  <2> QED
    BY <1>4, <2>1, <2>3 DEF BusFits
<1>11. /\ cache' \in [is : BOOLEAN, set : SUBSET Values]
       /\ cache'.is => cache'.set = Contents(table')
       /\ cache'.is /\ m.ts # Never => cache'.set = m.set
  <2>1. k \in posts[1].behind .. Len(wire)
    BY <1>2, <1>7
  <2>2. \A id \in Ids : Fits(table'[id], m)
    BY <1>3, <1>7, <2>1 DEF FitsFrom
  <2> QED
    BY <1>4, <1>7, <1>9, <2>2, GeneratedFacts
<1>12. Types' /\ SnapshotRead'
  <2>1. Len(posts') <= MaxPosts
    BY <1>2, <1>5, <1>6, LargeSetAssumption DEF Types
  <2>2. Types'
    BY <1>2, <1>3, <1>4, <1>6, <1>7, <1>9, <1>11, <2>1 DEF Types
  <2> QED
    BY <1>9, <1>11, <2>2 DEF SnapshotRead
<1>13. StampsFit'
  <2>1. \A i \in 1 .. Len(posts) - 1 : posts'[i].described = posts[i + 1].described
    BY <1>6
  <2>2. \A i \in DOMAIN posts : posts[i].described.ts <= clock
    BY <1>2 DEF StampsFit
  <2>3. ASSUME NEW i \in 1 .. Len(posts) - 1, posts[i + 1].described.ts # Never,
               NEW j \in 1 .. i
        PROVE  posts[j].described.ts <= posts[i + 1].described.ts
    <3>1. i + 1 \in DOMAIN posts /\ j \in 1 .. (i + 1) - 1
      BY <1>5
    <3> QED
      BY <1>2, <2>3, <3>1 DEF StampsFit
  <2>4. ASSUME NEW i \in DOMAIN posts', posts'[i].described.ts # Never
        PROVE  /\ latest'.ts <= posts'[i].described.ts
               /\ \A j \in 1 .. i - 1 :
                      posts'[j].described.ts <= posts'[i].described.ts
    <3>1. i \in 1 .. Len(posts) - 1 /\ posts'[i].described = posts[i + 1].described
      BY <1>6, <2>1
    <3>2. posts[1].described.ts <= posts[i + 1].described.ts
      BY <2>3, <2>4, <3>1
    <3>3. ASSUME NEW j \in 1 .. i - 1
          PROVE  posts'[j].described.ts <= posts'[i].described.ts
      <4>1. j + 1 \in 1 .. i /\ j \in 1 .. Len(posts) - 1
        BY <1>5, <3>1
      <4> QED
        BY <2>1, <2>3, <2>4, <3>1, <4>1
    <3> QED
      BY <1>7, <1>9, <3>1, <3>2, <3>3
  <2>5. \A i \in DOMAIN posts' : posts'[i].described.ts <= clock'
    BY <1>3, <1>5, <1>6, <2>1, <2>2
  <2>6. /\ metadata' = Described(elements', metadata'.ts)
        /\ metadata'.ts \in {Never, clock'}
        /\ \A id \in Held(elements') : elements'[id].ts <= clock'
    BY <1>2, <1>3 DEF StampsFit
  <2>7. latest'.ts <= clock'
    BY <1>3, <1>7, <1>9
  <2> QED
    BY <2>4, <2>5, <2>6, <2>7 DEF StampsFit
<1>14. Current'
  <2> SUFFICES ASSUME published, "removed" \notin events
               PROVE  IF posts' = <<>>
                      THEN /\ wire' = <<>> /\ latest' = metadata'
                           /\ cache'.is => cache'.set = Contents(elements')
                      ELSE posts'[Len(posts')] =
                               [described |-> metadata', behind |-> Len(wire')]
    BY <1>3 DEF Current
  <2>1. posts[Len(posts)] = [described |-> metadata, behind |-> Len(wire)]
    BY <1>2 DEF IInv, Current
  <2>2. CASE Len(posts) = 1
    <3>1. m = metadata /\ k = Len(wire)
      BY <1>2, <1>7, <2>1, <2>2
    <3>2. posts' = <<>> /\ Len(wire') = 0
      BY <1>4, <1>6, <2>2, <3>1
    <3>3. wire' = <<>>
      BY <1>4, <3>2
    <3>4. Applied(table', wire') = table'
      BY <1>4, <3>3, AppliedNothing
    <3>5. table' = elements
      BY <1>2, <1>3, <1>4, <3>4 DEF Types, Tables
    <3> QED
      BY <1>3, <1>9, <1>11, <3>1, <3>2, <3>3, <3>5
  <2>3. CASE Len(posts) # 1
    <3>1. /\ Len(posts') = Len(posts) - 1 /\ Len(posts') \in 1 .. Len(posts) - 1
          /\ posts' # <<>>
      BY <1>5, <1>6, <2>3
    <3>2. posts[Len(posts') + 1] = posts[Len(posts)]
      BY <1>5, <3>1
    <3>3. posts'[Len(posts')] =
              [described |-> metadata,
               behind |-> IF Len(wire) > k THEN Len(wire) - k ELSE 0]
      <4>1. /\ posts[Len(posts') + 1].described = metadata
            /\ posts[Len(posts') + 1].behind = Len(wire)
        BY <2>1, <3>2
      <4> QED
        BY <1>6, <3>1, <4>1
    <3>4. Len(wire') = IF Len(wire) > k THEN Len(wire) - k ELSE 0
      BY <1>2, <1>4
    <3> QED
      BY <1>3, <3>1, <3>3, <3>4
  <2> QED
    BY <2>2, <2>3
<1>15. IndexFits'
  BY <1>3 DEF IInv, IndexFits, Indexed, Held
<1> QED
  BY <1>10, <1>12, <1>13, <1>14, <1>15 DEF IInv

-----------------------------------------------------------------------------
(* The theorems.                                                           *)

LEMMA InitIInv == Init => IInv
<1> SUFFICES ASSUME Init PROVE IInv
  OBVIOUS
<1>1. /\ NoElements \in Tables /\ Held(NoElements) = {}
      /\ NoMetadata \in Descriptions /\ NoMetadata.ts = Never
      /\ NoMetadata = Described(NoElements, Never)
      /\ Nothing \in [is : BOOLEAN, set : SUBSET Values] /\ ~ Nothing.is
  BY NoElementsFacts DEF NoMetadata, Nothing
<1>2. /\ elements = NoElements /\ index = [v \in Values |-> NIL]
      /\ metadata = NoMetadata /\ clock = 0 /\ alive = TRUE
      /\ wire = <<>> /\ posts = <<>> /\ published = TRUE
      /\ table = NoElements /\ latest = NoMetadata /\ cache = Nothing
      /\ events = {}
  BY DEF Init
<1>3. Types
  <2>1. wire \in Seq(Samples) /\ posts \in Seq(Posted) /\ Len(posts) <= MaxPosts
    BY <1>2, LargeSetAssumption
  <2>2. clock \in Times
    BY <1>2, LargeSetAssumption DEF Times
  <2> QED
    BY <1>1, <1>2, <2>1, <2>2 DEF Types
<1>4. IndexFits
  BY <1>1, <1>2 DEF IndexFits, Indexed
<1>5. StampsFit
  BY <1>1, <1>2 DEF StampsFit, Never
<1>6. BusFits
  <2>1. Applied(table, wire) = elements
    BY <1>1, <1>2, AppliedNothing
  <2>2. FitsFrom(table, wire, latest, 0)
    BY <1>1, <1>2 DEF FitsFrom, Fits
  <2> QED
    BY <1>2, <2>1, <2>2 DEF BusFits
<1>7. SnapshotRead /\ Current
  BY <1>1, <1>2 DEF SnapshotRead, Current
<1> QED
  BY <1>3, <1>4, <1>5, <1>6, <1>7 DEF IInv

LEMMA NextIInv ==
    ASSUME Ordered, IInv, [Next]_vars
    PROVE  IInv'
<1>1. CASE Write
  <2> USE <1>1
  <2>1. alive
    BY DEF Write
  <2>2. ASSUME NEW old \in Values, NEW v \in Values, Update(old, v) PROVE IInv'
    BY <2>1, <2>2, UpdateStep
  <2>3. ASSUME NEW v \in Values, Insert(<<v>>) PROVE IInv'
    BY <2>1, <2>3, InsertStep, <<v>> \in Seq(Values)
  <2>4. ASSUME NEW v \in Values, NEW w \in Values, Insert(<<v, w>>) PROVE IInv'
    BY <2>1, <2>4, InsertStep, <<v, w>> \in Seq(Values)
  <2>5. ASSUME NEW v \in Values, RemoveValue(v) PROVE IInv'
    BY <2>1, <2>5, RemoveValueStep
  <2> QED
    BY <2>1, <2>2, <2>3, <2>4, <2>5, ClearStep, DestructStep, PublishStep DEF Write
<1>2. CASE UNCHANGED vars
  BY <1>2 DEF vars, writerVars, readerVars, IInv, Types, IndexFits, StampsFit,
     BusFits, SnapshotRead, Current, Indexed, Held
<1> QED
  BY <1>1, <1>2, GetSetFromMetadataStep, GetSetByIdStep, RemoveSetByIdStep DEF Next

LEMMA Invariance == ASSUME Ordered PROVE Spec => []IInv
<1>1. IInv /\ [Next]_vars => IInv'
  BY NextIInv
<1> QED
  BY <1>1, InitIInv, PTL DEF Spec

\* The writer's tables agree, and what a reader takes for a valid set is the
\* set the metadata were taken of, for all values, bounds and delays
\* (LargeSet::generateSet).
THEOREM SnapshotsAreReal == ASSUME Ordered PROVE Spec => []SetInv
<1>1. IInv => SetInv
  <2> SUFFICES ASSUME IInv PROVE SetInv
    OBVIOUS
  <2>1. DOMAIN elements = Ids /\ DOMAIN table = Ids
    BY DEF IInv, Types, Tables
  <2>2. metadata.size = Cardinality(Held(elements))
    BY DEF IInv, StampsFit, Described
  <2> QED
    BY <2>1, <2>2 DEF IInv, SetInv, TypeOK, Types, IndexFits, StampsFit
<1> QED
  BY <1>1, Invariance, PTL

\* Once everything has arrived the reader answers with the writer's set
\* (LargeSetReader::getSetById).
THEOREM ReaderCatchesUp == ASSUME Ordered PROVE Spec => []CatchesUp
<1>1. IInv => CatchesUp
  <2> SUFFICES ASSUME IInv, events = {}, wire = <<>>, posts = <<>>, published
               PROVE  /\ Generated(table, latest) =
                             IF Contents(elements) = {} THEN Nothing
                             ELSE Just(Contents(elements))
                      /\ cache.is => cache.set = Contents(elements)
    BY DEF CatchesUp
  <2>1. latest = metadata /\ (cache.is => cache.set = Contents(elements))
    BY DEF IInv, Current
  <2>2. table = elements
    <3>1. table \in Tables /\ elements \in Tables
      BY DEF IInv, Types
    <3>2. \A id \in Ids : table[id] = elements[id]
      BY <3>1, AppliedNothing DEF IInv, BusFits
    <3> QED
      BY <3>1, <3>2 DEF Tables
  <2>3. /\ metadata.size = Cardinality(Held(elements))
        /\ metadata.ts # Never =>
               \A id \in Held(elements) : elements[id].ts <= metadata.ts
    BY DEF IInv, StampsFit, Described
  <2>4. Cardinality(Contents(elements)) = Cardinality(Held(elements))
    <3>1. \A i, j \in Held(elements) : elements[i].val = elements[j].val => i = j
      BY DEF IInv, IndexFits
    <3> QED
      BY <3>1, HeldFinite DEF IInv, Types
  <2>5. Cardinality(Contents(elements)) = 0 <=> Contents(elements) = {}
    BY HeldFinite, FS_EmptySet DEF IInv, Types
  <2>6. Generated(table, latest) =
            IF Contents(elements) = {} THEN Nothing ELSE Just(Contents(elements))
    BY <2>1, <2>2, <2>3, <2>4, <2>5 DEF Generated
  <2> QED
    BY <2>1, <2>6
<1> QED
  BY <1>1, Invariance, PTL

\* A destructed writer leaves no element, on the bus or in the table of a
\* reader that has received everything (~LargeSetWriter).
THEOREM DestructorLeavesNothing == ASSUME Ordered PROVE Spec => []LeavesNothing
<1>1. IInv => LeavesNothing
  <2> SUFFICES ASSUME IInv, ~alive, events \cap {"collision", "kept"} = {}
               PROVE  /\ Held(elements) = {}
                      /\ wire = <<>> => Held(table) = {}
    BY DEF LeavesNothing
  <2>1. Held(elements) = {}
    BY DEF IInv, IndexFits
  <2>2. ASSUME wire = <<>> PROVE Held(table) = {}
    <3>1. Applied(table, wire) = table
      BY <2>2, AppliedNothing DEF IInv, Types
    <3>2. \A id \in Ids : table[id] = elements[id] \/ table[id] = Absent
      BY <3>1 DEF IInv, BusFits
    <3> QED
      BY <2>1, <3>2 DEF Held
  <2> QED
    BY <2>1, <2>2
<1> QED
  BY <1>1, Invariance, PTL
=============================================================================
