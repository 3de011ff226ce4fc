---------------------- MODULE ConditionalReportProofs ----------------------
(***************************************************************************)
(* The conditional report, for any conditionals, offers, bounds and        *)
(* failures: no conditional whose last change was whole names a payload    *)
(* that is not on the bus, and without a failure no payload is left over.  *)
(* A new payload has an id the bus has not seen, which the clock bounds;   *)
(* what is on the bus after samples of known keys is one of three cases.   *)
(* Then the constraints: an objective evaluates those it was commanded,    *)
(* whatever is between the report and its reader.  Last the observers of a *)
(* reader that loses nothing: what the reader shows, with what is on its   *)
(* way, is what the report's process has.                                  *)
(***************************************************************************)
EXTENDS ConditionalConstraints, Integers, TLAPS, FiniteSetTheorems,
        WellFoundedInduction

-----------------------------------------------------------------------------
(* Natural numbers.                                                        *)

LEMMA LeastNatural ==
    ASSUME NEW T, T \subseteq Nat, T # {}
    PROVE  \E x \in T : \A y \in T : x <= y
<1> DEFINE Below == {0 .. x - 1 : x \in T}
<1>1. Below # {} /\ Below \subseteq FiniteSubsetsOf(Nat)
  <2> SUFFICES ASSUME NEW x \in T
               PROVE  IsFiniteSet(0 .. x - 1) /\ 0 .. x - 1 \in SUBSET Nat
    BY DEF FiniteSubsetsOf
  <2> QED
    BY FS_Interval
<1>2. PICK b \in Below : \A c \in Below : ~ (<<c, b>> \in StrictSubsetOrdering(Nat))
  BY <1>1, FS_StrictSubsetOrderingWellFounded, WFMin
<1>3. PICK x \in T : b = 0 .. x - 1
  OBVIOUS
<1>4. ASSUME NEW y \in T, y < x PROVE FALSE
  <2>1. /\ 0 .. y - 1 \in Below /\ y \in b /\ y \notin 0 .. y - 1
        /\ 0 .. y - 1 \subseteq b
    BY <1>3, <1>4
  <2> HIDE DEF Below
  <2>2. <<0 .. y - 1, b>> \in StrictSubsetOrdering(Nat)
    <3>1. <<0 .. y - 1, b>> \in (SUBSET Nat) \X (SUBSET Nat)
      BY <1>3, SMT
    <3>2. 0 .. y - 1 # b
      BY <2>1
    <3> QED
      BY <3>1, <3>2, <2>1, Zenon DEF StrictSubsetOrdering
  <2> QED
    BY <2>1, <2>2, <1>2
<1> QED
  BY <1>4

LEMMA GreatestIndex ==
    ASSUME NEW n \in Nat, NEW T, T \subseteq 1 .. n, T # {}
    PROVE  \E x \in T : \A y \in T : y <= x
<1>1. PICK z \in {n - x : x \in T} : \A y \in {n - x : x \in T} : z <= y
  <2>1. \A x \in T : x \in Int /\ x <= n
    OBVIOUS
  <2>2. \A x \in T : n - x \in Nat
    BY <2>1
  <2>3. {n - x : x \in T} \subseteq Nat /\ {n - x : x \in T} # {}
    BY <2>2
  <2> QED
    BY <2>3, LeastNatural
<1>2. PICK x \in T : z = n - x
  OBVIOUS
<1>3. \A y \in T : n - x <= n - y
  BY <1>1, <1>2
<1> QED
  BY <1>3

LEMMA MaxIn ==
    ASSUME NEW n \in Nat, NEW T, T \subseteq 1 .. n, T # {}
    PROVE  Max(T) \in T /\ \A y \in T : y <= Max(T)
<1>1. PICK x \in T : \A y \in T : y <= x
  BY GreatestIndex
<1>2. \A y, z \in T : y <= z <=> z >= y
  <2>1. \A y \in T : y \in Int
    OBVIOUS
  <2> QED
    BY <2>1
<1>3. \E z \in T : \A y \in T : z >= y
  BY <1>1, <1>2
<1>4. Max(T) \in T /\ \A y \in T : Max(T) >= y
  BY <1>3, Zenon DEF Max
<1> QED
  BY <1>2, <1>4

-----------------------------------------------------------------------------
(* Samples.                                                                *)

LEMMA ReceivedIs ==
    ASSUME NEW shown, NEW V, NEW s \in Seq(V), NEW key \in DOMAIN shown
    PROVE  \/ /\ Received(shown, s)[key] = shown[key]
              /\ \A i \in DOMAIN s : s[i].key # key
           \/ \E i \in DOMAIN s :
                  /\ s[i].key = key /\ Received(shown, s)[key] = s[i].val
                  /\ \A j \in DOMAIN s : s[j].key = key => j <= i
<1> DEFINE own == {i \in DOMAIN s : s[i].key = key}
<1>1. CASE own = {}
  BY <1>1 DEF Received
<1>2. CASE own # {}
  <2>1. Len(s) \in Nat /\ own \subseteq 1 .. Len(s)
    OBVIOUS
  <2>2. Max(own) \in own /\ \A j \in own : j <= Max(own)
    <3> HIDE DEF own
    <3> QED
      BY <2>1, <1>2, MaxIn
  <2>3. Received(shown, s)[key] = s[Max(own)].val
    BY <1>2 DEF Received
  <2> HIDE DEF Max
  <2> QED
    BY <2>2, <2>3
<1> QED
  BY <1>1, <1>2

LEMMA ReceivedShows ==
    ASSUME NEW shown, NEW s
    PROVE  Received(shown, s) = [key \in DOMAIN shown |-> Received(shown, s)[key]]
  BY DEF Received

PaySamples == [key : Nat, val : Nat]

\* What the samples of a set do to the payloads on the bus.
LEMMA PayloadsFacts ==
    ASSUME live \in [Times -> Nat], NEW s \in Seq(PaySamples), Payloads(s)
    PROVE  /\ live' \in [Times -> Nat]
           /\ \A i \in Times :
                  \/ live'[i] = live[i] /\ \A p \in ToSet(s) : p.key # i
                  \/ \E p \in ToSet(s) : p.key = i /\ live'[i] = p.val
<1>1. live' = Received(live, s) /\ DOMAIN live = Times
  BY DEF Payloads
<1>2. \A p \in ToSet(s) : p.val \in Nat
  <2>1. \A i \in DOMAIN s : s[i] \in PaySamples
    OBVIOUS
  <2>2. \A p \in PaySamples : p.val \in Nat
    BY DEF PaySamples
  <2> QED
    BY <2>1, <2>2 DEF ToSet
<1>3. \A i \in DOMAIN s : s[i] \in ToSet(s)
  BY DEF ToSet
<1>4. \A p \in ToSet(s) : \E i \in DOMAIN s : p = s[i]
  BY DEF ToSet
<1>5. ASSUME NEW i \in Times
      PROVE  \/ live'[i] = live[i] /\ \A p \in ToSet(s) : p.key # i
             \/ \E p \in ToSet(s) : p.key = i /\ live'[i] = p.val
  BY <1>1, <1>3, <1>4, ReceivedIs
<1>6. live' = [i \in Times |-> live'[i]]
  BY <1>1, ReceivedShows
<1>7. \A i \in Times : live'[i] \in Nat
  BY <1>2, <1>5
<1> QED
  BY <1>5, <1>6, <1>7

-----------------------------------------------------------------------------
(* The report.                                                             *)

\* What is in the set, on the bus, and the clock.
SetFits ==
    /\ clock \in Nat /\ clock <= MaxTime
    /\ set \in [Conds -> [id : Nat, ts : Nat]]
    /\ IsFiniteSet(Held(set)) /\ metadata.size = Cardinality(Held(set))
    /\ \A c \in Held(set) : set[c].id \in 1 .. clock /\ set[c].ts \in set[c].id .. clock
    /\ \A c, d \in Held(set) : set[c].id = set[d].id => c = d
    /\ live \in [Times -> Nat]
    /\ \A i \in Times : clock < i => live[i] = Never
    /\ NoDangling /\ NoOrphans

Pending == [is : {TRUE}, c : Conds, offer : Offers, waited : 0 .. MaxWait]

AddFits ==
    /\ cached \subseteq Offers
    /\ add \in {NoAdd} \cup Pending

LEMMA SameFits ==
    ASSUME SetFits, UNCHANGED <<set, live, clock, metadata, torn, failed>>
    PROVE  SetFits'
  BY DEF SetFits, Held, NoDangling, NoOrphans

LEMMA HeldFacts ==
    ASSUME SetFits, NEW c \in Conds
    PROVE  /\ set[c] \in [id : Nat, ts : Nat]
           /\ set[c] = NoPayload => set[c].id = Never
           /\ set[c] # NoPayload => c \in Held(set) /\ set[c].id \in 1 .. clock
  BY DEF SetFits, Held, NoPayload

LEMMA ElementsFacts ==
    ASSUME SetFits, NEW cs \in Seq(Conds), NEW p \in [id : Nat, ts : Nat],
           p = NoPayload \/ \E c \in Conds : cs = <<c>>, Elements(cs, p)
    PROVE  /\ set' \in [Conds -> [id : Nat, ts : Nat]]
           /\ \A c \in Conds : set'[c] = IF c \in ToSet(cs) THEN p ELSE set[c]
           /\ IsFiniteSet(Held(set)') /\ metadata'.size = Cardinality(Held(set'))
<1>1. set' = [c \in Conds |-> IF c \in ToSet(cs) THEN p ELSE set[c]]
  BY DEF Elements
<1>2. set' \in [Conds -> [id : Nat, ts : Nat]]
  BY <1>1 DEF SetFits
<1>3. IsFiniteSet(Held(set'))
  <2>1. CASE p = NoPayload
    <3>1. Held(set') \subseteq Held(set)
      BY <1>1, <2>1 DEF Held
    <3> QED
      BY <3>1, FS_Subset DEF SetFits
  <2>2. ASSUME NEW c \in Conds, cs = <<c>> PROVE IsFiniteSet(Held(set'))
    <3>1. ToSet(cs) = {c}
      BY <2>2 DEF ToSet
    <3>2. Held(set') \subseteq Held(set) \cup {c}
      BY <1>1, <3>1 DEF Held
    <3>3. IsFiniteSet(Held(set) \cup {c})
      BY FS_AddElement DEF SetFits
    <3> QED
      BY <3>2, <3>3, FS_Subset
  <2> QED
    BY <2>1, <2>2
<1>4. metadata'.size = Cardinality(Held(set'))
  <2>1. CASE cs = <<>>
    <3>1. ToSet(cs) = {} /\ metadata' = metadata
      BY <2>1 DEF ToSet, Elements
    <3>2. set' = set
      BY <1>1, <3>1 DEF SetFits
    <3> QED
      BY <3>1, <3>2 DEF SetFits
  <2>2. CASE cs # <<>>
    <3>1. metadata' = Described(set', p.ts)
      BY <2>2 DEF Elements
    <3> QED
      BY <3>1 DEF Described
  <2> QED
    BY <2>1, <2>2
<1> QED
  BY <1>1, <1>2, <1>3, <1>4 DEF Held

\* A change whose element was not sent: it failed, and may have left the payload
\* of its conditional, or a new one that no conditional names.
LEMMA KeptKeeps ==
    ASSUME SetFits, NEW c \in Conds, clock < MaxTime, clock' = clock + 1,
           live' \in [Times -> Nat], NoElements, failed',
           \A i \in Times : i # clock' /\ i # set[c].id => live'[i] = live[i],
           torn \subseteq torn', c \in torn' \/ live' = live
    PROVE  SetFits'
<1>1. set' = set /\ metadata' = metadata
  BY DEF NoElements
<1>2. clock' \in Nat /\ clock' <= MaxTime
  BY ConditionalReportAssumption DEF SetFits
<1>3. \A d \in Held(set) : set[d].id \in 1 .. clock' /\ set[d].ts \in set[d].id .. clock'
  BY DEF SetFits
<1>4. \A i \in Times : clock' < i => live'[i] = Never
  <2> SUFFICES ASSUME NEW i \in Times, clock + 1 < i PROVE live'[i] = Never
    OBVIOUS
  <2>1. i # clock' /\ clock < i
    BY DEF SetFits, Times
  <2>2. i # set[c].id
    <3>1. set[c].id = Never \/ set[c].id \in 1 .. clock
      BY HeldFacts
    <3> QED
      BY <3>1, <2>1 DEF SetFits, Times, Never
  <2> QED
    BY <2>1, <2>2 DEF SetFits
<1>5. NoDangling'
  <2> SUFFICES ASSUME NEW d \in Held(set), d \notin torn'
               PROVE  live'[set[d].id] = set[d].ts
    BY <1>1 DEF NoDangling, Held
  <2>1. live[set[d].id] = set[d].ts /\ set[d].id \in 1 .. clock /\ d \in Conds
    BY DEF SetFits, NoDangling, Held
  <2>2. CASE live' = live
    BY <2>1, <2>2
  <2>3. CASE c \in torn'
    <3>1. c # d
      BY <2>3
    <3>2. set[d].id # set[c].id
      <4>1. set[c] = NoPayload \/ c \in Held(set)
        BY DEF Held
      <4> QED
        BY <4>1, <3>1, <2>1, HeldFacts DEF SetFits, Never
    <3>3. set[d].id \in Times /\ set[d].id # clock'
      BY <2>1, ConditionalReportAssumption DEF Times, SetFits
    <3> QED
      BY <3>2, <3>3, <2>1
  <2> QED
    BY <2>2, <2>3
<1>6. NoOrphans'
  BY DEF NoOrphans
<1> QED
  BY <1>1, <1>2, <1>3, <1>4, <1>5, <1>6 DEF SetFits, Held

\* A change whose payload and element were sent.
LEMMA WrittenKeeps ==
    ASSUME SetFits, NEW c \in Conds, clock < MaxTime, clock' = clock + 1,
           live' \in [Times -> Nat], NEW q \in [id : Nat, ts : Nat],
           q.id = clock' \/ (set[c] # NoPayload /\ q.id = set[c].id),
           q.ts = clock', Elements(<<c>>, q), live'[q.id] = clock',
           \A i \in Times : i # q.id /\ i # set[c].id => live'[i] = live[i],
           \A i \in Times : i # q.id => live'[i] \in {live[i], Never},
           torn' = torn \ {c}, failed => failed',
           ~failed' /\ set[c] # NoPayload /\ q.id # set[c].id => live'[set[c].id] = Never
    PROVE  SetFits'
<1>1. <<c>> \in Seq(Conds) /\ ToSet(<<c>>) = {c}
  BY DEF ToSet
<1>2. /\ set' \in [Conds -> [id : Nat, ts : Nat]]
      /\ \A d \in Conds : set'[d] = IF d = c THEN q ELSE set[d]
      /\ IsFiniteSet(Held(set)') /\ metadata'.size = Cardinality(Held(set'))
  BY <1>1, ElementsFacts
<1>3. clock' \in Nat /\ clock' <= MaxTime /\ clock \in Nat /\ MaxTime \in Nat
  BY ConditionalReportAssumption DEF SetFits
<1>4. q.id \in 1 .. clock' /\ q # NoPayload
  BY <1>3, HeldFacts DEF NoPayload, Never
<1>5. \A d \in Conds : set[d] # NoPayload =>
          /\ set[d].id \in 1 .. clock /\ set[d].ts \in set[d].id .. clock
          /\ d # c => set[d].id # q.id /\ set[d].id # set[c].id
  <2> SUFFICES ASSUME NEW d \in Conds, set[d] # NoPayload
               PROVE  /\ set[d].id \in 1 .. clock
                      /\ set[d].ts \in set[d].id .. clock
                      /\ d # c => set[d].id # q.id /\ set[d].id # set[c].id
    OBVIOUS
  <2>1. d \in Held(set) /\ set[d].id \in 1 .. clock /\ set[d].ts \in set[d].id .. clock
    BY DEF SetFits, Held
  <2>2. d # c => set[d].id # set[c].id
    <3>1. set[c] = NoPayload \/ c \in Held(set)
      BY DEF Held
    <3> QED
      BY <3>1, <2>1, HeldFacts DEF SetFits, Never
  <2>3. d # c => set[d].id # q.id
    BY <2>1, <2>2, <1>3
  <2> QED
    BY <2>1, <2>2, <2>3
<1>6. Held(set') = Held(set) \cup {c}
  BY <1>2, <1>4 DEF Held
<1>7. \A d \in Held(set') :
          set'[d].id \in 1 .. clock' /\ set'[d].ts \in set'[d].id .. clock'
  BY <1>2, <1>3, <1>4, <1>5 DEF Held
<1>8. \A d, e \in Held(set') : set'[d].id = set'[e].id => d = e
  <2>1. \A d \in Held(set') : d = c \/ (d \in Held(set) /\ d # c /\ set'[d] = set[d])
    BY <1>2 DEF Held
  <2>2. set'[c].id = q.id
    BY <1>2
  <2>3. \A d \in Held(set) : d # c => set[d].id # q.id
    BY <1>5 DEF Held
  <2> QED
    BY <2>1, <2>2, <2>3 DEF SetFits
<1>9. \A i \in Times : clock' < i => live'[i] = Never
  <2> SUFFICES ASSUME NEW i \in Times, clock' < i PROVE live'[i] = Never
    OBVIOUS
  <2>1. i # q.id /\ clock < i
    BY <1>3, <1>4 DEF Times
  <2> QED
    BY <2>1 DEF SetFits
<1>10. NoDangling'
  <2> SUFFICES ASSUME NEW d \in Held(set'), d \notin torn'
               PROVE  live'[set'[d].id] = set'[d].ts
    BY DEF NoDangling
  <2>1. CASE d = c
    BY <2>1, <1>2
  <2>2. CASE d # c
    <3>1. d \in Conds /\ set[d] # NoPayload /\ set'[d] = set[d] /\ d \notin torn
      BY <2>2, <1>2 DEF Held
    <3>2. set[d].id \in Times /\ set[d].id # q.id /\ set[d].id # set[c].id
      BY <3>1, <2>2, <1>3, <1>5 DEF Times
    <3>3. live[set[d].id] = set[d].ts
      BY <3>1 DEF SetFits, NoDangling, Held
    <3> QED
      BY <3>1, <3>2, <3>3
  <2> QED
    BY <2>1, <2>2
<1>11. NoOrphans'
  <2> SUFFICES ASSUME ~failed', NEW i \in Times, live'[i] # Never
               PROVE  \E d \in Conds : set'[d].id = i
    BY DEF NoOrphans
  <2>1. CASE i = q.id
    BY <2>1, <1>2
  <2>2. CASE i # q.id
    <3>1. live[i] # Never
      BY <2>2
    <3>2. PICK d \in Conds : set[d].id = i
      BY <3>1 DEF SetFits, NoOrphans
    <3>3. d # c
      <4>1. set[c].id = i => set[c] # NoPayload
        BY DEF NoPayload, Never, Times
      <4> QED
        BY <4>1, <3>2, <2>2
    <3> QED
      BY <3>2, <3>3, <1>2
  <2> QED
    BY <2>1, <2>2
<1> QED
  BY <1>2, <1>3, <1>6, <1>7, <1>8, <1>9, <1>10, <1>11 DEF SetFits, Held

LEMMA FewSamples ==
    ASSUME NEW S, NEW a \in S, NEW b \in S
    PROVE  /\ <<>> \o <<>> = <<>> /\ <<a>> \o <<>> = <<a>> /\ <<>> \o <<b>> = <<b>>
           /\ <<>> \in Seq(S) /\ <<a>> \in Seq(S) /\ <<b>> \in Seq(S)
           /\ <<a>> \o <<b>> \in Seq(S)
           /\ ToSet(<<>>) = {} /\ ToSet(<<a>>) = {a} /\ ToSet(<<b>>) = {b}
           /\ ToSet(<<a>> \o <<b>>) = {a, b}
<1> DEFINE s == <<a>> \o <<b>>
<1>1. <<>> \o <<>> = <<>> /\ <<a>> \o <<>> = <<a>> /\ <<>> \o <<b>> = <<b>>
  OBVIOUS
<1>2. <<>> \in Seq(S) /\ <<a>> \in Seq(S) /\ <<b>> \in Seq(S) /\ s \in Seq(S)
  OBVIOUS
<1>3. ToSet(<<>>) = {} /\ ToSet(<<a>>) = {a} /\ ToSet(<<b>>) = {b}
  <2>1. ToSet(<<>>) = {}
    BY DEF ToSet
  <2>2. \A x \in S : ToSet(<<x>>) = {x}
    BY DEF ToSet
  <2> QED
    BY <2>1, <2>2
<1>4. DOMAIN s = {1, 2} /\ s[1] = a /\ s[2] = b
  OBVIOUS
<1> HIDE DEF s
<1>5. ToSet(s) = {a, b}
  BY <1>4 DEF ToSet
<1> QED
  BY <1>1, <1>2, <1>3, <1>5 DEF s

\* The samples of a change of c: the new payload's, and one that disposes the
\* payload c has.
LEMMA ChangeFacts ==
    ASSUME SetFits, NEW c \in Conds, NEW k \in Times, set[c].id # k,
           NEW s \in Seq(PaySamples),
           ToSet(s) \subseteq {Sample(k, k), Disposed(set[c].id)}, Payloads(s)
    PROVE  /\ live' \in [Times -> Nat]
           /\ Sample(k, k) \in ToSet(s) => live'[k] = k
           /\ \A i \in Times : i # k /\ i # set[c].id => live'[i] = live[i]
           /\ \A i \in Times : i # k => live'[i] \in {live[i], Never}
           /\ set[c] # NoPayload /\ Disposed(set[c].id) \in ToSet(s) =>
                  live'[set[c].id] = Never
<1>1. /\ live' \in [Times -> Nat]
      /\ \A i \in Times :
             \/ live'[i] = live[i] /\ \A p \in ToSet(s) : p.key # i
             \/ \E p \in ToSet(s) : p.key = i /\ live'[i] = p.val
  BY PayloadsFacts DEF SetFits
<1>2. /\ Sample(k, k).key = k /\ Sample(k, k).val = k
      /\ Disposed(set[c].id).key = set[c].id /\ Disposed(set[c].id).val = Never
  BY DEF Sample, Disposed
<1>3. \A p \in ToSet(s) : \/ p.key = k /\ p.val = k
                          \/ p.key = set[c].id /\ p.val = Never
  BY <1>2
<1>4. \A i \in Times :
          \/ live'[i] = live[i] /\ \A p \in ToSet(s) : p.key # i
          \/ i = k /\ live'[i] = k
          \/ i = set[c].id /\ live'[i] = Never
  BY <1>1, <1>3
<1>5. set[c] # NoPayload => set[c].id \in Times
  BY HeldFacts, ConditionalReportAssumption DEF SetFits, Times
<1> QED
  BY <1>1, <1>2, <1>4, <1>5

LEMMA TimeFacts ==
    ASSUME SetFits, clock < MaxTime
    PROVE  /\ clock + 1 \in Times /\ clock + 1 \in Nat
           /\ \A c \in Conds : set[c].id # clock + 1 /\ set[c].id \in Nat
<1>1. clock \in Nat /\ MaxTime \in Nat
  BY ConditionalReportAssumption DEF SetFits
<1>2. \A c \in Conds : set[c].id = Never \/ set[c].id \in 1 .. clock
  BY HeldFacts
<1> QED
  BY <1>1, <1>2 DEF Times, Never

LEMMA PublishKeeps ==
    ASSUME SetFits, NEW c \in Conds, NEW f \in Failing, PublishPayload(c, f)
    PROVE  SetFits'
<1> DEFINE k == clock + 1
           p == [id |-> k, ts |-> k]
           s == <<PayloadSample(p)>> \o Superseded(c, f)
<1>1. clock < MaxTime /\ clock' = clock + 1 /\ clock \in Nat
  BY DEF PublishPayload, SetFits
<1>2. k \in Times /\ k \in Nat /\ set[c].id # k /\ set[c].id \in Nat
  BY <1>1, TimeFacts
<1>3. /\ p.id = k /\ p.ts = k /\ p \in [id : Nat, ts : Nat]
      /\ PayloadSample(p) = Sample(k, k)
  BY <1>2 DEF PayloadSample
<1>4. /\ IF "payload" \in f THEN NoPayloads ELSE Payloads(s)
      /\ IF f \cap {"payload", "element"} # {} THEN NoElements ELSE Elements(<<c>>, p)
      /\ Marks(IF "payload" \in f THEN {} ELSE {c}, f)
  BY DEF PublishPayload
<1>5. CASE "payload" \in f
  <2>1. /\ live' = live /\ NoElements /\ failed' /\ torn' = torn
    BY <1>4, <1>5 DEF NoPayloads, Marks
  <2> QED
    BY <1>1, <2>1, KeptKeeps DEF SetFits
<1>6. CASE "payload" \notin f
  <2>1. /\ s \in Seq(PaySamples)
        /\ ToSet(s) \subseteq {Sample(k, k), Disposed(set[c].id)}
        /\ Sample(k, k) \in ToSet(s)
        /\ set[c] # NoPayload /\ "dispose" \notin f => Disposed(set[c].id) \in ToSet(s)
    <3> DEFINE new == Sample(k, k)
               old == Disposed(set[c].id)
    <3>1. new \in PaySamples /\ old \in PaySamples
      BY <1>2 DEF Sample, Disposed, PaySamples, Never
    <3>2. s = <<new>> \o (IF set[c] = NoPayload \/ "dispose" \in f THEN <<>> ELSE <<old>>)
      BY <1>3 DEF Superseded
    <3> HIDE DEF s, new, old
    <3>3. /\ s \in Seq(PaySamples)
          /\ ToSet(s) = {new} \cup
                        (IF set[c] = NoPayload \/ "dispose" \in f THEN {} ELSE {old})
      <4>1. /\ <<new>> \o <<>> = <<new>> /\ <<new>> \in Seq(PaySamples)
            /\ <<new>> \o <<old>> \in Seq(PaySamples)
            /\ ToSet(<<new>>) = {new} /\ ToSet(<<new>> \o <<old>>) = {new, old}
        BY <3>1, FewSamples
      <4>2. CASE set[c] = NoPayload \/ "dispose" \in f
        <5>1. s = <<new>>
          BY <4>1, <4>2, <3>2
        <5> QED
          BY <4>1, <4>2, <5>1
      <4>3. CASE ~ (set[c] = NoPayload \/ "dispose" \in f)
        <5>1. s = <<new>> \o <<old>>
          BY <4>3, <3>2
        <5> QED
          BY <4>1, <4>3, <5>1
      <4> QED
        BY <4>2, <4>3
    <3> QED
      BY <3>3 DEF new, old
  <2>2. Payloads(s)
    BY <1>4, <1>6
  <2> HIDE DEF s
  <2>3. /\ live' \in [Times -> Nat] /\ live'[k] = k
        /\ \A i \in Times : i # k /\ i # set[c].id => live'[i] = live[i]
        /\ \A i \in Times : i # k => live'[i] \in {live[i], Never}
        /\ set[c] # NoPayload /\ Disposed(set[c].id) \in ToSet(s) =>
               live'[set[c].id] = Never
    BY <1>2, <2>1, <2>2, ChangeFacts
  <2>4. CASE "element" \in f
    <3>1. NoElements /\ failed' /\ torn' = torn \cup {c}
      BY <1>4, <1>6, <2>4 DEF Marks
    <3> QED
      BY <1>1, <2>3, <3>1, KeptKeeps
  <2>5. CASE "element" \notin f
    <3>1. Elements(<<c>>, p) /\ torn' = torn \ {c}
      BY <1>4, <1>6, <2>5 DEF Marks
    <3>2. (failed => failed') /\ (~failed' => "dispose" \notin f)
      <4>1. failed' = (failed \/ f \ {"report"} # {})
        BY <1>4 DEF Marks
      <4>2. "dispose" \in f => f \ {"report"} # {}
        OBVIOUS
      <4> QED
        BY <4>1, <4>2
    <3> HIDE DEF p
    <3> QED
      BY <1>1, <1>2, <1>3, <2>1, <2>3, <3>1, <3>2, WrittenKeeps
  <2> QED
    BY <2>4, <2>5
<1> QED
  BY <1>5, <1>6

LEMMA UpdateKeeps ==
    ASSUME SetFits, NEW c \in Conds, NEW newId \in BOOLEAN,
           UpdateSpecialization(c, newId)
    PROVE  SetFits'
<1> DEFINE k == clock + 1
<1>1. /\ clock < MaxTime /\ clock' = clock + 1 /\ clock \in Nat /\ set[c] # NoPayload
  BY DEF UpdateSpecialization, SetFits
<1>2. /\ k \in Times /\ k \in Nat /\ set[c].id # k /\ set[c].id \in Nat
      /\ set[c].id \in Times
  <2>1. set[c].id \in 1 .. clock
    BY <1>1, HeldFacts
  <2> QED
    BY <1>1, <2>1, TimeFacts, ConditionalReportAssumption DEF Times
<1>3. PICK f \in Failing :
          LET p   == [id |-> IF newId THEN k ELSE set[c].id, ts |-> k]
              new == IF "payload" \in f THEN <<>> ELSE <<PayloadSample(p)>>
          IN  /\ Payloads(IF newId THEN Superseded(c, f) \o new ELSE new)
              /\ IF f \cap {"payload", "element"} # {} THEN NoElements
                 ELSE Elements(<<c>>, p)
              /\ Marks({c}, f)
  BY <1>1, Zenon DEF UpdateSpecialization
<1> DEFINE p == [id |-> IF newId THEN k ELSE set[c].id, ts |-> k]
           new == IF "payload" \in f THEN <<>> ELSE <<PayloadSample(p)>>
           s == IF newId THEN Superseded(c, f) \o new ELSE new
<1>4. /\ p.id = (IF newId THEN k ELSE set[c].id) /\ p.ts = k
      /\ p \in [id : Nat, ts : Nat]
      /\ PayloadSample(p) = Sample(p.id, k)
  BY <1>2 DEF PayloadSample
<1>5. /\ Payloads(s)
      /\ IF f \cap {"payload", "element"} # {} THEN NoElements ELSE Elements(<<c>>, p)
      /\ Marks({c}, f)
  BY <1>3
<1>6. /\ f \cap {"payload", "element"} # {} => torn' = torn \cup {c} /\ failed'
      /\ f \cap {"payload", "element"} = {} => torn' = torn \ {c}
      /\ failed => failed'
      /\ ~failed' => "dispose" \notin f
  <2>1. /\ torn' = IF f \cap {"payload", "element"} # {} THEN torn \cup {c} ELSE torn \ {c}
        /\ failed' = (failed \/ f \ {"report"} # {})
    BY <1>5 DEF Marks
  <2>2. /\ "dispose" \in f => f \ {"report"} # {}
        /\ f \cap {"payload", "element"} # {} => f \ {"report"} # {}
    OBVIOUS
  <2> QED
    BY <2>1, <2>2
<1> DEFINE old == Disposed(set[c].id)
           one == PayloadSample(p)
<1>7. one \in PaySamples /\ old \in PaySamples
  BY <1>2, <1>4 DEF Sample, Disposed, PaySamples, Never
<1>8. /\ s \in Seq(PaySamples)
      /\ ToSet(s) = (IF newId /\ "dispose" \notin f THEN {old} ELSE {}) \cup
                    (IF "payload" \notin f THEN {one} ELSE {})
  <2> HIDE DEF one, old
  <2>1. s = (IF newId THEN (IF "dispose" \in f THEN <<>> ELSE <<old>>) ELSE <<>>) \o
            (IF "payload" \in f THEN <<>> ELSE <<one>>)
    <3>1. Superseded(c, f) = IF "dispose" \in f THEN <<>> ELSE <<old>>
      BY <1>1 DEF Superseded, old
    <3>2. new = IF "payload" \in f THEN <<>> ELSE <<one>>
      BY DEF one
    <3>3. <<>> \o new = new
      BY <1>7, <3>2
    <3> HIDE DEF new
    <3> QED
      BY <3>1, <3>2, <3>3
  <2> HIDE DEF s
  <2> HIDE DEF s
  <2>2. /\ <<>> \o <<>> = <<>> /\ <<old>> \o <<>> = <<old>> /\ <<>> \o <<one>> = <<one>>
        /\ <<>> \in Seq(PaySamples) /\ <<old>> \in Seq(PaySamples)
        /\ <<one>> \in Seq(PaySamples) /\ <<old>> \o <<one>> \in Seq(PaySamples)
        /\ ToSet(<<>>) = {} /\ ToSet(<<old>>) = {old} /\ ToSet(<<one>>) = {one}
        /\ ToSet(<<old>> \o <<one>>) = {old, one}
    BY <1>7, FewSamples
  <2> DEFINE a == newId /\ "dispose" \notin f
             b == "payload" \notin f
  <2>3. s = (IF a THEN <<old>> ELSE <<>>) \o (IF b THEN <<one>> ELSE <<>>)
    BY <2>1
  <2> SUFFICES /\ s \in Seq(PaySamples)
               /\ ToSet(s) = (IF a THEN {old} ELSE {}) \cup (IF b THEN {one} ELSE {})
    OBVIOUS
  <2> HIDE DEF a, b
  <2>4. CASE a /\ b
    <3>1. s = <<old>> \o <<one>>
      BY <2>3, <2>4
    <3> QED
      BY <2>2, <2>4, <3>1
  <2>5. CASE a /\ ~b
    <3>1. s = <<old>>
      BY <2>2, <2>3, <2>5
    <3> QED
      BY <2>2, <2>5, <3>1
  <2>6. CASE ~a /\ b
    <3>1. s = <<one>>
      BY <2>2, <2>3, <2>6
    <3> QED
      BY <2>2, <2>6, <3>1
  <2>7. CASE ~a /\ ~b
    <3>1. s = <<>>
      BY <2>2, <2>3, <2>7
    <3> QED
      BY <2>2, <2>7, <3>1
  <2> QED
    BY <2>4, <2>5, <2>6, <2>7
<1> HIDE DEF s
<1>9. CASE newId
  <2>1. one = Sample(k, k) /\ p.id = k
    BY <1>4, <1>9
  <2>2. ToSet(s) \subseteq {Sample(k, k), Disposed(set[c].id)}
    BY <1>8, <2>1
  <2>3. /\ live' \in [Times -> Nat] /\ (Sample(k, k) \in ToSet(s) => live'[k] = k)
        /\ \A i \in Times : i # k /\ i # set[c].id => live'[i] = live[i]
        /\ \A i \in Times : i # k => live'[i] \in {live[i], Never}
        /\ set[c] # NoPayload /\ Disposed(set[c].id) \in ToSet(s) =>
               live'[set[c].id] = Never
    BY <1>2, <1>5, <1>8, <2>2, ChangeFacts
  <2>4. CASE f \cap {"payload", "element"} # {}
    BY <1>1, <1>5, <1>6, <2>3, <2>4, KeptKeeps
  <2>5. CASE f \cap {"payload", "element"} = {}
    <3>1. "payload" \notin f
      BY <2>5
    <3>2. live'[k] = k /\ (~failed' => live'[set[c].id] = Never)
      BY <1>1, <1>6, <1>8, <1>9, <2>1, <2>3, <3>1
    <3>3. Elements(<<c>>, p) /\ torn' = torn \ {c} /\ (failed => failed')
      BY <1>5, <1>6, <2>5
    <3> HIDE DEF p
    <3> QED
      BY <1>1, <1>4, <2>1, <2>3, <3>2, <3>3, WrittenKeeps
  <2> QED
    BY <2>4, <2>5
<1>10. CASE ~newId
  <2>1. p.id = set[c].id /\ one = Sample(set[c].id, k)
    BY <1>4, <1>10
  <2>2. one.key = set[c].id /\ one.val = k
    BY <2>1 DEF Sample
  <2>3. /\ live' \in [Times -> Nat]
        /\ \A i \in Times :
               \/ live'[i] = live[i] /\ \A q \in ToSet(s) : q.key # i
               \/ \E q \in ToSet(s) : q.key = i /\ live'[i] = q.val
    BY <1>5, <1>8, PayloadsFacts DEF SetFits
  <2>4. \A i \in Times : i # set[c].id => live'[i] = live[i]
    BY <1>8, <1>10, <2>2, <2>3
  <2>5. CASE f \cap {"payload", "element"} # {}
    BY <1>1, <1>5, <1>6, <2>3, <2>4, <2>5, KeptKeeps
  <2>6. CASE f \cap {"payload", "element"} = {}
    <3>1. "payload" \notin f
      BY <2>6
    <3>2. live'[set[c].id] = k
      BY <1>2, <1>8, <1>10, <2>2, <2>3, <3>1
    <3>3. Elements(<<c>>, p) /\ torn' = torn \ {c} /\ (failed => failed')
      BY <1>5, <1>6, <2>6
    <3> HIDE DEF p
    <3> QED
      BY <1>1, <1>4, <2>1, <2>3, <2>4, <3>2, <3>3, WrittenKeeps
  <2> QED
    BY <2>5, <2>6
<1> QED
  BY <1>9, <1>10

LEMMA RemoveKeeps ==
    ASSUME SetFits, NEW cs \in Seq(Held(set)), NEW f, RemoveSpecializations(cs, f)
    PROVE  SetFits'
<1> DEFINE k == IF "element" \in f THEN Len(cs) - 1 ELSE Len(cs)
           some == SubSeq(cs, 1, k)
           s == IF "dispose" \in f THEN <<>>
                ELSE [i \in DOMAIN cs |-> Disposed(set[cs[i]].id)]
<1>1. /\ Payloads(s) /\ Elements(some, NoPayload) /\ Marks(ToSet(cs), f)
      /\ clock' = clock
  BY DEF RemoveSpecializations
<1>2. /\ \A d \in ToSet(cs) : d \in Held(set)
      /\ \A i \in DOMAIN cs : cs[i] \in ToSet(cs)
      /\ \A d \in ToSet(cs) : \E i \in DOMAIN cs : d = cs[i]
  BY DEF ToSet
<1>3. \A d \in Held(set) :
          d \in Conds /\ set[d].id \in Nat /\ set[d].id \in Times /\ set[d].id # Never
  <2>1. \A d \in Held(set) : d \in Conds /\ set[d].id \in 1 .. clock
    BY DEF SetFits, Held
  <2> QED
    BY <2>1, ConditionalReportAssumption DEF SetFits, Times, Never
<1>4. s \in Seq(PaySamples)
  <2>1. \A i \in DOMAIN cs : Disposed(set[cs[i]].id) \in PaySamples
    BY <1>2, <1>3 DEF Disposed, Sample, PaySamples, Never
  <2>2. <<>> \in Seq(PaySamples)
    OBVIOUS
  <2>3. [i \in DOMAIN cs |-> Disposed(set[cs[i]].id)] \in Seq(PaySamples)
    <3>1. DOMAIN cs = 1 .. Len(cs) /\ Len(cs) \in Nat
      OBVIOUS
    <3> QED
      BY <2>1, <3>1
  <2> QED
    BY <2>2, <2>3
<1>5. \A p \in ToSet(s) :
          /\ p.val = Never /\ "dispose" \notin f
          /\ \E d \in ToSet(cs) : p.key = set[d].id
  <2> SUFFICES ASSUME NEW i \in DOMAIN s
               PROVE  /\ s[i].val = Never /\ "dispose" \notin f
                      /\ \E d \in ToSet(cs) : s[i].key = set[d].id
    BY ZenonT(60) DEF ToSet
  <2>1. "dispose" \notin f /\ i \in DOMAIN cs /\ s[i] = Disposed(set[cs[i]].id)
    OBVIOUS
  <2> HIDE DEF s
  <2>2. s[i].val = Never /\ s[i].key = set[cs[i]].id
    BY <2>1 DEF Disposed, Sample
  <2> QED
    BY <2>1, <2>2, <1>2
<1>6. \A d \in ToSet(cs) : "dispose" \notin f => \E p \in ToSet(s) : p.key = set[d].id
  <2> SUFFICES ASSUME NEW i \in DOMAIN cs, "dispose" \notin f
               PROVE  \E p \in ToSet(s) : p.key = set[cs[i]].id
    BY <1>2
  <2>1. i \in DOMAIN s /\ s[i] = Disposed(set[cs[i]].id)
    OBVIOUS
  <2> HIDE DEF s
  <2>2. s[i] \in ToSet(s) /\ s[i].key = set[cs[i]].id
    BY <2>1 DEF ToSet, Disposed, Sample
  <2> QED
    BY <2>2
<1> HIDE DEF s
<1>7. /\ live' \in [Times -> Nat]
      /\ \A i \in Times :
             \/ live'[i] = live[i] /\ \A p \in ToSet(s) : p.key # i
             \/ \E p \in ToSet(s) : p.key = i /\ live'[i] = p.val
  BY <1>1, <1>4, PayloadsFacts DEF SetFits
<1>8. \A i \in Times :
          \/ live'[i] = live[i] /\ \A p \in ToSet(s) : p.key # i
          \/ live'[i] = Never /\ \E d \in ToSet(cs) : set[d].id = i
  BY <1>5, <1>7
<1>9. /\ some \in Seq(Held(set)) /\ ToSet(some) \subseteq ToSet(cs)
      /\ "element" \notin f => some = cs
  <2>1. Len(cs) \in Nat /\ k \in Int /\ k <= Len(cs) /\ k + 1 >= 0
    OBVIOUS
  <2>2. some \in Seq(Held(set)) /\ \A i \in DOMAIN some : i \in DOMAIN cs /\ some[i] = cs[i]
    <3> HIDE DEF k
    <3> QED
      BY <2>1
  <2>3. "element" \notin f => some = cs
    OBVIOUS
  <2> HIDE DEF some
  <2> QED
    BY <2>2, <2>3, <1>2 DEF ToSet
<1> HIDE DEF some
<1>10. /\ set' \in [Conds -> [id : Nat, ts : Nat]]
       /\ \A c \in Conds : set'[c] = IF c \in ToSet(some) THEN NoPayload ELSE set[c]
       /\ IsFiniteSet(Held(set)') /\ metadata'.size = Cardinality(Held(set'))
  <2>1. some \in Seq(Conds)
    BY <1>3, <1>9
  <2>2. NoPayload \in [id : Nat, ts : Nat]
    BY DEF NoPayload, Never
  <2> QED
    BY <1>1, <2>1, <2>2, ElementsFacts
<1>11. \A d \in Held(set') : d \in Held(set) /\ set'[d] = set[d] /\ d \notin ToSet(some)
  BY <1>10 DEF Held
<1>12. NoDangling'
  <2> SUFFICES ASSUME NEW d \in Held(set'), d \notin torn'
               PROVE  live'[set'[d].id] = set'[d].ts
    BY DEF NoDangling
  <2>1. d \in Held(set) /\ set'[d] = set[d] /\ d \notin ToSet(some) /\ set[d].id \in Times
    BY <1>3, <1>11
  <2>2. torn' = IF f \cap {"payload", "element"} # {} THEN torn \cup ToSet(cs)
                ELSE torn \ ToSet(cs)
    BY <1>1 DEF Marks
  <2>3. d \notin ToSet(cs) /\ d \notin torn
    <3>1. CASE f \cap {"payload", "element"} # {}
      BY <2>2, <3>1
    <3>2. CASE f \cap {"payload", "element"} = {}
      <4>1. some = cs
        BY <3>2, <1>9
      <4> QED
        BY <2>1, <2>2, <3>2, <4>1
    <3> QED
      BY <3>1, <3>2
  <2>4. live[set[d].id] = set[d].ts
    BY <2>1, <2>3 DEF SetFits, NoDangling
  <2>5. \A e \in ToSet(cs) : set[e].id # set[d].id
    BY <1>2, <2>1, <2>3 DEF SetFits
  <2> QED
    BY <1>8, <2>1, <2>4, <2>5
<1>13. NoOrphans'
  <2> SUFFICES ASSUME ~failed', NEW i \in Times, live'[i] # Never
               PROVE  \E d \in Conds : set'[d].id = i
    BY DEF NoOrphans
  <2>1. ~failed /\ "dispose" \notin f /\ "element" \notin f
    <3>1. failed' = (failed \/ f \ {"report"} # {})
      BY <1>1 DEF Marks
    <3>2. ("dispose" \in f => f \ {"report"} # {}) /\ ("element" \in f => f \ {"report"} # {})
      OBVIOUS
    <3> QED
      BY <3>1, <3>2
  <2>2. live[i] # Never /\ \A p \in ToSet(s) : p.key # i
    BY <1>8
  <2>3. PICK d \in Conds : set[d].id = i
    BY <2>1, <2>2 DEF SetFits, NoOrphans
  <2>4. d \notin ToSet(cs)
    BY <1>6, <2>1, <2>2, <2>3
  <2>5. set'[d] = set[d]
    BY <1>9, <1>10, <2>4
  <2> QED
    BY <2>3, <2>5
<1>14. \A d \in Held(set') : set'[d].id \in 1 .. clock /\ set'[d].ts \in set'[d].id .. clock
  BY <1>11 DEF SetFits
<1>15. \A d, e \in Held(set') : set'[d].id = set'[e].id => d = e
  BY <1>11 DEF SetFits
<1>16. \A i \in Times : clock < i => live'[i] = Never
  BY <1>8 DEF SetFits
<1> QED
  BY <1>1, <1>7, <1>10, <1>12, <1>13, <1>14, <1>15, <1>16 DEF SetFits

\* The conditionals of a Delete command.
LEMMA DeleteKeeps == SetFits /\ Delete => SetFits'
<1>1. \A S \in SUBSET Held(set) : SetFits =>
          IsFiniteSet(S) /\ \A cs \in SetToSeqs(S) : cs \in Seq(Held(set))
  <2> SUFFICES ASSUME SetFits, NEW S \in SUBSET Held(set)
               PROVE  IsFiniteSet(S) /\ \A cs \in SetToSeqs(S) : cs \in Seq(Held(set))
    OBVIOUS
  <2>1. IsFiniteSet(S)
    BY FS_Subset DEF SetFits
  <2> SUFFICES ASSUME NEW cs \in SetToSeqs(S) PROVE cs \in Seq(Held(set))
    BY <2>1
  <2> DEFINE n == Cardinality(S)
  <2>2. n \in Nat /\ cs \in [1 .. n -> S]
    BY <2>1, FS_CardinalityType DEF SetToSeqs
  <2> HIDE DEF n
  <2> QED
    BY <2>2
<1>2. \A c \in Held(set) : <<c>> \in Seq(Held(set))
  OBVIOUS
<1>3. Delete => \E cs, f : /\ RemoveSpecializations(cs, f)
                          /\ \/ \E c \in Held(set) : cs = <<c>>
                             \/ \E S \in SUBSET Held(set) : cs \in SetToSeqs(S)
  BY DEF Delete, DeleteSome
<1> QED
  BY <1>1, <1>2, <1>3, RemoveKeeps

LEMMA DirectKeeps == SetFits /\ Direct => SetFits'
<1> SUFFICES ASSUME SetFits, Direct PROVE SetFits'
  OBVIOUS
<1>1. ASSUME NEW c \in Conds, AddSpecialization(c) PROVE SetFits'
  BY <1>1, PublishKeeps DEF AddSpecialization
<1>2. ASSUME NEW c \in Conds, RemoveSpecialization(c) PROVE SetFits'
  <2>1. <<c>> \in Seq(Held(set))
    BY <1>2 DEF RemoveSpecialization, Held
  <2> QED
    BY <2>1, <1>2, RemoveKeeps DEF RemoveSpecialization
<1>3. CASE Report
  BY <1>3, SameFits DEF Report, NoPayloads, NoElements
<1> QED
  BY <1>1, <1>2, <1>3, UpdateKeeps DEF Direct

LEMMA ReportStep ==
    SetFits /\ AddFits /\ [NextReport]_providerVars => (SetFits /\ AddFits)'
<1> SUFFICES ASSUME SetFits, AddFits, [NextReport]_providerVars
             PROVE  (SetFits /\ AddFits)'
  OBVIOUS
<1>1. CASE UNCHANGED providerVars
  BY <1>1, SameFits DEF providerVars, reportVars, AddFits
<1>2. ASSUME NEW o \in Offers, Offer(o) PROVE (SetFits /\ AddFits)'
  BY <1>2, SameFits DEF Offer, reportVars, AddFits
<1>3. CASE Command
  <2>1. SetFits' /\ cached' = cached
    BY <1>3, SameFits DEF Command, ReceiveAdd, UpdateAdd, CancelAdd, reportVars
  <2>2. add' \in {NoAdd} \cup Pending
    <3>1. MaxWait \in Nat
      BY ConditionalReportAssumption
    <3>2. ASSUME NEW c \in Conds, NEW o \in Offers, ReceiveAdd(c, o)
          PROVE  add' \in Pending
      BY <3>1, <3>2 DEF ReceiveAdd, Pending
    <3>3. ASSUME NEW c \in Conds, NEW o \in Offers, UpdateAdd(c, o)
          PROVE  add' \in Pending
      <4>1. add \in Pending
        BY <3>3 DEF UpdateAdd, AddFits, NoAdd
      <4> QED
        BY <3>3, <4>1 DEF UpdateAdd, Pending
    <3>4. CASE CancelAdd
      BY <3>4 DEF CancelAdd
    <3> QED
      BY <1>3, <3>2, <3>3, <3>4 DEF Command
  <2> QED
    BY <2>1, <2>2 DEF AddFits
<1>4. CASE WaitForPayload
  <2>1. SetFits' /\ cached' = cached
    BY <1>4, SameFits DEF WaitForPayload, reportVars
  <2>2. add \in Pending /\ MaxWait \in Nat
    BY <1>4, ConditionalReportAssumption DEF WaitForPayload, AddFits, NoAdd
  <2>3. add' = NoAdd \/ (add.waited + 1 <= MaxWait /\ add' = [add EXCEPT !.waited = add.waited + 1])
    BY <1>4, <2>2 DEF WaitForPayload, Pending
  <2>4. add' \in {NoAdd} \cup Pending
    <3>1. CASE add' = NoAdd
      BY <3>1
    <3>2. CASE add.waited + 1 <= MaxWait /\ add' = [add EXCEPT !.waited = add.waited + 1]
      <4>1. add.waited + 1 \in 0 .. MaxWait
        BY <2>2, <3>2 DEF Pending
      <4> DEFINE w == add.waited + 1
      <4>2. w \in 0 .. MaxWait /\ add' = [add EXCEPT !.waited = w]
        BY <4>1, <3>2
      <4> HIDE DEF w
      <4> QED
        BY <2>2, <4>2 DEF Pending
    <3> QED
      BY <2>3, <3>1, <3>2
  <2> QED
    BY <2>1, <2>4 DEF AddFits
<1>5. CASE ResolveAndPublish
  <2>1. add.c \in Conds
    <3>1. add \in Pending
      BY <1>5 DEF ResolveAndPublish, AddFits, NoAdd
    <3> QED
      BY <3>1 DEF Pending
  <2>2. SetFits'
    BY <1>5, <2>1, PublishKeeps DEF ResolveAndPublish
  <2>3. add' = NoAdd /\ cached' = cached
    BY <1>5 DEF ResolveAndPublish
  <2> QED
    BY <2>2, <2>3 DEF AddFits
<1>6. CASE Delete \/ Direct
  <2>1. SetFits'
    BY <1>6, DeleteKeeps, DirectKeeps
  <2>2. add' = add /\ cached' = cached
    BY <1>6 DEF Delete, DeleteSome, RemoveSpecializations, Direct, AddSpecialization,
                UpdateSpecialization, RemoveSpecialization, Report
  <2> QED
    BY <2>1, <2>2 DEF AddFits
<1> QED
  BY <1>1, <1>2, <1>3, <1>4, <1>5, <1>6 DEF NextReport, CycleAdd

LEMMA ReportStart == InitReport => SetFits /\ AddFits
<1> SUFFICES ASSUME InitReport PROVE SetFits /\ AddFits
  OBVIOUS
<1>1. /\ set = [c \in Conds |-> NoPayload] /\ Held(set) = {}
      /\ live = [i \in Times |-> Never] /\ clock = 0 /\ metadata = Described(set, Never)
      /\ cached = {} /\ add = NoAdd
  BY DEF InitReport, Held
<1>2. IsFiniteSet({})
  BY FS_EmptySet
<1>3. NoPayload \in [id : Nat, ts : Nat]
  BY DEF NoPayload, Never
<1>4. metadata.size = Cardinality(Held(set))
  BY <1>1 DEF Described
<1> QED
  BY <1>1, <1>2, <1>3, <1>4, ConditionalReportAssumption
     DEF SetFits, AddFits, NoDangling, NoOrphans, Never

LEMMA FitsIsReportInv == SetFits /\ AddFits => ReportInv
<1> SUFFICES ASSUME SetFits, AddFits PROVE ReportTypeOK
  BY DEF ReportInv, SetFits
<1>1. \A c \in Held(set) : set[c].id \in Times /\ set[c].ts \in set[c].id .. clock
  BY ConditionalReportAssumption DEF SetFits, Times
<1>2. add.is => add \in Pending
  BY DEF AddFits, NoAdd
<1>3. add.is => add.c \in Conds /\ add.offer \in Offers /\ add.waited \in 0 .. MaxWait
  BY <1>2 DEF Pending
<1> QED
  BY <1>1, <1>3 DEF ReportTypeOK, SetFits, AddFits

\* A conditional of the report names a payload that is on the bus, in the version
\* it is stamped with, unless its last change failed half-way, and as long as
\* nothing failed no other payload is there: for any conditionals, offers and
\* bounds, whichever sends fail, and however commands are updated and cancelled.
THEOREM ReportIsWhole == SpecReport => []ReportInv
<1> DEFINE Inv == SetFits /\ AddFits
<1>1. InitReport => Inv
  BY ReportStart
<1>2. Inv /\ [NextReport]_providerVars => Inv'
  BY ReportStep
<1>3. Inv => ReportInv
  BY FitsIsReportInv
<1> HIDE DEF Inv
<1> QED
  BY <1>1, <1>2, <1>3, PTL DEF SpecReport

-----------------------------------------------------------------------------
(* What is on its way.                                                     *)

LEMMA ReceivedLast ==
    ASSUME NEW shown, NEW V, NEW s \in Seq(V), NEW key \in DOMAIN shown,
           NEW i \in DOMAIN s, s[i].key = key,
           \A j \in DOMAIN s : s[j].key = key => j <= i
    PROVE  Received(shown, s)[key] = s[i].val
<1>1. PICK k \in DOMAIN s : /\ s[k].key = key /\ Received(shown, s)[key] = s[k].val
                            /\ \A j \in DOMAIN s : s[j].key = key => j <= k
  BY ReceivedIs
<1>2. k <= i /\ i <= k /\ i \in Nat /\ k \in Nat
  BY <1>1
<1> QED
  BY <1>1, <1>2

LEMMA ReceivedKeeps ==
    ASSUME NEW shown, NEW V, NEW s \in Seq(V), NEW key \in DOMAIN shown,
           \A j \in DOMAIN s : s[j].key # key
    PROVE  Received(shown, s)[key] = shown[key]
  BY ReceivedIs

LEMMA ReceivedTwice ==
    ASSUME NEW shown, NEW V, NEW s \in Seq(V), NEW t \in Seq(V)
    PROVE  Received(shown, s \o t) = Received(Received(shown, s), t)
<1> DEFINE w == s \o t
           first == Received(shown, s)
<1>1. /\ w \in Seq(V) /\ DOMAIN w = 1 .. Len(s) + Len(t)
      /\ DOMAIN s = 1 .. Len(s) /\ DOMAIN t = 1 .. Len(t)
      /\ Len(s) \in Nat /\ Len(t) \in Nat
      /\ \A i \in DOMAIN s : w[i] = s[i]
      /\ \A i \in DOMAIN t : w[Len(s) + i] = t[i]
      /\ \A j \in DOMAIN w : j <= Len(s) \/ w[j] = t[j - Len(s)]
  OBVIOUS
<1>2. DOMAIN first = DOMAIN shown
  BY DEF Received
<1> HIDE DEF w, first
<1>3. ASSUME NEW key \in DOMAIN shown PROVE Received(shown, w)[key] = Received(first, t)[key]
  <2>1. ASSUME NEW i \in DOMAIN t, t[i].key = key, Received(first, t)[key] = t[i].val,
               \A j \in DOMAIN t : t[j].key = key => j <= i
        PROVE  Received(shown, w)[key] = Received(first, t)[key]
    <3>1. Len(s) + i \in DOMAIN w /\ w[Len(s) + i] = t[i]
      BY <1>1
    <3>2. \A j \in DOMAIN w : w[j].key = key => j <= Len(s) + i
      <4> SUFFICES ASSUME NEW j \in DOMAIN w, w[j].key = key, j > Len(s)
                   PROVE  j <= Len(s) + i
        BY <1>1
      <4>1. w[j] = t[j - Len(s)] /\ j - Len(s) \in DOMAIN t
        BY <1>1
      <4> QED
        BY <4>1, <2>1, <1>1
    <3>3. Received(shown, w)[key] = t[i].val
      BY SMTT(30), <1>1, <3>1, <3>2, <2>1, ReceivedLast
    <3> QED
      BY <3>3, <2>1
  <2>2. ASSUME Received(first, t)[key] = first[key], \A i \in DOMAIN t : t[i].key # key
        PROVE  Received(shown, w)[key] = Received(first, t)[key]
    <3>1. \A j \in DOMAIN w : w[j].key = key => j \in DOMAIN s /\ w[j] = s[j]
      <4> SUFFICES ASSUME NEW j \in DOMAIN w, j > Len(s) PROVE w[j].key # key
        BY <1>1
      <4>1. w[j] = t[j - Len(s)] /\ j - Len(s) \in DOMAIN t
        BY <1>1
      <4> QED
        BY <4>1, <2>2
    <3>2. ASSUME NEW i \in DOMAIN s, s[i].key = key, first[key] = s[i].val,
                 \A j \in DOMAIN s : s[j].key = key => j <= i
          PROVE  Received(shown, w)[key] = first[key]
      <4>1. i \in DOMAIN w /\ w[i] = s[i]
        BY <1>1
      <4>2. \A j \in DOMAIN w : w[j].key = key => j <= i
        BY <3>1, <3>2
      <4>3. w[i].key = key /\ w \in Seq(V)
        BY <4>1, <3>2, <1>1
      <4>4. Received(shown, w)[key] = w[i].val
        BY <4>1, <4>2, <4>3, ReceivedLast
      <4> QED
        BY <4>1, <4>4, <3>2
    <3>3. ASSUME first[key] = shown[key], \A i \in DOMAIN s : s[i].key # key
          PROVE  Received(shown, w)[key] = first[key]
      <4>1. \A j \in DOMAIN w : w[j].key # key
        BY <3>1, <3>3
      <4> QED
        BY <4>1, <1>1, <3>3, ReceivedKeeps
    <3>4. Received(shown, w)[key] = first[key]
      BY <3>2, <3>3, ReceivedIs DEF first
    <3> QED
      BY <3>4, <2>2
  <2> QED
    BY <2>1, <2>2, <1>2, ReceivedIs
<1>4. /\ Received(shown, w) = [key \in DOMAIN shown |-> Received(shown, w)[key]]
      /\ Received(first, t) = [key \in DOMAIN shown |-> Received(first, t)[key]]
  BY <1>2, ReceivedShows
<1> QED
  BY <1>3, <1>4, Zenon DEF w, first

LEMMA ReceivedNothing ==
    ASSUME NEW shown, shown = [key \in DOMAIN shown |-> shown[key]]
    PROVE  Received(shown, <<>>) = shown
<1>1. \A key \in DOMAIN shown : Received(shown, <<>>)[key] = shown[key]
  <2>1. <<>> \in Seq({}) /\ DOMAIN <<>> = {}
    OBVIOUS
  <2> QED
    BY <2>1, ReceivedKeeps
<1> QED
  BY <1>1, ReceivedShows

\* A sequence is what is read of it and the rest.
LEMMA ReadFacts ==
    ASSUME NEW S, NEW w \in Seq(S), NEW k \in 0 .. Len(w)
    PROVE  /\ SubSeq(w, 1, k) \in Seq(S) /\ Rest(w, k) \in Seq(S)
           /\ Len(Rest(w, k)) = Len(w) - k
           /\ \A i \in 1 .. Len(w) - k : Rest(w, k)[i] = w[k + i]
           /\ SubSeq(w, 1, k) \o Rest(w, k) = w
           /\ \A i \in DOMAIN SubSeq(w, 1, k) : i \in DOMAIN w /\ SubSeq(w, 1, k)[i] = w[i]
<1> DEFINE a == SubSeq(w, 1, k)
           b == SubSeq(w, k + 1, Len(w))
<1>1. /\ a \in Seq(S) /\ Len(a) = k
      /\ \A i \in 1 .. k : i \in 1 .. Len(w) /\ a[i] = w[i]
  OBVIOUS
<1>2. /\ b \in Seq(S) /\ Len(b) = Len(w) - k
      /\ \A i \in 1 .. Len(w) - k : b[i] = w[k + i]
  OBVIOUS
<1> HIDE DEF a, b
<1>3. /\ Len(a \o b) = Len(w) /\ a \o b \in Seq(S) /\ Len(w) \in Nat /\ k \in Nat
      /\ \A i \in 1 .. k : (a \o b)[i] = a[i]
      /\ \A i \in 1 .. Len(w) - k : (a \o b)[k + i] = b[i]
  <2>1. Len(w) \in Nat /\ k \in Nat /\ Len(w) - k \in Nat
    <3>1. Len(w) \in Nat
      OBVIOUS
    <3> QED
      BY <3>1
  <2>2. Len(a \o b) = Len(a) + Len(b) /\ a \o b \in Seq(S)
    BY <1>1, <1>2
  <2>3. \A i \in 1 .. Len(a) : (a \o b)[i] = a[i]
    BY <1>1, <1>2
  <2>4. \A i \in 1 .. Len(b) : (a \o b)[Len(a) + i] = b[i]
    BY <1>1, <1>2
  <2>5. k + (Len(w) - k) = Len(w)
    BY <2>1
  <2>6. Len(a \o b) = Len(w)
    BY <1>1, <1>2, <2>2, <2>5
  <2>7. \A i \in 1 .. Len(w) - k : (a \o b)[k + i] = b[i]
    BY <1>1, <1>2, <2>4
  <2> QED
    BY <1>1, <2>1, <2>2, <2>3, <2>6, <2>7
<1>4. \A i \in 1 .. Len(w) : (a \o b)[i] = w[i]
  <2> SUFFICES ASSUME NEW i \in 1 .. Len(w) PROVE (a \o b)[i] = w[i]
    OBVIOUS
  <2>1. CASE i <= k
    <3>1. i \in 1 .. k
      BY <2>1, <1>3
    <3> QED
      BY <3>1, <1>1, <1>3
  <2>2. CASE i > k
    <3>1. i - k \in 1 .. Len(w) - k /\ k + (i - k) = i
      BY <2>2, <1>3
    <3>2. (a \o b)[k + (i - k)] = b[i - k] /\ b[i - k] = w[k + (i - k)]
      BY <3>1, <1>2, <1>3
    <3> QED
      BY <3>1, <3>2
  <2> QED
    BY <2>1, <2>2, <1>3
<1>5. a \o b = w
  <2> DEFINE v == a \o b
  <2>1. v \in Seq(S) /\ Len(v) = Len(w) /\ \A i \in 1 .. Len(w) : v[i] = w[i]
    BY <1>3, <1>4
  <2> HIDE DEF v
  <2>2. v = w
    BY <2>1
  <2> QED
    BY <2>2 DEF v
<1>6. /\ a \in Seq(S) /\ b \in Seq(S) /\ Len(b) = Len(w) - k
      /\ \A i \in 1 .. Len(w) - k : b[i] = w[k + i]
      /\ a \o b = w /\ \A i \in DOMAIN a : i \in DOMAIN w /\ a[i] = w[i]
  BY <1>1, <1>2, <1>5
<1> QED
  BY <1>6, Zenon DEF a, b, Rest

-----------------------------------------------------------------------------
(* What the process that owns the report sends.                            *)

ElementSamples == [key : Conds, val : [id : Nat, ts : Nat]]

\* What is on its way consists of samples.
BusFits == els \in Seq(ElementSamples) /\ pays \in Seq(PaySamples)

\* Elements and then or before them payloads were sent, and a report or none; where
\* these sends do not fail, no payload is sent without an element.
Changed(cs, p, s) ==
    /\ Elements(cs, p) /\ Payloads(s)
    /\ clock <= clock' /\ p.ts <= clock'
    /\ SendReport \/ NoReport
    /\ Faults \cap {"payload", "element"} = {} =>
           /\ torn' \subseteq torn
           /\ cs = <<>> => s = <<>>
           /\ cs # <<>> => set' # set

Moved == \E cs \in Seq(Conds) : \E p \in [id : Nat, ts : Nat] :
             \E s \in Seq(PaySamples) : Changed(cs, p, s)

LEMMA NothingSent ==
    ASSUME SetFits, BusFits
    PROVE  /\ NoElements => Elements(<<>>, NoPayload)
           /\ NoPayloads => Payloads(<<>>)
<1>1. \A seq : seq \in Seq(ElementSamples) \/ seq \in Seq(PaySamples) =>
          Queue(seq, <<>>) = seq
  <2> SUFFICES ASSUME NEW S, NEW seq \in Seq(S) PROVE seq \o <<>> = seq
    BY DEF Queue
  <2> QED
    OBVIOUS
<1>2. ToSet(<<>>) = {} /\ DOMAIN <<>> = {}
  BY DEF ToSet
<1>3. [i \in DOMAIN <<>> |-> Sample(<<>>[i], NoPayload)] = <<>>
  BY <1>2
<1>4. [c \in Conds |-> IF c \in ToSet(<<>>) THEN NoPayload ELSE set[c]] = set
  BY <1>2 DEF SetFits
<1>5. ASSUME NoElements PROVE Elements(<<>>, NoPayload)
  BY <1>1, <1>3, <1>4, <1>5 DEF NoElements, Elements, BusFits
<1>6. ASSUME NoPayloads PROVE Payloads(<<>>)
  <2>1. live = [i \in DOMAIN live |-> live[i]]
    BY DEF SetFits
  <2>2. Received(live, <<>>) = live
    BY <2>1, ReceivedNothing
  <2> QED
    BY <1>1, <1>6, <2>2 DEF NoPayloads, Payloads, BusFits
<1> QED
  BY <1>5, <1>6

\* A sample of the new payload of c and one that disposes its old one.
LEMMA TwoSamples ==
    ASSUME SetFits, NEW c \in Conds, NEW f, NEW p \in [id : Nat, ts : Nat]
    PROVE  /\ <<PayloadSample(p)>> \in Seq(PaySamples)
           /\ Superseded(c, f) \in Seq(PaySamples) /\ <<>> \in Seq(PaySamples)
           /\ \A s, t \in Seq(PaySamples) : s \o t \in Seq(PaySamples)
<1>1. set[c].id \in Nat
  BY HeldFacts
<1>2. PayloadSample(p) \in PaySamples /\ Disposed(set[c].id) \in PaySamples
  BY <1>1 DEF PayloadSample, Disposed, Sample, PaySamples, Never
<1> HIDE DEF PaySamples
<1>3. /\ <<PayloadSample(p)>> \in Seq(PaySamples) /\ <<>> \in Seq(PaySamples)
      /\ <<Disposed(set[c].id)>> \in Seq(PaySamples)
  BY <1>2, FewSamples
<1>4. \A s, t \in Seq(PaySamples) : s \o t \in Seq(PaySamples)
  OBVIOUS
<1>5. Superseded(c, f) \in Seq(PaySamples)
  BY <1>3 DEF Superseded
<1> QED
  BY <1>3, <1>4, <1>5

\* The element of a conditional is sent with a payload of the present time.
LEMMA NewElement ==
    ASSUME SetFits, NEW c \in Conds, NEW p \in [id : Nat, ts : Nat], p.ts = clock + 1,
           Elements(<<c>>, p)
    PROVE  set' # set
<1>1. <<c>> \in Seq(Conds) /\ ToSet(<<c>>) = {c}
  BY DEF ToSet
<1>2. set'[c] = p
  BY <1>1, ElementsFacts
<1>3. set[c].ts <= clock /\ clock \in Nat /\ set[c] \in [id : Nat, ts : Nat]
  <2>1. CASE set[c] = NoPayload
    BY <2>1, HeldFacts DEF NoPayload, Never, SetFits
  <2>2. CASE set[c] # NoPayload
    BY <2>2, HeldFacts DEF SetFits
  <2> QED
    BY <2>1, <2>2
<1>4. set[c].ts # clock + 1
  BY <1>3
<1> QED
  BY <1>2, <1>4

LEMMA PublishMoves ==
    ASSUME SetFits, BusFits, NEW c \in Conds, NEW f \in Failing, PublishPayload(c, f),
           SendReport \/ NoReport
    PROVE  Moved
<1> DEFINE k == clock + 1
           p == [id |-> k, ts |-> k]
           s == <<PayloadSample(p)>> \o Superseded(c, f)
<1>1. clock' = k /\ clock \in Nat /\ clock <= k /\ Never <= clock'
  BY DEF PublishPayload, SetFits, Never
<1>2. p \in [id : Nat, ts : Nat] /\ p.ts = k /\ NoPayload \in [id : Nat, ts : Nat]
      /\ NoPayload.ts = Never
  BY <1>1 DEF NoPayload, Never
<1>3. s \in Seq(PaySamples) /\ <<>> \in Seq(PaySamples)
  BY <1>2, TwoSamples
<1>4. /\ IF "payload" \in f THEN NoPayloads ELSE Payloads(s)
      /\ IF f \cap {"payload", "element"} # {} THEN NoElements ELSE Elements(<<c>>, p)
      /\ Marks(IF "payload" \in f THEN {} ELSE {c}, f)
  BY DEF PublishPayload
<1>5. <<>> \in Seq(Conds) /\ <<c>> \in Seq(Conds) /\ <<c>> # <<>>
  OBVIOUS
<1>6. CASE f \cap {"payload", "element"} # {}
  <2>1. Faults \cap {"payload", "element"} # {}
    BY <1>6 DEF Failing
  <2>2. Elements(<<>>, NoPayload) /\ (Payloads(<<>>) \/ Payloads(s))
    BY <1>4, <1>6, NothingSent
  <2>3. Changed(<<>>, NoPayload, <<>>) \/ Changed(<<>>, NoPayload, s)
    BY <1>1, <1>2, <2>1, <2>2 DEF Changed
  <2> QED
    BY <1>2, <1>3, <1>5, <2>3 DEF Moved
<1>7. CASE f \cap {"payload", "element"} = {}
  <2>1. Payloads(s) /\ Elements(<<c>>, p) /\ torn' \subseteq torn
    BY <1>4, <1>7 DEF Marks
  <2>2. set' # set
    BY <1>2, <2>1, NewElement
  <2>3. Changed(<<c>>, p, s)
    BY <1>1, <1>2, <1>5, <2>1, <2>2 DEF Changed
  <2> QED
    BY <1>2, <1>3, <1>5, <2>3 DEF Moved
<1> QED
  BY <1>6, <1>7

LEMMA UpdateMoves ==
    ASSUME SetFits, BusFits, NEW c \in Conds, NEW newId \in BOOLEAN,
           UpdateSpecialization(c, newId)
    PROVE  Moved
<1> DEFINE k == clock + 1
<1>1. clock' = k /\ clock \in Nat /\ clock <= k /\ Never <= clock' /\ NoReport
  BY DEF UpdateSpecialization, SetFits, Never
<1>2. PICK f \in Failing :
          LET p   == [id |-> IF newId THEN k ELSE set[c].id, ts |-> k]
              new == IF "payload" \in f THEN <<>> ELSE <<PayloadSample(p)>>
          IN  /\ Payloads(IF newId THEN Superseded(c, f) \o new ELSE new)
              /\ IF f \cap {"payload", "element"} # {} THEN NoElements
                 ELSE Elements(<<c>>, p)
              /\ Marks({c}, f)
  BY <1>1, Zenon DEF UpdateSpecialization
<1> DEFINE p == [id |-> IF newId THEN k ELSE set[c].id, ts |-> k]
           new == IF "payload" \in f THEN <<>> ELSE <<PayloadSample(p)>>
           s == IF newId THEN Superseded(c, f) \o new ELSE new
<1>3. /\ Payloads(s) /\ Marks({c}, f)
      /\ IF f \cap {"payload", "element"} # {} THEN NoElements ELSE Elements(<<c>>, p)
  BY <1>2
<1>4. p \in [id : Nat, ts : Nat] /\ p.ts = k /\ NoPayload \in [id : Nat, ts : Nat]
      /\ NoPayload.ts = Never
  BY <1>1, HeldFacts DEF NoPayload, Never
<1> HIDE DEF p
<1>5. s \in Seq(PaySamples) /\ <<>> \in Seq(PaySamples)
  <2>1. new \in Seq(PaySamples) /\ Superseded(c, f) \in Seq(PaySamples)
    BY <1>4, TwoSamples
  <2> HIDE DEF new
  <2>2. \A t, u \in Seq(PaySamples) : t \o u \in Seq(PaySamples)
    BY <1>4, TwoSamples
  <2> QED
    BY <1>4, <2>1, <2>2, TwoSamples
<1> HIDE DEF s
<1>6. <<>> \in Seq(Conds) /\ <<c>> \in Seq(Conds) /\ <<c>> # <<>>
  OBVIOUS
<1>7. CASE f \cap {"payload", "element"} # {}
  <2>1. Faults \cap {"payload", "element"} # {}
    BY <1>7 DEF Failing
  <2>2. Elements(<<>>, NoPayload)
    BY <1>3, <1>7, NothingSent
  <2>3. Changed(<<>>, NoPayload, s)
    BY <1>1, <1>3, <1>4, <2>1, <2>2 DEF Changed
  <2> QED
    BY <1>4, <1>5, <1>6, <2>3 DEF Moved
<1>8. CASE f \cap {"payload", "element"} = {}
  <2>1. Elements(<<c>>, p) /\ torn' \subseteq torn
    BY <1>3, <1>8 DEF Marks
  <2>2. set' # set
    BY <1>4, <2>1, NewElement
  <2>3. Changed(<<c>>, p, s)
    BY <1>1, <1>3, <1>4, <1>6, <2>1, <2>2 DEF Changed
  <2> QED
    BY <1>4, <1>5, <1>6, <2>3 DEF Moved
<1> QED
  BY <1>7, <1>8

LEMMA RemoveMoves ==
    ASSUME SetFits, BusFits, NEW cs \in Seq(Held(set)), NEW f \in Failing,
           RemoveSpecializations(cs, f), SendReport \/ NoReport
    PROVE  Moved
<1> DEFINE k == IF "element" \in f THEN Len(cs) - 1 ELSE Len(cs)
           some == SubSeq(cs, 1, k)
           s == IF "dispose" \in f THEN <<>>
                ELSE [i \in DOMAIN cs |-> Disposed(set[cs[i]].id)]
<1>1. /\ Payloads(s) /\ Elements(some, NoPayload) /\ Marks(ToSet(cs), f)
      /\ clock' = clock /\ clock \in Nat
  BY DEF RemoveSpecializations, SetFits
<1>2. /\ NoPayload \in [id : Nat, ts : Nat] /\ NoPayload.ts <= clock' /\ clock <= clock'
  BY <1>1 DEF NoPayload, Never
<1>3. \A i \in DOMAIN cs : cs[i] \in Held(set)
  OBVIOUS
<1>4. \A d \in Held(set) : d \in Conds /\ set[d].id \in Nat
  <2>1. Held(set) \subseteq Conds
    BY DEF Held
  <2> QED
    BY <2>1, HeldFacts
<1>5. s \in Seq(PaySamples) /\ (cs = <<>> => s = <<>>)
  <2>1. \A i \in DOMAIN cs : Disposed(set[cs[i]].id) \in PaySamples
    BY <1>3, <1>4 DEF Disposed, Sample, PaySamples, Never
  <2>2. <<>> \in Seq(PaySamples)
    OBVIOUS
  <2>3. DOMAIN cs = 1 .. Len(cs) /\ Len(cs) \in Nat
    OBVIOUS
  <2>4. [i \in DOMAIN cs |-> Disposed(set[cs[i]].id)] \in Seq(PaySamples)
    BY <2>1, <2>3
  <2>5. cs = <<>> => s = <<>>
    <3>1. cs = <<>> => DOMAIN cs = {}
      OBVIOUS
    <3> QED
      BY <3>1
  <2> QED
    BY <2>2, <2>4, <2>5
<1> HIDE DEF s
<1>6. some \in Seq(Conds) /\ ("element" \notin f => some = cs)
  <2>1. Len(cs) \in Nat /\ k \in Int /\ k <= Len(cs) /\ k + 1 >= 0
    OBVIOUS
  <2>2. some \in Seq(Held(set))
    <3> HIDE DEF k
    <3> QED
      BY <2>1
  <2>3. "element" \notin f => some = cs
    OBVIOUS
  <2> HIDE DEF some
  <2> QED
    BY <2>2, <2>3, <1>4
<1> HIDE DEF some
<1>7. ASSUME Faults \cap {"payload", "element"} = {}
      PROVE  /\ torn' \subseteq torn /\ (some = <<>> => s = <<>>)
             /\ some # <<>> => set' # set
  <2>1. f \cap {"payload", "element"} = {} /\ some = cs
    <3>1. "payload" \notin f /\ "element" \notin f
      BY <1>7 DEF Failing
    <3> QED
      BY <3>1, <1>6
  <2>2. torn' \subseteq torn
    BY <1>1, <2>1 DEF Marks
  <2>3. ASSUME cs # <<>> PROVE set' # set
    <3>1. 1 \in DOMAIN cs
      BY <2>3
    <3>2. cs[1] \in Held(set) /\ cs[1] \in ToSet(cs)
      BY <3>1, <1>3 DEF ToSet
    <3>3. set'[cs[1]] = NoPayload /\ set[cs[1]] # NoPayload
      BY <3>2, <1>1, <2>1 DEF Elements, Held
    <3> QED
      BY <3>3
  <2> QED
    BY <1>5, <2>1, <2>2, <2>3
<1>8. Changed(some, NoPayload, s)
  BY <1>1, <1>2, <1>7 DEF Changed
<1> QED
  BY <1>2, <1>5, <1>6, <1>8 DEF Moved

LEMMA ElsewhereMoves ==
    ASSUME SetFits, BusFits, Direct \/ Delete
    PROVE  Moved
<1>1. \A c \in Conds : set[c] # NoPayload => <<c>> \in Seq(Held(set))
  BY DEF Held
<1>2. \A S \in SUBSET Held(set) : \A cs \in SetToSeqs(S) : cs \in Seq(Held(set))
  <2> SUFFICES ASSUME NEW S \in SUBSET Held(set), NEW cs \in SetToSeqs(S)
               PROVE  cs \in Seq(Held(set))
    OBVIOUS
  <2> DEFINE n == Cardinality(S)
  <2>1. IsFiniteSet(S)
    BY FS_Subset DEF SetFits
  <2>2. n \in Nat /\ cs \in [1 .. n -> S]
    BY <2>1, FS_CardinalityType DEF SetToSeqs
  <2> HIDE DEF n
  <2> QED
    BY <2>2
<1>3. ASSUME NEW cs \in Seq(Held(set)), NEW f \in Failing, RemoveSpecializations(cs, f),
             SendReport \/ NoReport
      PROVE  Moved
  BY <1>3, RemoveMoves
<1>4. ASSUME NEW c \in Conds, AddSpecialization(c) PROVE Moved
  BY <1>4, PublishMoves DEF AddSpecialization
<1>5. ASSUME NEW c \in Conds, RemoveSpecialization(c) PROVE Moved
  <2>1. PICK f \in SUBSET (Faults \cap {"dispose", "element"}) :
            RemoveSpecializations(<<c>>, f)
    BY <1>5 DEF RemoveSpecialization
  <2>2. f \in Failing /\ NoReport /\ set[c] # NoPayload
    BY <1>5 DEF RemoveSpecialization, Failing
  <2> QED
    BY <1>1, <1>3, <2>1, <2>2
<1>6. CASE Report
  <2>1. Elements(<<>>, NoPayload) /\ Payloads(<<>>)
    BY <1>6, NothingSent DEF Report
  <2>2. NoPayload \in [id : Nat, ts : Nat] /\ NoPayload.ts <= clock
    BY DEF NoPayload, Never, SetFits
  <2>3. /\ <<>> \in Seq(Conds) /\ <<>> \in Seq(PaySamples) /\ clock <= clock'
        /\ clock' = clock /\ torn' = torn
    BY <1>6 DEF Report, SetFits
  <2>4. Changed(<<>>, NoPayload, <<>>)
    BY <1>6, <2>1, <2>2, <2>3 DEF Changed, Report
  <2> QED
    BY <2>2, <2>3, <2>4 DEF Moved
<1>7. ASSUME NEW cs \in Seq(Held(set)), DeleteSome(cs) PROVE Moved
  <2>1. PICK f \in SUBSET (Faults \ {"payload"}) :
            RemoveSpecializations(cs, f) /\ (SendReport \/ NoReport)
    BY <1>7 DEF DeleteSome
  <2> QED
    BY <1>3, <2>1 DEF Failing
<1>8. CASE Delete
  <2>1. ASSUME NEW some \in SUBSET Held(set), NEW cs \in SetToSeqs(some),
               "element" \in Faults, RemoveSpecializations(cs, {"element"}), NoReport
        PROVE  Moved
    BY <1>2, <1>3, <2>1 DEF Failing
  <2>2. \A c \in Held(set) : <<c>> \in Seq(Held(set))
    OBVIOUS
  <2> QED
    BY <1>2, <1>7, <1>8, <2>1, <2>2 DEF Delete
<1>9. ASSUME NEW c \in Conds, NEW newId \in BOOLEAN, UpdateSpecialization(c, newId)
      PROVE  Moved
  BY <1>9, UpdateMoves
<1> QED
  BY <1>4, <1>5, <1>6, <1>8, <1>9 DEF Direct

-----------------------------------------------------------------------------
(* The reader of the report.                                               *)

\* The elements on their way and those in the reader's table are not of the future.
ElsFit ==
    /\ els \in Seq(ElementSamples)
    /\ \A i \in DOMAIN els : els[i].val.ts <= clock
    /\ table \in [Conds -> [id : Nat, ts : Nat]]
    /\ \A c \in Conds : table[c].ts <= clock

\* The samples of a sequence of conditionals.
LEMMA SentElements ==
    ASSUME els \in Seq(ElementSamples), NEW cs \in Seq(Conds),
           NEW p \in [id : Nat, ts : Nat], Elements(cs, p)
    PROVE  /\ [i \in DOMAIN cs |-> Sample(cs[i], p)] \in Seq(ElementSamples)
           /\ els' \in Seq(ElementSamples)
           /\ \A i \in DOMAIN els' : (i \in DOMAIN els /\ els'[i] = els[i]) \/ els'[i].val = p
<1> DEFINE new == [i \in DOMAIN cs |-> Sample(cs[i], p)]
<1>1. new \in Seq(ElementSamples) /\ \A i \in DOMAIN new : new[i].val = p
  <2>1. DOMAIN cs = 1 .. Len(cs) /\ Len(cs) \in Nat /\ \A i \in DOMAIN cs : cs[i] \in Conds
    OBVIOUS
  <2>2. \A i \in DOMAIN cs : Sample(cs[i], p) \in ElementSamples /\ Sample(cs[i], p).val = p
    BY <2>1 DEF Sample, ElementSamples
  <2> QED
    BY <2>1, <2>2
<1>2. els' = els \/ els' = els \o new
  BY DEF Elements, Queue
<1> HIDE DEF new
<1>3. /\ els \o new \in Seq(ElementSamples)
      /\ \A i \in DOMAIN (els \o new) :
             \/ i \in DOMAIN els /\ (els \o new)[i] = els[i]
             \/ i - Len(els) \in DOMAIN new /\ (els \o new)[i] = new[i - Len(els)]
  <2> HIDE DEF ElementSamples
  <2> QED
    BY <1>1
<1>4. els' \in Seq(ElementSamples)
  BY <1>2, <1>3
<1>5. \A i \in DOMAIN els' : (i \in DOMAIN els /\ els'[i] = els[i]) \/ els'[i].val = p
  <2>1. CASE els' = els
    BY <2>1
  <2>2. CASE els' = els \o new
    BY <2>2, <1>1, <1>3
  <2> QED
    BY <1>2, <2>1, <2>2
<1> QED
  BY <1>1, <1>4, <1>5 DEF new

LEMMA ElsFitSent ==
    ASSUME SetFits, SetFits', ElsFit, NEW cs \in Seq(Conds), NEW p \in [id : Nat, ts : Nat],
           Elements(cs, p), clock <= clock', p.ts <= clock', table' = table
    PROVE  ElsFit'
<1>1. /\ els' \in Seq(ElementSamples)
      /\ \A i \in DOMAIN els' : (i \in DOMAIN els /\ els'[i] = els[i]) \/ els'[i].val = p
  BY SentElements DEF ElsFit
<1>2. clock \in Nat /\ clock' \in Nat
  BY DEF SetFits
<1>3. ASSUME NEW i \in DOMAIN els' PROVE els'[i].val.ts <= clock'
  <2>1. CASE els'[i].val = p
    BY <2>1
  <2>2. CASE i \in DOMAIN els /\ els'[i] = els[i]
    <3>1. els[i] \in ElementSamples /\ els[i].val.ts <= clock
      BY <2>2 DEF ElsFit
    <3>2. els[i].val.ts \in Nat
      BY <3>1 DEF ElementSamples
    <3> QED
      BY <2>2, <3>1, <3>2, <1>2
  <2> QED
    BY <1>1, <2>1, <2>2
<1>4. \A c \in Conds : table'[c].ts <= clock'
  <2>1. \A c \in Conds : table[c].ts \in Nat /\ table[c].ts <= clock
    BY DEF ElsFit
  <2> QED
    BY <2>1, <1>2
<1> QED
  BY <1>1, <1>3, <1>4 DEF ElsFit

LEMMA ElsFitRead ==
    ASSUME ElsFit, NEW j \in 0 .. Len(els), table' = Received(table, SubSeq(els, 1, j)),
           els' = Rest(els, j), clock' = clock
    PROVE  ElsFit'
<1> DEFINE a == SubSeq(els, 1, j)
<1>1. /\ a \in Seq(ElementSamples) /\ els' \in Seq(ElementSamples)
      /\ \A i \in DOMAIN a : i \in DOMAIN els /\ a[i] = els[i]
      /\ \A i \in DOMAIN els' : j + i \in DOMAIN els /\ els'[i] = els[j + i]
  <2>1. els \in Seq(ElementSamples)
    BY DEF ElsFit
  <2>2. /\ a \in Seq(ElementSamples) /\ els' \in Seq(ElementSamples)
        /\ \A i \in DOMAIN a : i \in DOMAIN els /\ a[i] = els[i]
        /\ Len(els') = Len(els) - j
        /\ \A i \in 1 .. Len(els) - j : els'[i] = els[j + i]
    BY <2>1, ReadFacts
  <2> HIDE DEF a
  <2>3. DOMAIN els' = 1 .. Len(els) - j /\ DOMAIN els = 1 .. Len(els) /\ Len(els) \in Nat
    BY <2>1, <2>2
  <2> QED
    BY <2>2, <2>3
<1>7. table' = Received(table, a)
  OBVIOUS
<1> HIDE DEF a
<1>2. \A i \in DOMAIN els : els[i].val \in [id : Nat, ts : Nat] /\ els[i].val.ts <= clock
  <2>1. \A i \in DOMAIN els : els[i] \in ElementSamples
    BY DEF ElsFit
  <2> QED
    BY <2>1 DEF ElsFit, ElementSamples
<1>3. DOMAIN table = Conds
  BY DEF ElsFit
<1>4. \A c \in Conds : table'[c] \in [id : Nat, ts : Nat] /\ table'[c].ts <= clock
  <2> SUFFICES ASSUME NEW c \in Conds
               PROVE  table'[c] \in [id : Nat, ts : Nat] /\ table'[c].ts <= clock
    OBVIOUS
  <2>1. table'[c] = table[c] \/ \E i \in DOMAIN a : table'[c] = a[i].val
    BY <1>1, <1>3, <1>7, ReceivedIs
  <2> QED
    BY <2>1, <1>1, <1>2 DEF ElsFit
<1>5. table' = [c \in Conds |-> table'[c]]
  BY <1>3, <1>7, ReceivedShows
<1>6. table' \in [Conds -> [id : Nat, ts : Nat]]
  BY <1>4, <1>5
<1> QED
  BY <1>1, <1>2, <1>4, <1>6 DEF ElsFit

-----------------------------------------------------------------------------
(* The constraints that are applied.                                       *)

\* The commanded constraints, as far as they exist.
Wanted == [c \in ids.of \cap Existing |-> conditionals.of[c]]

\* A standing session that has nothing left to do has applied what is wanted, and
\* after the constraints' part of a turn it has nothing left to do.
ApplyFits ==
    /\ cmd => ids.is
    /\ applied.is => ids.is /\ DOMAIN applied.of \subseteq Conds
    /\ bound /\ applied.is =>
           \A c \in DOMAIN applied.of : applied.of[c] = conditionals.of[c]
    /\ standing /\ cmd /\ conditionals.is /\ ~dirty => bound /\ applied = Just(Wanted)
    /\ standing /\ cmd /\ conditionals.is /\ pc = "objective" => ~dirty
    /\ reason \in {"SUCCEEDED", "VALIDATION_FAILED", "SERVICE_FAILED"}
    /\ pc \in {"report", "constraints", "objective", "exited"}

LEMMA HeldInConds ==
    ASSUME NEW s
    PROVE  Held(s) \subseteq Conds
  BY DEF Held

\* handleExecuting(), of the command that is there or of a new one.
LEMMA ExecutingFits ==
    ASSUME ApplyFits, NEW why, why \in {"SUCCEEDED", reason}, NEW news,
           ids'.is, Executing(ids', why, news), ids' = ids \/ news, news = dirty \/ news,
           ids' = ids /\ ~news => cmd /\ ~dirty,
           conditionals' = conditionals, standing' = standing, pc' = "objective"
    PROVE  ApplyFits'
<1> DEFINE W == [c \in ids'.of \cap Existing |-> conditionals.of[c]]
<1>1. Wanted' = W /\ DOMAIN W \subseteq Conds
  BY HeldInConds DEF Wanted, Existing
<1>2. reason' \in {"SUCCEEDED", "VALIDATION_FAILED", "SERVICE_FAILED"}
  BY DEF Executing, ApplyFits
<1>3. CASE cmd' = FALSE /\ UNCHANGED <<applied, bound>>
  BY <1>2, <1>3 DEF ApplyFits
<1>4. CASE /\ cmd' = TRUE /\ UNCHANGED <<applied, bound>>
           /\ ~conditionals.is \/ ~standing
  BY <1>2, <1>4 DEF ApplyFits
<1>5. CASE /\ cmd' = TRUE /\ UNCHANGED <<applied, bound>> /\ dirty' = news
           /\ conditionals.is /\ standing /\ ~news
  <2>1. ids' = ids /\ cmd /\ ~dirty /\ ~dirty'
    BY <1>5
  <2>2. Wanted' = Wanted /\ bound /\ applied = Just(Wanted)
    BY <1>1, <1>5, <2>1 DEF ApplyFits, Wanted
  <2> QED
    BY <1>2, <1>5, <2>1, <2>2 DEF ApplyFits
<1>6. CASE applied' = Just(W) /\ bound' = TRUE /\ dirty' = FALSE
  <2>1. applied'.is /\ applied'.of = W
    BY <1>6 DEF Just
  <2>2. \A c \in DOMAIN W : W[c] = conditionals.of[c]
    OBVIOUS
  <2> HIDE DEF W
  <2> QED
    BY <1>1, <1>2, <1>6, <2>1, <2>2 DEF ApplyFits
<1>7. \/ cmd' = FALSE /\ UNCHANGED <<applied, bound>>
      \/ /\ cmd' = TRUE /\ UNCHANGED <<applied, bound>>
         /\ ~conditionals.is \/ ~standing
      \/ /\ cmd' = TRUE /\ UNCHANGED <<applied, bound>> /\ dirty' = news
         /\ conditionals.is /\ standing /\ ~news
      \/ applied' = Just(W) /\ bound' = TRUE /\ dirty' = FALSE
  BY DEF Executing, Unchanged
<1> HIDE DEF W
<1> QED
  BY <1>3, <1>4, <1>5, <1>6, <1>7

LEMMA ApplyStep ==
    ASSUME ApplyFits, Next
    PROVE  ApplyFits'
<1>0. standing' = standing
  BY DEF Next
<1>1. ASSUME UNCHANGED <<cmd, ids, applied, bound, dirty, conditionals, reason>>,
             pc' \in {"report", "constraints", "exited"} \/ pc' = pc
      PROVE  ApplyFits'
  <2>1. Wanted' = Wanted
    BY <1>1 DEF Wanted, Existing
  <2>2. pc' = "objective" => pc = "objective"
    BY <1>1
  <2>3. pc' \in {"report", "constraints", "objective", "exited"}
    BY <1>1 DEF ApplyFits
  <2> QED
    BY <1>0, <1>1, <2>1, <2>2, <2>3 DEF ApplyFits
<1>2. CASE Elsewhere
  BY <1>1, <1>2 DEF Elsewhere, consumerVars, constraintVars
<1>3. CASE NoNewReport \/ Evaluate
  BY <1>1, <1>3 DEF NoNewReport, Evaluate, consumerVars, constraintVars
<1>4. CASE NewReport
  <2>1. /\ UNCHANGED <<cmd, ids, reason, applied>> /\ pc' \in {"constraints", "exited"}
        /\ \/ UNCHANGED <<conditionals, dirty, bound>>
           \/ dirty' = TRUE /\ bound' = FALSE
    BY <1>4 DEF NewReport, Notify, NotifyEmpty, constraintVars
  <2>2. CASE UNCHANGED <<conditionals, dirty, bound>>
    BY <1>1, <2>1, <2>2
  <2>3. CASE dirty' = TRUE /\ bound' = FALSE
    BY <1>0, <2>1, <2>3 DEF ApplyFits
  <2> QED
    BY <2>1, <2>2, <2>3
<1>5. ASSUME NEW want \in SUBSET Conds, Constrain(want) PROVE ApplyFits'
  <2>1. pc' = "objective" /\ conditionals' = conditionals
    BY <1>5 DEF Constrain, consumerVars
  <2>2. CASE want \subseteq Existing
    <3>1. ids' = Just(want) /\ Executing(ids', "SUCCEEDED", TRUE)
      BY <1>5, <2>2 DEF Constrain
    <3>2. ids'.is
      BY <3>1 DEF Just
    <3> QED
      BY <1>0, <2>1, <3>1, <3>2, ExecutingFits
  <2>3. CASE ~ (want \subseteq Existing)
    <3>1. /\ cmd' = FALSE /\ reason' = "VALIDATION_FAILED"
          /\ UNCHANGED <<ids, applied, bound, dirty>>
      BY <1>5, <2>3 DEF Constrain
    <3> QED
      BY <2>1, <3>1 DEF ApplyFits
  <2> QED
    BY <2>2, <2>3
<1>6. CASE Dispose
  BY <1>6 DEF Dispose, ApplyFits, consumerVars
<1>7. CASE Cycle
  <2>1. pc' = "objective" /\ conditionals' = conditionals /\ ids' = ids
    BY <1>7 DEF Cycle, consumerVars
  <2>2. CASE cmd
    <3>1. ids.is /\ Executing(ids', reason, dirty)
      BY <1>7, <2>1, <2>2 DEF Cycle, ApplyFits
    <3> QED
      BY <1>0, <2>1, <2>2, <3>1, ExecutingFits
  <2>3. CASE ~cmd
    <3>1. UNCHANGED <<cmd, reason, applied, bound, dirty>>
      BY <1>7, <2>3 DEF Cycle
    <3> QED
      BY <2>1, <2>3, <3>1 DEF ApplyFits
  <2> QED
    BY <2>2, <2>3
<1> QED
  BY <1>2, <1>3, <1>4, <1>5, <1>6, <1>7 DEF Next, Turn

ConstraintsFit == SetFits /\ AddFits /\ BusFits /\ ElsFit /\ ApplyFits

\* What a step of the process that owns the report leaves.
LEMMA ElsewhereFits ==
    ASSUME SetFits, AddFits, BusFits, Elsewhere
    PROVE  (SetFits /\ AddFits /\ BusFits)'
<1>1. SetFits'
  BY DeleteKeeps, DirectKeeps DEF Elsewhere
<1>2. add' = add /\ cached' = cached
  BY DEF Elsewhere, Delete, DeleteSome, RemoveSpecializations, Direct, AddSpecialization,
         UpdateSpecialization, RemoveSpecialization, Report
<1>3. PICK cs \in Seq(Conds) : \E p \in [id : Nat, ts : Nat] :
          \E s \in Seq(PaySamples) : Changed(cs, p, s)
  BY ElsewhereMoves DEF Elsewhere, Moved
<1>4. PICK p \in [id : Nat, ts : Nat] : \E s \in Seq(PaySamples) : Changed(cs, p, s)
  BY <1>3
<1>5. PICK s \in Seq(PaySamples) : Changed(cs, p, s)
  BY <1>4
<1>6. els' \in Seq(ElementSamples)
  BY <1>5, SentElements DEF Changed, BusFits
<1>7. pays' \in Seq(PaySamples)
  <2>1. \A t, u \in Seq(PaySamples) : t \o u \in Seq(PaySamples)
    OBVIOUS
  <2> QED
    BY <1>5, <2>1 DEF Changed, Payloads, Queue, BusFits
<1> QED
  BY <1>1, <1>2, <1>6, <1>7 DEF AddFits, BusFits

LEMMA TurnFits ==
    ASSUME SetFits, AddFits, BusFits, ElsFit, Turn
    PROVE  (SetFits /\ AddFits /\ BusFits /\ ElsFit)'
<1>1. CASE NewReport
  <2>1. PICK j \in 0 .. Len(els), i \in 0 .. Len(pays) :
            /\ table' = Received(table, SubSeq(els, 1, j))
            /\ els' = Rest(els, j) /\ pays' = Rest(pays, i)
    BY <1>1 DEF NewReport
  <2>2. UNCHANGED <<cached, add, set, live, clock, metadata, torn, failed>>
    BY <1>1 DEF NewReport
  <2>3. SetFits' /\ AddFits' /\ ElsFit'
    BY <2>1, <2>2, SameFits, ElsFitRead DEF AddFits
  <2>4. els' \in Seq(ElementSamples) /\ pays' \in Seq(PaySamples)
    BY <2>1, ReadFacts DEF BusFits
  <2> QED
    BY <2>3, <2>4 DEF BusFits
<1>2. CASE UNCHANGED <<providerVars, consumerVars>>
  BY <1>2, SameFits DEF providerVars, reportVars, consumerVars, AddFits, BusFits, ElsFit
<1>3. NewReport \/ UNCHANGED <<providerVars, consumerVars>>
  BY DEF Turn, NoNewReport, Constrain, Dispose, Cycle, Evaluate
<1> QED
  BY <1>1, <1>2, <1>3

LEMMA ConstraintsStep == ConstraintsFit /\ [Next]_vars => ConstraintsFit'
<1> SUFFICES ASSUME ConstraintsFit, [Next]_vars PROVE ConstraintsFit'
  OBVIOUS
<1>1. CASE UNCHANGED vars
  <2>1. UNCHANGED <<providerVars, consumerVars, constraintVars, standing, dirty, bound, pc>>
    BY <1>1 DEF vars
  <2>2. SetFits' /\ AddFits' /\ BusFits' /\ ElsFit'
    BY <2>1, SameFits DEF ConstraintsFit, providerVars, reportVars, consumerVars,
                          AddFits, BusFits, ElsFit
  <2>3. ApplyFits'
    BY <2>1 DEF ConstraintsFit, consumerVars, constraintVars, ApplyFits, Wanted, Existing
  <2> QED
    BY <2>2, <2>3 DEF ConstraintsFit
<1>2. CASE Next /\ Turn
  BY <1>2, TurnFits, ApplyStep DEF ConstraintsFit
<1>3. CASE Next /\ Elsewhere
  <2>1. (SetFits /\ AddFits /\ BusFits)' /\ ApplyFits'
    BY <1>3, ElsewhereFits, ApplyStep DEF ConstraintsFit
  <2>2. PICK cs \in Seq(Conds) : \E p \in [id : Nat, ts : Nat] :
            \E s \in Seq(PaySamples) : Changed(cs, p, s)
    BY <1>3, ElsewhereMoves DEF ConstraintsFit, Elsewhere, Moved
  <2>3. PICK p \in [id : Nat, ts : Nat] : \E s \in Seq(PaySamples) : Changed(cs, p, s)
    BY <2>2
  <2>4. table' = table
    BY <1>3 DEF Elsewhere, consumerVars
  <2>5. ElsFit'
    BY <2>1, <2>3, <2>4, ElsFitSent DEF ConstraintsFit, Changed
  <2> QED
    BY <2>1, <2>5 DEF ConstraintsFit
<1> QED
  BY <1>1, <1>2, <1>3 DEF Next

LEMMA ConstraintsStart == Init => ConstraintsFit
<1> SUFFICES ASSUME Init PROVE ConstraintsFit
  OBVIOUS
<1>1. SetFits /\ AddFits
  BY ReportStart DEF Init
<1>2. els = <<>> /\ pays = <<>> /\ table = [c \in Conds |-> NoPayload] /\ clock = 0
  BY DEF Init, InitReport
<1>3. NoPayload \in [id : Nat, ts : Nat] /\ NoPayload.ts = 0
  BY DEF NoPayload, Never
<1>4. BusFits /\ ElsFit
  BY <1>2, <1>3 DEF BusFits, ElsFit
<1>5. ApplyFits
  BY DEF Init, ApplyFits, None
<1> QED
  BY <1>1, <1>4, <1>5 DEF ConstraintsFit

\* What the objective evaluates is what was commanded, of the conditionals there
\* are, and is evaluated on the objects these conditionals refer to, whatever is
\* sent, delayed or lost between the report and its reader: for any conditionals,
\* bounds and failures.
THEOREM ConstraintsAreCommanded == Spec => []ConstraintsInv
<1>1. ConstraintsFit => ConstraintsInv
  <2> SUFFICES ASSUME ConstraintsFit PROVE TypeOK /\ StandingCurrent
    BY DEF ConstraintsInv
  <2>1. ReportTypeOK
    BY FitsIsReportInv DEF ConstraintsFit, ReportInv
  <2>2. \A c \in Held(table) : table[c].ts <= clock
    BY HeldInConds DEF ConstraintsFit, ElsFit
  <2>3. TypeOK
    BY <2>1, <2>2 DEF ConstraintsFit, ApplyFits, TypeOK
  <2>4. StandingCurrent
    BY DEF ConstraintsFit, ApplyFits, StandingCurrent, Wanted
  <2> QED
    BY <2>3, <2>4
<1> QED
  BY <1>1, ConstraintsStart, ConstraintsStep, PTL DEF Spec

-----------------------------------------------------------------------------
(* A reader that loses nothing.  What the reader shows and what is on its  *)
(* way is what the report's process has, and the last report belongs to it. *)

Descriptions == [size : Nat, ts : Nat]

ReportMsgs == [m : Descriptions, els : Nat, pays : Nat]

BusHolds ==
    /\ lookup = [i \in 0 .. MaxTime |-> lookup[i]]
    /\ metadata \in Descriptions /\ reports \in Seq(ReportMsgs)
    /\ Received(table, els) = set
    /\ \A i \in Times : Received(lookup, pays)[i] = live[i]
    /\ torn = {}
    /\ published /\ reports # <<>> =>
           reports[Len(reports)] = [m |-> metadata, els |-> Len(els), pays |-> Len(pays)]
    /\ published /\ reports = <<>> /\ pc # "exited" /\ Closed => conditionals = Just(set)

LEMMA BusSame ==
    ASSUME BusHolds, UNCHANGED <<providerVars, consumerVars>>,
           pc' = "exited" <=> pc = "exited"
    PROVE  BusHolds'
  BY DEF BusHolds, providerVars, reportVars, consumerVars, Closed, Held

LEMMA MetadataFacts ==
    ASSUME SetFits', metadata \in Descriptions, NEW cs, NEW p \in [id : Nat, ts : Nat],
           Elements(cs, p)
    PROVE  metadata' \in Descriptions
<1>1. Cardinality(Held(set')) \in Nat /\ p.ts \in Nat
  BY FS_CardinalityType DEF SetFits, Held
<1> QED
  BY <1>1 DEF Elements, Described, Descriptions

\* What was sent reaches the reader behind what was on its way.
LEMMA BusShows ==
    ASSUME SetFits, BusFits, BusHolds, Followed, NEW cs \in Seq(Conds),
           NEW p \in [id : Nat, ts : Nat], NEW s \in Seq(PaySamples), Changed(cs, p, s),
           UNCHANGED <<table, lookup>>
    PROVE  /\ Received(table, els)' = set'
           /\ \A i \in Times : Received(lookup, pays)'[i] = live'[i]
           /\ cs = <<>> => els' = els
           /\ s = <<>> => pays' = pays
<1> DEFINE new == [i \in DOMAIN cs |-> Sample(cs[i], p)]
<1>1. /\ els' = els \o new /\ pays' = pays \o s /\ live' = Received(live, s)
      /\ set' = [c \in Conds |-> IF c \in ToSet(cs) THEN p ELSE set[c]]
  BY DEF Changed, Elements, Payloads, Queue
<1>2. new \in Seq(ElementSamples)
  BY SentElements DEF Changed, BusFits
<1>3. \A i \in DOMAIN new : new[i].key = cs[i] /\ new[i].val = p
  BY DEF Sample
<1>4. DOMAIN new = DOMAIN cs /\ \A i \in DOMAIN cs : cs[i] \in ToSet(cs)
  BY DEF ToSet
<1>5. \A c \in ToSet(cs) : \E i \in DOMAIN cs : c = cs[i]
  BY DEF ToSet
<1> HIDE DEF new
<1>6. Received(table, els)' = set'
  <2>1. Received(table, els)' = Received(Received(table, els), new)
    BY <1>1, <1>2, ReceivedTwice DEF BusFits
  <2>2. Received(table, els) = set /\ DOMAIN set = Conds
    BY DEF BusHolds, SetFits
  <2>3. \A c \in Conds : Received(set, new)[c] = set'[c]
    <3> SUFFICES ASSUME NEW c \in Conds PROVE Received(set, new)[c] = set'[c]
      OBVIOUS
    <3>1. CASE c \in ToSet(cs)
      <4>1. \E i \in DOMAIN new : new[i].key = c
        BY <3>1, <1>3, <1>4, <1>5
      <4>2. \E i \in DOMAIN new : Received(set, new)[c] = new[i].val
        BY <4>1, <1>2, <2>2, ReceivedIs
      <4> QED
        BY <4>2, <1>1, <1>3, <3>1
    <3>2. CASE c \notin ToSet(cs)
      <4>1. \A i \in DOMAIN new : new[i].key # c
        BY <3>2, <1>3, <1>4
      <4>2. Received(set, new)[c] = set[c]
        BY <4>1, <1>2, <2>2, ReceivedKeeps
      <4> QED
        BY <4>2, <1>1, <3>2
    <3> QED
      BY <3>1, <3>2
  <2>4. Received(set, new) = [c \in Conds |-> Received(set, new)[c]]
    BY <2>2, ReceivedShows
  <2> QED
    BY <1>1, <2>1, <2>2, <2>3, <2>4
<1>7. ASSUME NEW i \in Times PROVE Received(lookup, pays)'[i] = live'[i]
  <2> DEFINE all == Received(lookup, pays)
  <2>1. Received(lookup, pays)' = Received(all, s)
    BY <1>1, ReceivedTwice DEF BusFits
  <2>2. i \in DOMAIN all /\ i \in DOMAIN live /\ all[i] = live[i]
    <3>1. i \in 0 .. MaxTime
      BY ConditionalReportAssumption DEF Times
    <3>2. DOMAIN all = DOMAIN lookup /\ DOMAIN lookup = 0 .. MaxTime
      BY DEF Received, BusHolds
    <3> QED
      BY <3>1, <3>2 DEF BusHolds, SetFits
  <2> HIDE DEF all
  <2>3. Received(all, s)[i] = Received(live, s)[i]
    <3>1. CASE \A k \in DOMAIN s : s[k].key # i
      <4>1. Received(all, s)[i] = all[i]
        BY <3>1, <2>2, ReceivedKeeps
      <4>2. Received(live, s)[i] = live[i]
        BY <3>1, <2>2, ReceivedKeeps
      <4> QED
        BY <4>1, <4>2, <2>2
    <3>2. CASE \E k \in DOMAIN s : s[k].key = i
      <4>1. PICK k \in DOMAIN s : /\ s[k].key = i /\ Received(all, s)[i] = s[k].val
                                  /\ \A j \in DOMAIN s : s[j].key = i => j <= k
        BY <3>2, <2>2, ReceivedIs
      <4>2. Received(live, s)[i] = s[k].val
        BY <4>1, <2>2, ReceivedLast
      <4> QED
        BY <4>1, <4>2
    <3> QED
      BY <3>1, <3>2
  <2> QED
    BY <1>1, <2>1, <2>3
<1>8. cs = <<>> => els' = els
  <2>1. cs = <<>> => new = <<>>
    BY <1>2, <1>4
  <2>2. els \o <<>> = els
    BY DEF BusFits
  <2> QED
    BY <1>1, <2>1, <2>2
<1>9. s = <<>> => pays' = pays
  <2>1. pays \o <<>> = pays
    BY DEF BusFits
  <2> QED
    BY <1>1, <2>1
<1> QED
  BY <1>6, <1>7, <1>8, <1>9

LEMMA BusSent ==
    ASSUME ConstraintsFit, (SetFits /\ BusFits)', BusHolds, Followed,
           Faults \cap {"payload", "element"} = {}, Elsewhere
    PROVE  BusHolds'
<1>1. PICK cs \in Seq(Conds) : \E p \in [id : Nat, ts : Nat] :
          \E s \in Seq(PaySamples) : Changed(cs, p, s)
  BY ElsewhereMoves DEF ConstraintsFit, Elsewhere, Moved
<1>2. PICK p \in [id : Nat, ts : Nat] : \E s \in Seq(PaySamples) : Changed(cs, p, s)
  BY <1>1
<1>3. PICK s \in Seq(PaySamples) : Changed(cs, p, s)
  BY <1>2
<1>4. UNCHANGED <<table, latest, lookup, conditionals, pc>>
  BY DEF Elsewhere, consumerVars
<1>5. /\ Received(table, els)' = set'
      /\ \A i \in Times : Received(lookup, pays)'[i] = live'[i]
      /\ cs = <<>> => els' = els
      /\ s = <<>> => pays' = pays
  BY <1>3, <1>4, BusShows DEF ConstraintsFit
<1>6. /\ torn' = {} /\ (cs = <<>> => s = <<>>) /\ (cs # <<>> => set' # set)
  BY <1>3 DEF Changed, BusHolds
<1>7. metadata' \in Descriptions /\ Len(els') \in Nat /\ Len(pays') \in Nat
  BY <1>3, MetadataFacts DEF Changed, BusHolds, BusFits
<1> DEFINE last == [m |-> metadata', els |-> Len(els'), pays |-> Len(pays')]
<1>8. CASE SendReport
  <2>1. reports' = reports \o <<last>>
    BY <1>8 DEF SendReport, Queue
  <2>2. last \in ReportMsgs /\ reports \in Seq(ReportMsgs)
    BY <1>7 DEF ReportMsgs, BusHolds
  <2> HIDE DEF last, ReportMsgs
  <2>3. reports' \in Seq(ReportMsgs) /\ reports' # <<>> /\ reports'[Len(reports')] = last
    BY <2>1, <2>2
  <2> QED
    BY <1>4, <1>5, <1>6, <1>7, <2>3 DEF BusHolds, last
<1>9. CASE NoReport
  <2>1. reports' = reports /\ (published' => published /\ set' = set)
    BY <1>9 DEF NoReport
  <2>2. published' => cs = <<>> /\ els' = els /\ pays' = pays
    BY <1>5, <1>6, <2>1
  <2>3. cs = <<>> => metadata' = metadata
    BY <1>3 DEF Changed, Elements
  <2>4. published' /\ reports' # <<>> => reports'[Len(reports')] = last
    BY <2>1, <2>2, <2>3 DEF BusHolds
  <2>5. published' /\ reports' = <<>> /\ pc' # "exited" /\ Closed' =>
            conditionals' = Just(set')
    BY <1>4, <2>1 DEF BusHolds, Closed, Held
  <2> HIDE DEF ReportMsgs
  <2> QED
    BY <1>4, <1>5, <1>6, <1>7, <2>1, <2>4, <2>5 DEF BusHolds
<1> QED
  BY <1>3, <1>8, <1>9 DEF Changed

LEMMA NearerFacts ==
    ASSUME NEW w \in Seq(ReportMsgs), NEW j \in Nat, NEW i \in Nat
    PROVE  /\ Nearer(w, j, i) \in Seq(ReportMsgs) /\ Len(Nearer(w, j, i)) = Len(w)
           /\ \A n \in DOMAIN w :
                  Nearer(w, j, i)[n] =
                      [m    |-> w[n].m,
                       els  |-> IF w[n].els > j THEN w[n].els - j ELSE 0,
                       pays |-> IF w[n].pays > i THEN w[n].pays - i ELSE 0]
<1> DEFINE v == Nearer(w, j, i)
<1>1. DOMAIN w = 1 .. Len(w) /\ Len(w) \in Nat /\ \A n \in DOMAIN w : w[n] \in ReportMsgs
  <2> HIDE DEF ReportMsgs
  <2> QED
    OBVIOUS
<1>2. ASSUME NEW n \in DOMAIN w
      PROVE  /\ v[n] = [m    |-> w[n].m,
                        els  |-> IF w[n].els > j THEN w[n].els - j ELSE 0,
                        pays |-> IF w[n].pays > i THEN w[n].pays - i ELSE 0]
             /\ v[n] \in ReportMsgs
  <2> DEFINE r == w[n]
             e == IF r.els > j THEN r.els - j ELSE 0
             q == IF r.pays > i THEN r.pays - i ELSE 0
  <2>1. r \in ReportMsgs
    BY <1>1
  <2>2. v[n] = [r EXCEPT !.els = e, !.pays = q]
    BY <2>1 DEF Nearer, ReportMsgs
  <2>3. e \in Nat /\ q \in Nat
    BY <2>1 DEF ReportMsgs
  <2> HIDE DEF v, r, e, q
  <2>4. v[n] = [m |-> r.m, els |-> e, pays |-> q] /\ v[n] \in ReportMsgs
    BY <2>1, <2>2, <2>3 DEF ReportMsgs
  <2> QED
    BY <2>4 DEF r, e, q
<1>3. v = [n \in 1 .. Len(w) |-> v[n]] /\ \A n \in 1 .. Len(w) : v[n] \in ReportMsgs
  <2>1. v = [n \in DOMAIN w |-> v[n]]
    BY DEF Nearer
  <2> HIDE DEF v
  <2> QED
    BY <1>1, <1>2, <2>1
<1> HIDE DEF v, ReportMsgs
<1>4. v \in Seq(ReportMsgs) /\ Len(v) = Len(w)
  BY <1>1, <1>3
<1> QED
  BY <1>2, <1>4 DEF v

\* What is read is no longer on its way, and what the reader shows moves by it.
LEMMA ReadBus ==
    ASSUME BusFits, BusHolds, NEW j \in 0 .. Len(els), NEW i \in 0 .. Len(pays),
           table' = Received(table, SubSeq(els, 1, j)), els' = Rest(els, j),
           lookup' = Received(lookup, SubSeq(pays, 1, i)), pays' = Rest(pays, i)
    PROVE  /\ Received(table, els)' = Received(table, els)
           /\ Received(lookup, pays)' = Received(lookup, pays)
           /\ lookup' = [k \in 0 .. MaxTime |-> lookup'[k]]
           /\ Len(els') = Len(els) - j /\ Len(pays') = Len(pays) - i
           /\ Len(els) \in Nat /\ Len(pays) \in Nat
           /\ j = Len(els) => table' = Received(table, els)
           /\ i = Len(pays) => lookup' = Received(lookup, pays)
<1>1. /\ SubSeq(els, 1, j) \in Seq(ElementSamples) /\ els' \in Seq(ElementSamples)
      /\ Len(els') = Len(els) - j /\ SubSeq(els, 1, j) \o els' = els
  BY ReadFacts DEF BusFits
<1>2. /\ SubSeq(pays, 1, i) \in Seq(PaySamples) /\ pays' \in Seq(PaySamples)
      /\ Len(pays') = Len(pays) - i /\ SubSeq(pays, 1, i) \o pays' = pays
  BY ReadFacts DEF BusFits
<1>3. Received(table, els)' = Received(table, els)
  <2> DEFINE a == SubSeq(els, 1, j)
  <2>1. a \in Seq(ElementSamples) /\ a \o els' = els /\ table' = Received(table, a)
    BY <1>1
  <2> HIDE DEF a
  <2>2. PICK b \in Seq(ElementSamples) : b = els'
    BY <1>1
  <2>3. Received(table, a \o b) = Received(Received(table, a), b)
    BY <2>1, ReceivedTwice
  <2> QED
    BY <2>1, <2>2, <2>3, Zenon
<1>4. Received(lookup, pays)' = Received(lookup, pays)
  <2> DEFINE a == SubSeq(pays, 1, i)
  <2>1. a \in Seq(PaySamples) /\ a \o pays' = pays /\ lookup' = Received(lookup, a)
    BY <1>2
  <2> HIDE DEF a
  <2>2. PICK b \in Seq(PaySamples) : b = pays'
    BY <1>2
  <2>3. Received(lookup, a \o b) = Received(Received(lookup, a), b)
    BY <2>1, ReceivedTwice
  <2> QED
    BY <2>1, <2>2, <2>3, Zenon
<1>5. lookup' = [k \in 0 .. MaxTime |-> lookup'[k]]
  <2>1. DOMAIN lookup = 0 .. MaxTime
    BY DEF BusHolds
  <2> QED
    BY <2>1, ReceivedShows
<1>6. /\ Len(els) \in Nat /\ Len(pays) \in Nat
      /\ SubSeq(els, 1, Len(els)) = els /\ SubSeq(pays, 1, Len(pays)) = pays
  <2>1. \A S : \A w \in Seq(S) : Len(w) \in Nat /\ SubSeq(w, 1, Len(w)) = w
    OBVIOUS
  <2> QED
    BY <2>1 DEF BusFits
<1> QED
  BY <1>1, <1>2, <1>3, <1>4, <1>5, <1>6

\* The reader is given a report and reads what was sent before it: if it is the
\* last one, the observers get the conditionals of the set, or the reader leaves.
LEMMA BusRead ==
    ASSUME ConstraintsFit, BusHolds, Ordered, NewReport
    PROVE  BusHolds'
<1> DEFINE Reads(n, j, i) ==
        LET m   == reports[n].m
            tab == Received(table, SubSeq(els, 1, j))
            all == Received(lookup, SubSeq(pays, 1, i))
        IN  /\ Ordered => reports[n].els <= j
            /\ table' = tab /\ els' = Rest(els, j)
            /\ reports' = Nearer(Rest(reports, n), j, i)
            /\ latest' = IF Stale(m) THEN latest ELSE m
            /\ \/ /\ ~Stale(m) /\ m.size = 0 /\ i = 0
                  /\ NotifyEmpty
                  /\ pc' = "constraints"
               \/ /\ Stale(m) \/ (m.size # 0 /\ Invalid(tab, m))
                  /\ i = 0
                  /\ pc' = "exited"
                  /\ UNCHANGED <<conditionals, dirty, bound>>
               \/ /\ ~Stale(m) /\ m.size # 0 /\ ~Invalid(tab, m)
                  /\ Ordered => reports[n].pays <= i
                  /\ IF Creatable(tab, all) THEN Notify(tab)
                     ELSE UNCHANGED <<conditionals, dirty, bound>>
                  /\ pc' = "constraints"
            /\ lookup' = all /\ pays' = Rest(pays, i)
<1>1. PICK n \in DOMAIN reports, j \in 0 .. Len(els), i \in 0 .. Len(pays) : Reads(n, j, i)
  BY Zenon DEF NewReport
<1>2. /\ table' = Received(table, SubSeq(els, 1, j)) /\ els' = Rest(els, j)
      /\ lookup' = Received(lookup, SubSeq(pays, 1, i)) /\ pays' = Rest(pays, i)
      /\ reports' = Nearer(Rest(reports, n), j, i) /\ reports[n].els <= j
  BY <1>1
<1>3. /\ Received(table, els)' = Received(table, els)
      /\ Received(lookup, pays)' = Received(lookup, pays)
      /\ lookup' = [k \in 0 .. MaxTime |-> lookup'[k]]
      /\ Len(els') = Len(els) - j /\ Len(pays') = Len(pays) - i
      /\ Len(els) \in Nat /\ Len(pays) \in Nat
      /\ j = Len(els) => table' = Received(table, els)
      /\ i = Len(pays) => lookup' = Received(lookup, pays)
  BY <1>2, ReadBus DEF ConstraintsFit
<1>4. UNCHANGED <<set, live, clock, metadata, published, torn>>
  BY DEF NewReport
<1> DEFINE rest == Rest(reports, n)
<1>5. /\ reports \in Seq(ReportMsgs) /\ n \in 1 .. Len(reports) /\ Len(reports) \in Nat
      /\ rest \in Seq(ReportMsgs) /\ Len(rest) = Len(reports) - n
      /\ \A k \in 1 .. Len(reports) - n : rest[k] = reports[n + k]
  <2> HIDE DEF ReportMsgs
  <2>1. reports \in Seq(ReportMsgs)
    BY DEF BusHolds
  <2>2. n \in 1 .. Len(reports) /\ Len(reports) \in Nat /\ n \in 0 .. Len(reports)
    BY <2>1
  <2> QED
    BY <2>1, <2>2, ReadFacts
<1> HIDE DEF rest
<1>6. /\ reports' \in Seq(ReportMsgs) /\ Len(reports') = Len(reports) - n
      /\ \A k \in 1 .. Len(reports) - n :
             reports'[k] =
                 [m    |-> reports[n + k].m,
                  els  |-> IF reports[n + k].els > j THEN reports[n + k].els - j ELSE 0,
                  pays |-> IF reports[n + k].pays > i THEN reports[n + k].pays - i ELSE 0]
  <2>1. j \in Nat /\ i \in Nat /\ reports' = Nearer(rest, j, i)
    BY <1>2, <1>3 DEF rest
  <2>2. DOMAIN rest = 1 .. Len(reports) - n
    BY <1>5
  <2> QED
    BY <1>5, <2>1, <2>2, NearerFacts
<1>7. ASSUME published, reports' # <<>>
      PROVE  reports'[Len(reports')] =
                 [m |-> metadata, els |-> Len(els'), pays |-> Len(pays')]
  <2> DEFINE k == Len(reports) - n
  <2>1. k # 0 /\ k \in 1 .. k /\ n + k = Len(reports) /\ Len(reports') = k
    <3>1. Len(reports') # 0 /\ Len(reports') = k
      BY <1>6, <1>7
    <3>2. k \in Nat /\ n + k = Len(reports)
      BY <1>5
    <3> HIDE DEF k
    <3> QED
      BY <3>1, <3>2
  <2>2. reports # <<>>
    BY <1>5
  <2>3. reports[n + k] = [m |-> metadata, els |-> Len(els), pays |-> Len(pays)]
    BY <1>7, <2>1, <2>2 DEF BusHolds
  <2>4. reports'[k] = [m |-> metadata,
                       els  |-> IF Len(els) > j THEN Len(els) - j ELSE 0,
                       pays |-> IF Len(pays) > i THEN Len(pays) - i ELSE 0]
    BY <1>6, <2>1, <2>3
  <2>5. /\ Len(els') = (IF Len(els) > j THEN Len(els) - j ELSE 0)
        /\ Len(pays') = (IF Len(pays) > i THEN Len(pays) - i ELSE 0)
    BY <1>3
  <2> HIDE DEF k
  <2> QED
    BY <2>1, <2>4, <2>5
<1>8. ASSUME published, reports' = <<>>, pc' # "exited", Closed
      PROVE  conditionals' = Just(set)
  <2>1. n = Len(reports) /\ reports # <<>>
    <3>1. Len(reports') = 0
      BY <1>8
    <3> QED
      BY <3>1, <1>5, <1>6
  <2>2. reports[n] = [m |-> metadata, els |-> Len(els), pays |-> Len(pays)]
    BY <1>8, <2>1 DEF BusHolds
  <2>3. reports[n].m = metadata /\ reports[n].els = Len(els) /\ reports[n].pays = Len(pays)
    BY <2>2
  <2>4. j = Len(els) /\ table' = set
    BY <1>2, <1>3, <2>3 DEF BusHolds
  <2>5. metadata.size = Cardinality(Held(set)) /\ IsFiniteSet(Held(set))
    BY DEF ConstraintsFit, SetFits
  <2>6. CASE metadata.size = 0 /\ NotifyEmpty
    <3>1. Held(set) = {}
      BY <2>5, <2>6, FS_EmptySet
    <3>2. set = [c \in Conds |-> NoPayload]
      BY <3>1 DEF ConstraintsFit, SetFits, Held
    <3> QED
      BY <2>6, <3>2 DEF NotifyEmpty, Notify
  <2>7. CASE /\ reports[n].pays <= i
             /\ IF Creatable(table', lookup') THEN Notify(table')
                ELSE UNCHANGED <<conditionals, dirty, bound>>
    <3>1. i = Len(pays) /\ lookup' = Received(lookup, pays)
      BY <1>3, <2>3, <2>7
    <3>2. ASSUME NEW c \in Held(set) PROVE lookup'[set[c].id] = set[c].ts
      <4>1. set[c].id \in 1 .. clock /\ clock <= MaxTime /\ clock \in Nat
        BY DEF ConstraintsFit, SetFits
      <4>2. set[c].id \in Times
        BY <4>1, ConditionalReportAssumption DEF Times
      <4>3. live[set[c].id] = set[c].ts
        BY DEF ConstraintsFit, SetFits, NoDangling, BusHolds
      <4> QED
        BY <3>1, <4>2, <4>3 DEF BusHolds
    <3>3. \A c \in Held(set) : c \in Logical => Leaf \in Held(set)
      BY <1>8 DEF Closed
    <3>4. Creatable(set, lookup')
      BY <3>2, <3>3 DEF Creatable
    <3> QED
      BY <2>4, <2>7, <3>4 DEF Notify
  <2>8. \/ metadata.size = 0 /\ NotifyEmpty
        \/ /\ reports[n].pays <= i
           /\ IF Creatable(table', lookup') THEN Notify(table')
              ELSE UNCHANGED <<conditionals, dirty, bound>>
    BY <1>1, <1>2, <1>8, <2>3
  <2> QED
    BY <2>6, <2>7, <2>8
<1>9. Closed' = Closed
  BY <1>4 DEF Closed, Held
<1> HIDE DEF ReportMsgs
<1> QED
  BY <1>3, <1>4, <1>6, <1>7, <1>8, <1>9 DEF BusHolds

\* A reader that loses no sample, gets no report before the samples it stands for,
\* and follows a process whose payloads and elements can be sent gives its observers
\* the conditionals of the last report, in the versions of the report, as soon as it
\* has read it: for any conditionals and bounds, whatever is sent meanwhile, and
\* with disposes of payloads and sends of reports that fail.
THEOREM ObserversCatchUp ==
    ASSUME Faults \cap {"payload", "element"} = {}, Followed, Ordered
    PROVE  Spec => []CatchesUp
<1> DEFINE Inv == ConstraintsFit /\ BusHolds
<1>1. Init => Inv
  <2> SUFFICES ASSUME Init PROVE BusHolds
    BY ConstraintsStart
  <2>1. SetFits
    BY ConstraintsStart DEF ConstraintsFit
  <2>2. /\ set = [c \in Conds |-> NoPayload] /\ table = set /\ els = <<>> /\ pays = <<>>
        /\ lookup = [i \in 0 .. MaxTime |-> Never] /\ live = [i \in Times |-> Never]
        /\ metadata = Described(set, Never) /\ reports = <<>> /\ torn = {} /\ ~published
    BY DEF Init, InitReport
  <2>3. Received(table, els) = set
    BY <2>2, ReceivedNothing
  <2>4. Received(lookup, pays) = lookup
    BY <2>2, ReceivedNothing
  <2>5. \A i \in Times : Received(lookup, pays)[i] = live[i]
    <3>1. Times \subseteq 0 .. MaxTime
      BY DEF Times
    <3> QED
      BY <2>2, <2>4, <3>1
  <2>6. metadata \in Descriptions
    <3>1. Cardinality(Held(set)) \in Nat
      BY <2>1, FS_CardinalityType DEF SetFits
    <3> QED
      BY <2>2, <3>1 DEF Described, Descriptions, Never
  <2>7. reports \in Seq(ReportMsgs)
    <3> HIDE DEF ReportMsgs
    <3> QED
      BY <2>2
  <2> QED
    BY <2>2, <2>3, <2>5, <2>6, <2>7 DEF BusHolds
<1>2. Inv /\ [Next]_vars => Inv'
  <2> SUFFICES ASSUME ConstraintsFit, BusHolds, [Next]_vars, ConstraintsFit'
               PROVE  BusHolds'
    BY ConstraintsStep
  <2>1. CASE NewReport
    BY <2>1, BusRead
  <2>2. CASE Elsewhere
    BY <2>2, BusSent DEF ConstraintsFit
  <2>3. CASE UNCHANGED vars
    BY <2>3, BusSame DEF vars
  <2>4. ASSUME NoNewReport \/ (\E want \in SUBSET Conds : Constrain(want))
                   \/ Dispose \/ Cycle \/ Evaluate
        PROVE  BusHolds'
    <3>1. UNCHANGED <<providerVars, consumerVars>> /\ pc # "exited" /\ pc' # "exited"
      BY <2>4 DEF NoNewReport, Constrain, Dispose, Cycle, Evaluate
    <3> QED
      BY <3>1, BusSame
  <2> QED
    BY <2>1, <2>2, <2>3, <2>4 DEF Next, Turn
<1>3. Inv => CatchesUp
  <2> SUFFICES ASSUME Inv, Quiet, Closed PROVE conditionals.is /\ conditionals.of = set
    BY DEF CatchesUp
  <2>1. conditionals = Just(set)
    BY DEF BusHolds, Quiet
  <2> QED
    BY <2>1 DEF Just
<1> HIDE DEF Inv
<1> QED
  BY <1>1, <1>2, <1>3, PTL DEF Spec
=============================================================================
