------------------------- MODULE CommandConsumerProofs -------------------------
(***************************************************************************)
(* A consumer never has two commands under way, and leaves none behind,    *)
(* for any number of sessions and commands and whatever fails: what the    *)
(* provider runs, or will run once it has read the commands under way,     *)
(* belongs to the session that is open, or its dispose is on its way.      *)
(*                                                                         *)
(* The methods are built from each other, and so are their lemmas: a call  *)
(* whose record is Good as it begins is Good at each of its outcomes.      *)
(***************************************************************************)
EXTENDS CommandConsumer, Integers, TLAPS, FiniteSetTheorems, WellFoundedInduction

Samples == [kind : {"write", "dispose"}, id : Nat]

\* The dispose of s is in c at an index above i.
DisposeAfter(c, i, s) ==
    \E j \in DOMAIN c : i < j /\ c[j].kind = "dispose" /\ c[j].id = s

\* The members o, i, t, u of a consumer - is its session open, the session,
\* the destination, the sessions used - and the commands c under way belong
\* together, and with the provider's instances.
Together(o, i, t, u, c) ==
    /\ u \in Nat /\ c \in Seq(Samples)
    /\ o => i = u
    /\ \A j \in DOMAIN c : c[j].id <= u
    /\ \A j, k \in DOMAIN c : j < k => c[j].id <= c[k].id
    /\ \A j \in DOMAIN c : c[j].kind = "write" =>
           (o /\ c[j].id = i) \/ DisposeAfter(c, j, c[j].id)
    /\ o /\ t # "provider" => \A j \in DOMAIN c : c[j].id # i
    /\ \A s \in Ids : inst[s].alive =>
           /\ s <= u
           /\ \A j \in DOMAIN c : s <= c[j].id
           /\ (o /\ s = i /\ t = "provider") \/ DisposeAfter(c, 0, s)

\* A command under way names a session, as an open session has a name.
Named == [kind : {"write", "dispose"}, id : Nat \ {NIL}]
Own(o, a, i, t, u, n, c) ==
    /\ o \in BOOLEAN /\ a \in BOOLEAN /\ t \in Destinations
    /\ i \in Nat /\ u \in Nat /\ i <= u /\ n \in Nat
    /\ o => i # NIL
    /\ c \in Seq(Named)

\* What is read of a session, or has been, the provider wrote.
Reports == [id : Ids, st : Statuses]
Story(q, t) ==
    /\ q \in Seq(Reports)
    /\ t \in [Ids -> Statuses \cup {"NONE"}]
    /\ \A i \in DOMAIN q : inst[q[i].id].st # "NONE"
    /\ \A s \in Ids : t[s] # "NONE" => inst[s].st # "NONE"

\* The records of the calls.
IsCall(x) ==
    x = [open |-> x.open, alive |-> x.alive, id |-> x.id, to |-> x.to,
         used |-> x.used, sends |-> x.sends, cmds |-> x.cmds,
         unread |-> x.unread, told |-> x.told, ok |-> x.ok]

Good(x) ==
    /\ IsCall(x) /\ x.open \in BOOLEAN
    /\ Together(x.open, x.id, x.to, x.used, x.cmds)
    /\ Own(x.open, x.alive, x.id, x.to, x.used, x.sends, x.cmds)
    /\ Story(x.unread, x.told)

\* What a call has done to the consumer's session.
SameSession(x, y) ==
    /\ y.open = x.open /\ y.id = x.id /\ y.to = x.to /\ y.used = x.used
    /\ y.cmds = x.cmds /\ y.sends = x.sends

-----------------------------------------------------------------------------
(* Natural numbers.                                                        *)

LEMMA LeastNatural ==
    ASSUME NEW T, T \subseteq Nat, T # {}
    PROVE  \E x \in T : \A y \in T : x <= y
<1> DEFINE Below == {0 .. x - 1 : x \in T}
<1>1. Below # {} /\ Below \subseteq FiniteSubsetsOf(Nat)
  <2> SUFFICES ASSUME NEW x \in T
               PROVE  IsFiniteSet(0 .. x - 1) /\ 0 .. x - 1 \in SUBSET Nat
    BY DEF FiniteSubsetsOf
  <2> QED
    BY FS_Interval
<1>2. PICK b \in Below : \A c \in Below : ~ (<<c, b>> \in StrictSubsetOrdering(Nat))
  BY <1>1, FS_StrictSubsetOrderingWellFounded, WFMin
<1>3. PICK x \in T : b = 0 .. x - 1
  OBVIOUS
<1>4. ASSUME NEW y \in T, y < x PROVE FALSE
  <2>1. /\ 0 .. y - 1 \in Below /\ y \in b /\ y \notin 0 .. y - 1
        /\ 0 .. y - 1 \subseteq b
    BY <1>3, <1>4
  <2> HIDE DEF Below
  <2>2. <<0 .. y - 1, b>> \in StrictSubsetOrdering(Nat)
    <3>1. <<0 .. y - 1, b>> \in (SUBSET Nat) \X (SUBSET Nat)
      BY <1>3, SMT
    <3>2. 0 .. y - 1 # b
      BY <2>1
    <3> QED
      BY <3>1, <3>2, <2>1, Zenon DEF StrictSubsetOrdering
  <2> QED
    BY <2>1, <2>2, <1>2
<1> QED
  BY <1>4

LEMMA GreatestIndex ==
    ASSUME NEW n \in Nat, NEW T, T \subseteq 1 .. n, T # {}
    PROVE  \E x \in T : \A y \in T : y <= x
<1>1. PICK z \in {n - x : x \in T} : \A y \in {n - x : x \in T} : z <= y
  <2>1. \A x \in T : x \in Int /\ x <= n
    OBVIOUS
  <2>2. \A x \in T : n - x \in Nat
    BY <2>1
  <2>3. {n - x : x \in T} \subseteq Nat /\ {n - x : x \in T} # {}
    BY <2>2
  <2> QED
    BY <2>3, LeastNatural
<1>2. PICK x \in T : z = n - x
  OBVIOUS
<1>3. \A y \in T : n - x <= n - y
  BY <1>1, <1>2
<1> QED
  BY <1>3

LEMMA MinIn ==
    ASSUME NEW T, T \subseteq Nat, T # {}
    PROVE  Min(T) \in T
  BY LeastNatural DEF Min

LEMMA MaxIn ==
    ASSUME NEW n \in Nat, NEW T, T \subseteq 1 .. n, T # {}
    PROVE  Max(T) \in T
<1>1. PICK x \in T : \A y \in T : y <= x
  BY GreatestIndex
<1>2. \A y \in T : x >= y
  <2>1. \A y \in T : y \in Int
    OBVIOUS
  <2> QED
    BY <1>1, <2>1
<1> QED
  BY <1>2 DEF Max

-----------------------------------------------------------------------------
(* What the three things a consumer does to a session keep.                *)

LEMMA AppendFacts ==
    ASSUME NEW c \in Seq(Samples), NEW e \in Samples
    PROVE  /\ Append(c, e) \in Seq(Samples)
           /\ DOMAIN c = 1 .. Len(c) /\ Len(c) \in Nat
           /\ DOMAIN Append(c, e) = 1 .. Len(c) + 1
           /\ Append(c, e)[Len(c) + 1] = e
           /\ \A j \in DOMAIN c : Append(c, e)[j] = c[j]
           /\ \A j \in DOMAIN c : c[j] \in Samples
  OBVIOUS

LEMMA OpenKeeps ==
    ASSUME NEW i, NEW t, NEW u, NEW c, Together(FALSE, i, t, u, c)
    PROVE  Together(TRUE, u + 1, t, u + 1, c)
<1>1. c \in Seq(Samples) /\ u \in Nat /\ \A j \in DOMAIN c : c[j].id \in Nat
  <2>1. c \in Seq(Samples) /\ u \in Nat
    BY DEF Together
  <2>2. \A j \in DOMAIN c : c[j] \in Samples
    BY <2>1
  <2> QED
    BY <2>1, <2>2 DEF Samples
<1>2. \A j \in DOMAIN c : c[j].id <= u
  BY DEF Together
<1> QED
  BY <1>1, <1>2 DEF Together, Ids

LEMMA IdleKeeps ==
    ASSUME NEW i, NEW t, NEW u, NEW c, Together(FALSE, i, t, u, c),
           NEW i2, NEW t2
    PROVE  Together(FALSE, i2, t2, u, c)
  BY DEF Together

LEMMA WriteKeeps ==
    ASSUME NEW i, NEW u, NEW c, Together(TRUE, i, "provider", u, c)
    PROVE  Together(TRUE, i, "provider", u,
                    Append(c, [kind |-> "write", id |-> i]))
<1> DEFINE e == [kind |-> "write", id |-> i]
           d == Append(c, e)
<1>1. c \in Seq(Samples) /\ u \in Nat /\ i = u /\ e \in Samples
  BY DEF Together, Samples
<1>2. /\ d \in Seq(Samples) /\ DOMAIN c = 1 .. Len(c) /\ Len(c) \in Nat
      /\ DOMAIN d = 1 .. Len(c) + 1 /\ d[Len(c) + 1] = e
      /\ \A j \in DOMAIN c : d[j] = c[j] /\ c[j] \in Samples
  BY <1>1, AppendFacts
<1>3. e.kind = "write" /\ e.id = i
  OBVIOUS
<1> HIDE DEF d, e
<1>4. \A j \in DOMAIN d : d[j].id <= u
  BY <1>1, <1>2, <1>3 DEF Together
<1>5. \A j, k \in DOMAIN d : j < k => d[j].id <= d[k].id
  BY <1>1, <1>2, <1>3 DEF Together
<1>6. \A n, s : DisposeAfter(c, n, s) => DisposeAfter(d, n, s)
  BY <1>2 DEF DisposeAfter
<1>7. \A j \in DOMAIN d : d[j].kind = "write" =>
          d[j].id = i \/ DisposeAfter(d, j, d[j].id)
  BY <1>2, <1>3, <1>6 DEF Together
<1>8. \A s \in Ids : inst[s].alive =>
          /\ s <= u
          /\ \A j \in DOMAIN d : s <= d[j].id
          /\ s = i \/ DisposeAfter(d, 0, s)
  BY <1>1, <1>2, <1>3, <1>6 DEF Together
<1> QED
  BY <1>1, <1>2, <1>4, <1>5, <1>7, <1>8 DEF Together, d, e

LEMMA DisposeKeeps ==
    ASSUME NEW i, NEW u, NEW c, Together(TRUE, i, "provider", u, c)
    PROVE  Together(FALSE, i, "provider", u,
                    Append(c, [kind |-> "dispose", id |-> i]))
<1> DEFINE e == [kind |-> "dispose", id |-> i]
           d == Append(c, e)
<1>1. c \in Seq(Samples) /\ u \in Nat /\ i = u /\ e \in Samples
  BY DEF Together, Samples
<1>2. /\ d \in Seq(Samples) /\ DOMAIN c = 1 .. Len(c) /\ Len(c) \in Nat
      /\ DOMAIN d = 1 .. Len(c) + 1 /\ d[Len(c) + 1] = e
      /\ \A j \in DOMAIN c : d[j] = c[j] /\ c[j] \in Samples
  BY <1>1, AppendFacts
<1>3. e.kind = "dispose" /\ e.id = i
  OBVIOUS
<1> HIDE DEF d, e
<1>4. \A j \in DOMAIN d : d[j].id <= u
  BY <1>1, <1>2, <1>3 DEF Together
<1>5. \A j, k \in DOMAIN d : j < k => d[j].id <= d[k].id
  BY <1>1, <1>2, <1>3 DEF Together
<1>6. \A n, s : DisposeAfter(c, n, s) => DisposeAfter(d, n, s)
  BY <1>2 DEF DisposeAfter
<1>7. \A n \in 0 .. Len(c) : DisposeAfter(d, n, i)
  BY <1>2, <1>3 DEF DisposeAfter
<1>8. ASSUME NEW j \in DOMAIN d, d[j].kind = "write"
      PROVE  DisposeAfter(d, j, d[j].id)
  <2>1. j \in DOMAIN c
    BY <1>2, <1>3, <1>8
  <2> QED
    BY <2>1, <1>2, <1>6, <1>7, <1>8 DEF Together
<1>9. \A s \in Ids : inst[s].alive =>
          /\ s <= u
          /\ \A j \in DOMAIN d : s <= d[j].id
          /\ DisposeAfter(d, 0, s)
  BY <1>1, <1>2, <1>3, <1>6, <1>7 DEF Together
<1> QED
  BY <1>1, <1>2, <1>4, <1>5, <1>8, <1>9 DEF Together, d, e

\* The same with a destination elsewhere: nothing reaches the provider.
LEMMA ElsewhereKeeps ==
    ASSUME NEW i, NEW t, NEW u, NEW c, t # "provider", Together(TRUE, i, t, u, c)
    PROVE  Together(FALSE, i, t, u, c)
  BY DEF Together

-----------------------------------------------------------------------------
(* The methods.                                                            *)

LEMMA OkFacts ==
    ASSUME NEW x, IsCall(x), NEW b, NEW y, y = [x EXCEPT !.ok = b]
    PROVE  /\ IsCall(y) /\ SameSession(x, y) /\ y.ok = b
           /\ y.alive = x.alive /\ y.unread = x.unread /\ y.told = x.told
<1>1. x = [open |-> x.open, alive |-> x.alive, id |-> x.id, to |-> x.to,
           used |-> x.used, sends |-> x.sends, cmds |-> x.cmds,
           unread |-> x.unread, told |-> x.told, ok |-> x.ok]
  BY DEF IsCall
<1>2. y = [open |-> x.open, alive |-> x.alive, id |-> x.id, to |-> x.to,
           used |-> x.used, sends |-> x.sends, cmds |-> x.cmds,
           unread |-> x.unread, told |-> x.told, ok |-> b]
  BY <1>1
<1> QED
  BY <1>2 DEF IsCall, SameSession

LEMMA AliveFacts ==
    ASSUME NEW x, IsCall(x), NEW b, NEW y, y = [x EXCEPT !.alive = b]
    PROVE  /\ IsCall(y) /\ SameSession(x, y) /\ y.alive = b
           /\ y.unread = x.unread /\ y.told = x.told
<1>1. x = [open |-> x.open, alive |-> x.alive, id |-> x.id, to |-> x.to,
           used |-> x.used, sends |-> x.sends, cmds |-> x.cmds,
           unread |-> x.unread, told |-> x.told, ok |-> x.ok]
  BY DEF IsCall
<1>2. y = [open |-> x.open, alive |-> b, id |-> x.id, to |-> x.to,
           used |-> x.used, sends |-> x.sends, cmds |-> x.cmds,
           unread |-> x.unread, told |-> x.told, ok |-> x.ok]
  BY <1>1
<1> QED
  BY <1>2 DEF IsCall, SameSession

LEMMA ToldFacts ==
    ASSUME NEW x, IsCall(x), NEW b, NEW y, y = [x EXCEPT !.told = b]
    PROVE  /\ IsCall(y) /\ SameSession(x, y) /\ y.told = b
           /\ y.alive = x.alive /\ y.unread = x.unread
<1>1. x = [open |-> x.open, alive |-> x.alive, id |-> x.id, to |-> x.to,
           used |-> x.used, sends |-> x.sends, cmds |-> x.cmds,
           unread |-> x.unread, told |-> x.told, ok |-> x.ok]
  BY DEF IsCall
<1>2. y = [open |-> x.open, alive |-> x.alive, id |-> x.id, to |-> x.to,
           used |-> x.used, sends |-> x.sends, cmds |-> x.cmds,
           unread |-> x.unread, told |-> b, ok |-> x.ok]
  BY <1>1
<1> QED
  BY <1>2 DEF IsCall, SameSession

LEMMA UnreadFacts ==
    ASSUME NEW x, IsCall(x), NEW b, NEW y, y = [x EXCEPT !.unread = b]
    PROVE  /\ IsCall(y) /\ SameSession(x, y) /\ y.unread = b
           /\ y.alive = x.alive /\ y.told = x.told
<1>1. x = [open |-> x.open, alive |-> x.alive, id |-> x.id, to |-> x.to,
           used |-> x.used, sends |-> x.sends, cmds |-> x.cmds,
           unread |-> x.unread, told |-> x.told, ok |-> x.ok]
  BY DEF IsCall
<1>2. y = [open |-> x.open, alive |-> x.alive, id |-> x.id, to |-> x.to,
           used |-> x.used, sends |-> x.sends, cmds |-> x.cmds,
           unread |-> b, told |-> x.told, ok |-> x.ok]
  BY <1>1
<1> QED
  BY <1>2 DEF IsCall, SameSession

\* What opens and closes a session or sends changes nothing else of a call.
Closing(x, o, k, c) == [x EXCEPT !.open = o, !.ok = k, !.cmds = c]
Opening(x, i, u, o) == [x EXCEPT !.id = i, !.used = u, !.open = o]
Clearing(x, i, k) == [x EXCEPT !.id = i, !.ok = k]
Sending(x, a, c, n) == [x EXCEPT !.alive = a, !.cmds = c, !.sends = n]

LEMMA ClosedFields ==
    ASSUME NEW x, IsCall(x), NEW o, NEW k, NEW c
    PROVE  LET y == Closing(x, o, k, c)
           IN  /\ IsCall(y) /\ y.open = o /\ y.ok = k /\ y.cmds = c
               /\ y.id = x.id /\ y.to = x.to /\ y.used = x.used
               /\ y.alive = x.alive /\ y.sends = x.sends
               /\ y.unread = x.unread /\ y.told = x.told
<1> DEFINE R(p, b, j, v, m, d, q, h, l) ==
               [open |-> p, alive |-> b, id |-> j, to |-> x.to, used |-> v,
                sends |-> m, cmds |-> d, unread |-> q, told |-> h, ok |-> l]
           y1 == [x EXCEPT !.open = o]
           y2 == [y1 EXCEPT !.ok = k]
           y3 == [y2 EXCEPT !.cmds = c]
<1>1. x = R(x.open, x.alive, x.id, x.used, x.sends, x.cmds, x.unread, x.told, x.ok)
  BY DEF IsCall
<1>2. y1 = R(o, x.alive, x.id, x.used, x.sends, x.cmds, x.unread, x.told, x.ok)
  BY <1>1
<1> HIDE DEF y1
<1>3. y2 = R(o, x.alive, x.id, x.used, x.sends, x.cmds, x.unread, x.told, k)
  BY <1>2
<1> HIDE DEF y2
<1>4. y3 = R(o, x.alive, x.id, x.used, x.sends, c, x.unread, x.told, k)
  BY <1>3
<1> HIDE DEF y3
<1>5. Closing(x, o, k, c) = y3
  BY DEF Closing, y1, y2, y3
<1> QED
  BY <1>4, <1>5 DEF IsCall

LEMMA OpenedFields ==
    ASSUME NEW x, IsCall(x), NEW i, NEW u, NEW o
    PROVE  LET y == Opening(x, i, u, o)
           IN  /\ IsCall(y) /\ y.open = o /\ y.id = i /\ y.used = u
               /\ y.cmds = x.cmds /\ y.to = x.to /\ y.ok = x.ok
               /\ y.alive = x.alive /\ y.sends = x.sends
               /\ y.unread = x.unread /\ y.told = x.told
<1> DEFINE R(p, b, j, v, m, d, q, h, l) ==
               [open |-> p, alive |-> b, id |-> j, to |-> x.to, used |-> v,
                sends |-> m, cmds |-> d, unread |-> q, told |-> h, ok |-> l]
           y1 == [x EXCEPT !.id = i]
           y2 == [y1 EXCEPT !.used = u]
           y3 == [y2 EXCEPT !.open = o]
<1>1. x = R(x.open, x.alive, x.id, x.used, x.sends, x.cmds, x.unread, x.told, x.ok)
  BY DEF IsCall
<1>2. y1 = R(x.open, x.alive, i, x.used, x.sends, x.cmds, x.unread, x.told, x.ok)
  BY <1>1
<1> HIDE DEF y1
<1>3. y2 = R(x.open, x.alive, i, u, x.sends, x.cmds, x.unread, x.told, x.ok)
  BY <1>2
<1> HIDE DEF y2
<1>4. y3 = R(o, x.alive, i, u, x.sends, x.cmds, x.unread, x.told, x.ok)
  BY <1>3
<1> HIDE DEF y3
<1>5. Opening(x, i, u, o) = y3
  BY DEF Opening, y1, y2, y3
<1> QED
  BY <1>4, <1>5 DEF IsCall

LEMMA ClearedFields ==
    ASSUME NEW x, IsCall(x), NEW i, NEW k
    PROVE  LET y == Clearing(x, i, k)
           IN  /\ IsCall(y) /\ y.id = i /\ y.ok = k /\ y.open = x.open
               /\ y.cmds = x.cmds /\ y.to = x.to /\ y.used = x.used
               /\ y.alive = x.alive /\ y.sends = x.sends
               /\ y.unread = x.unread /\ y.told = x.told
<1> DEFINE R(p, b, j, v, m, d, q, h, l) ==
               [open |-> p, alive |-> b, id |-> j, to |-> x.to, used |-> v,
                sends |-> m, cmds |-> d, unread |-> q, told |-> h, ok |-> l]
           y1 == [x EXCEPT !.id = i]
           y2 == [y1 EXCEPT !.ok = k]
<1>1. x = R(x.open, x.alive, x.id, x.used, x.sends, x.cmds, x.unread, x.told, x.ok)
  BY DEF IsCall
<1>2. y1 = R(x.open, x.alive, i, x.used, x.sends, x.cmds, x.unread, x.told, x.ok)
  BY <1>1
<1> HIDE DEF y1
<1>3. y2 = R(x.open, x.alive, i, x.used, x.sends, x.cmds, x.unread, x.told, k)
  BY <1>2
<1> HIDE DEF y2
<1>4. Clearing(x, i, k) = y2
  BY DEF Clearing, y1, y2
<1> QED
  BY <1>3, <1>4 DEF IsCall

LEMMA SentFields ==
    ASSUME NEW x, IsCall(x), NEW a, NEW c, NEW n
    PROVE  LET y == Sending(x, a, c, n)
           IN  /\ IsCall(y) /\ y.cmds = c /\ y.open = x.open /\ y.id = x.id
               /\ y.to = x.to /\ y.used = x.used
               /\ y.alive = a /\ y.sends = n
               /\ y.unread = x.unread /\ y.told = x.told
<1> DEFINE R(p, b, j, v, m, d, q, h, l) ==
               [open |-> p, alive |-> b, id |-> j, to |-> x.to, used |-> v,
                sends |-> m, cmds |-> d, unread |-> q, told |-> h, ok |-> l]
           y1 == [x EXCEPT !.alive = a]
           y2 == [y1 EXCEPT !.cmds = c]
           y3 == [y2 EXCEPT !.sends = n]
<1>1. x = R(x.open, x.alive, x.id, x.used, x.sends, x.cmds, x.unread, x.told, x.ok)
  BY DEF IsCall
<1>2. y1 = R(x.open, a, x.id, x.used, x.sends, x.cmds, x.unread, x.told, x.ok)
  BY <1>1
<1> HIDE DEF y1
<1>3. y2 = R(x.open, a, x.id, x.used, x.sends, c, x.unread, x.told, x.ok)
  BY <1>2
<1> HIDE DEF y2
<1>4. y3 = R(x.open, a, x.id, x.used, n, c, x.unread, x.told, x.ok)
  BY <1>3
<1> HIDE DEF y3
<1>5. Sending(x, a, c, n) = y3
  BY DEF Sending, y1, y2, y3
<1> QED
  BY <1>4, <1>5 DEF IsCall

LEMMA SameGood ==
    ASSUME NEW x, Good(x), NEW y, IsCall(y), SameSession(x, y),
           y.alive \in BOOLEAN, Story(y.unread, y.told)
    PROVE  Good(y) /\ y.open = x.open
  BY DEF Good, SameSession, Own

LEMMA NotOkGood ==
    ASSUME NEW x, Good(x), NEW b
    PROVE  /\ Good([x EXCEPT !.ok = b]) /\ [x EXCEPT !.ok = b].open = x.open
           /\ [x EXCEPT !.ok = b].ok = b
<1> DEFINE y == [x EXCEPT !.ok = b]
<1>1. /\ IsCall(y) /\ SameSession(x, y) /\ y.ok = b
      /\ y.alive = x.alive /\ y.unread = x.unread /\ y.told = x.told
  BY OkFacts DEF Good
<1>2. x.alive \in BOOLEAN /\ Story(x.unread, x.told)
  BY DEF Good, Own
<1> QED
  BY <1>1, <1>2, SameGood

LEMMA AliveGood ==
    ASSUME NEW x, Good(x), NEW b \in BOOLEAN
    PROVE  Good([x EXCEPT !.alive = b]) /\ [x EXCEPT !.alive = b].open = x.open
<1> DEFINE y == [x EXCEPT !.alive = b]
<1>1. /\ IsCall(y) /\ SameSession(x, y) /\ y.alive = b
      /\ y.unread = x.unread /\ y.told = x.told
  BY AliveFacts DEF Good
<1>2. Story(x.unread, x.told)
  BY DEF Good
<1> QED
  BY <1>1, <1>2, SameGood

\* Samples are read in order, and what is read is remembered.
LEMMA UnreadGood ==
    ASSUME NEW x, Good(x), NEW n \in 0 .. Len(x.unread)
    PROVE  LET y == [x EXCEPT !.unread = After(x.unread, n)]
           IN  Good(y) /\ y.open = x.open /\ y.told = x.told /\ y.id = x.id
<1> DEFINE q == x.unread
           a == After(q, n)
           y == [x EXCEPT !.unread = a]
<1>1. q \in Seq(Reports) /\ Story(q, x.told) /\ x.alive \in BOOLEAN
  BY DEF Good, Story, Own
<1>2. a \in Seq(Reports) /\ \A i \in DOMAIN a : i + n \in DOMAIN q /\ a[i] = q[i + n]
  BY SMTT(30), <1>1 DEF After
<1> HIDE DEF a
<1>3. Story(a, x.told)
  BY <1>1, <1>2 DEF Story
<1>4. /\ IsCall(y) /\ SameSession(x, y) /\ y.unread = a
      /\ y.alive = x.alive /\ y.told = x.told
  BY UnreadFacts DEF Good
<1> QED
  BY <1>1, <1>3, <1>4, SameGood DEF SameSession, a

LEMMA ToldGood ==
    ASSUME NEW x, Good(x), NEW r \in Reports, r.id = x.id,
           inst[r.id].st # "NONE"
    PROVE  LET y == [x EXCEPT !.told = [x.told EXCEPT ![x.id] = r.st]]
           IN  Good(y) /\ y.open = x.open
<1> DEFINE h == [x.told EXCEPT ![x.id] = r.st]
           y == [x EXCEPT !.told = h]
<1>1. Story(x.unread, x.told) /\ x.alive \in BOOLEAN
  BY DEF Good, Own
<1>2. x.id \in Ids /\ r.st \in Statuses
  BY DEF Reports
<1>3. /\ h \in [Ids -> Statuses \cup {"NONE"}]
      /\ \A s \in Ids : h[s] = IF s = x.id THEN r.st ELSE x.told[s]
  BY <1>1, <1>2 DEF Story
<1> HIDE DEF h
<1>4. Story(x.unread, h)
  BY <1>1, <1>2, <1>3 DEF Story
<1>5. /\ IsCall(y) /\ SameSession(x, y) /\ y.told = h
      /\ y.alive = x.alive /\ y.unread = x.unread
  BY ToldFacts DEF Good
<1> QED
  BY <1>1, <1>4, <1>5, SameGood DEF h

LEMMA WrittenNamed ==
    ASSUME NEW x, Good(x), x.open, NEW k \in {"write", "dispose"}
    PROVE  Written(x, k) \in Seq(Named)
<1>1. x.cmds \in Seq(Named) /\ [kind |-> k, id |-> x.id] \in Named
  BY DEF Good, Own, Named
<1> QED
  BY <1>1 DEF Written

LEMMA CloseGood ==
    ASSUME NEW x, Good(x), NEW y \in CloseSession(x)
    PROVE  Good(y) /\ (~x.open => ~y.open)
<1>1. IsCall(x) /\ x.open \in BOOLEAN
  BY DEF Good
<1>2. CASE y = [x EXCEPT !.ok = FALSE]
  BY <1>2, NotOkGood
<1>3. CASE /\ x.open = TRUE
           /\ y = [x EXCEPT !.open = FALSE, !.ok = TRUE,
                            !.cmds = Written(x, "dispose")]
  <2>1. /\ IsCall(y) /\ y.open = FALSE /\ y.cmds = Written(x, "dispose")
        /\ y.id = x.id /\ y.to = x.to /\ y.used = x.used
        /\ y.alive = x.alive /\ y.sends = x.sends
        /\ y.unread = x.unread /\ y.told = x.told
    <3> DEFINE f == FALSE
               t == TRUE
               c == Written(x, "dispose")
    <3>1. y = Closing(x, f, t, c)
      BY <1>3 DEF Closing
    <3>2. f = FALSE
      OBVIOUS
    <3> HIDE DEF f, t, c
    <3>3. /\ IsCall(y) /\ y.open = f /\ y.cmds = c
          /\ y.id = x.id /\ y.to = x.to /\ y.used = x.used
          /\ y.alive = x.alive /\ y.sends = x.sends
          /\ y.unread = x.unread /\ y.told = x.told
      BY <3>1, <1>1, ClosedFields
    <3> QED
      BY <3>2, <3>3 DEF c
  <2>2. Together(TRUE, x.id, x.to, x.used, x.cmds)
    BY <1>3 DEF Good
  <2>3. Together(FALSE, x.id, x.to, x.used, Written(x, "dispose"))
    <3>1. CASE x.to = "provider"
      BY <3>1, <2>2, DisposeKeeps DEF Written
    <3>2. CASE x.to # "provider"
      BY <3>2, <2>2, ElsewhereKeeps DEF Written
    <3> QED
      BY <3>1, <3>2
  <2>4. y.cmds \in Seq(Named)
    BY <2>1, <1>3, WrittenNamed
  <2> QED
    BY <2>1, <2>3, <2>4, <1>3 DEF Good, Own
<1> QED
  <2> DEFINE no == [x EXCEPT !.ok = FALSE]
             yes == [x EXCEPT !.open = FALSE, !.ok = TRUE,
                              !.cmds = Written(x, "dispose")]
  <2>1. y \in (IF ~x.open THEN {no}
               ELSE {IF down /\ disposed THEN yes ELSE no :
                       down \in May("teardown"), disposed \in May("dispose")})
    BY DEF CloseSession
  <2> HIDE DEF no, yes
  <2>2. y = no \/ (x.open /\ y = yes)
    BY <2>1
  <2>3. x.open => x.open = TRUE
    BY <1>1
  <2> QED
    BY <2>2, <2>3, <1>2, <1>3 DEF no, yes

LEMMA EndedGood ==
    ASSUME NEW x, Good(x), NEW y \in Ended(x)
    PROVE  Good(y) /\ (~x.open => ~y.open)
<1> DEFINE u == [x EXCEPT !.alive = FALSE]
           v == [u EXCEPT !.ok = TRUE]
<1>1. Good(u) /\ u.open = x.open
  BY AliveGood
<1>2. Good(v) /\ v.open = u.open
  BY <1>1, NotOkGood
<1>3. [x EXCEPT !.alive = FALSE, !.ok = TRUE] = v
  OBVIOUS
<1> HIDE DEF u, v
<1>4. y \in (IF v.open THEN CloseSession(v) ELSE {v})
  BY <1>3 DEF Ended
<1> QED
  BY <1>1, <1>2, <1>4, CloseGood

\* The samples that are for a call are reports of its session, and the
\* provider wrote them.
LEMMA ValidFacts ==
    ASSUME NEW x, Good(x), NEW i \in ValidIn(x, x.unread)
    PROVE  /\ i \in 1 .. Len(x.unread) /\ Len(x.unread) \in Nat
           /\ x.unread[i] \in Reports /\ x.unread[i].id = x.id
           /\ inst[x.unread[i].id].st # "NONE"
  BY DEF Good, Story, ValidIn, IsValid

LEMMA ReadGood ==
    ASSUME NEW x, Good(x), NEW y \in ReadStatus(x)
    PROVE  Good(y) /\ (~x.open => ~y.open)
<1> DEFINE q == x.unread
           valid == ValidIn(x, q)
           n == IF valid = {} THEN Len(q) ELSE Min(valid)
           k == (valid # {})
           u == [x EXCEPT !.unread = After(q, n)]
           v == [u EXCEPT !.ok = k]
           w == [v EXCEPT !.told = [v.told EXCEPT ![v.id] = q[n].st]]
           heard == IF valid = {} THEN v ELSE w
<1>1. valid \subseteq Nat /\ Len(q) \in Nat
  BY DEF ValidIn, Good, Story
<1>2. valid # {} => n \in valid
  BY <1>1, MinIn
<1>3. n \in 0 .. Len(q)
  BY <1>1, <1>2, ValidFacts
<1>4. Good(u) /\ u.open = x.open /\ u.told = x.told /\ u.id = x.id
  <2> HIDE DEF n
  <2> QED
    BY <1>3, UnreadGood
<1>5. Good(v) /\ v.open = u.open /\ v.told = u.told /\ v.id = u.id
  <2>1. IsCall(u)
    BY <1>4 DEF Good
  <2>2. SameSession(u, v) /\ v.told = u.told
    <3> DEFINE b == k
    <3>1. v = [u EXCEPT !.ok = b]
      OBVIOUS
    <3> HIDE DEF u, v, b
    <3> QED
      BY <2>1, <3>1, OkFacts
  <2>3. v.id = u.id
    BY <2>2 DEF SameSession
  <2> HIDE DEF u
  <2> QED
    BY <1>4, <2>2, <2>3, NotOkGood
<1>6. valid # {} => Good(w) /\ w.open = v.open
  <2> SUFFICES ASSUME valid # {} PROVE Good(w) /\ w.open = v.open
    OBVIOUS
  <2>1. q[n] \in Reports /\ q[n].id = v.id /\ inst[q[n].id].st # "NONE"
    BY <1>2, <1>4, <1>5, ValidFacts
  <2> HIDE DEF n, v, q, valid
  <2> QED
    BY <2>1, <1>5, ToldGood
<1>7. y \in (IF ~x.alive THEN {[x EXCEPT !.ok = FALSE]}
             ELSE IF valid # {} /\ IsStateFinal(q[n].st) THEN Ended(heard)
             ELSE {heard})
  <2>1. [x EXCEPT !.unread = After(q, n), !.ok = k] = v
    OBVIOUS
  <2>2. [v EXCEPT !.told[x.id] = q[n].st] = w
    <3> HIDE DEF v
    <3> QED
      BY <1>4, <1>5
  <2> QED
    BY <2>1, <2>2, Zenon DEF ReadStatus
<1>8. Good(heard) /\ heard.open = x.open
  BY <1>4, <1>5, <1>6
<1>9. Good([x EXCEPT !.ok = FALSE]) /\ [x EXCEPT !.ok = FALSE].open = x.open
  BY NotOkGood
<1> HIDE DEF heard
<1> QED
  BY <1>7, <1>8, <1>9, EndedGood

LEMMA TerminatedGood ==
    ASSUME NEW x, Good(x), NEW y \in HasCommandTerminated(x)
    PROVE  Good(y) /\ (~x.open => ~y.open)
<1> DEFINE q == x.unread
           valid == ValidIn(x, q)
           final == {i \in valid : IsStateFinal(q[i].st)}
           n == IF final = {} THEN Len(q) ELSE Min(final)
           heard == valid \cap 1 .. n
           last == Max(heard)
           u == [x EXCEPT !.unread = After(q, n)]
           v == [u EXCEPT !.told = IF heard = {} THEN u.told
                                   ELSE [u.told EXCEPT ![u.id] = q[last].st]]
<1>1. valid \subseteq Nat /\ Len(q) \in Nat
  BY DEF ValidIn, Good, Story
<1>2. final # {} => n \in final
  BY <1>1, MinIn
<1>3. n \in 0 .. Len(q)
  BY <1>1, <1>2, ValidFacts
<1>4. Good(u) /\ u.open = x.open /\ u.told = x.told /\ u.id = x.id
  <2> HIDE DEF n
  <2> QED
    BY <1>3, UnreadGood
<1>5. Good(v) /\ v.open = x.open
  <2>1. CASE heard = {}
    <3>1. IsCall(u) /\ u.alive \in BOOLEAN /\ Story(u.unread, u.told)
      BY <1>4 DEF Good, Own
    <3>2. v = [u EXCEPT !.told = u.told]
      BY <2>1
    <3> HIDE DEF u, v
    <3>3. /\ IsCall(v) /\ SameSession(u, v) /\ v.told = u.told
          /\ v.alive = u.alive /\ v.unread = u.unread
      BY <3>1, <3>2, ToldFacts
    <3> QED
      BY <3>1, <3>3, <1>4, SameGood
  <2>2. CASE heard # {}
    <3>1. last \in heard
      <4>1. n \in Nat /\ heard \subseteq 1 .. n
        BY <1>1, <1>3
      <4> HIDE DEF heard, n
      <4> QED
        BY <4>1, <2>2, MaxIn
    <3>2. q[last] \in Reports /\ q[last].id = u.id /\ inst[q[last].id].st # "NONE"
      BY <3>1, <1>4, ValidFacts
    <3>3. v = [u EXCEPT !.told = [u.told EXCEPT ![u.id] = q[last].st]]
      BY <2>2
    <3> HIDE DEF u, v, q, last
    <3> QED
      BY <3>2, <3>3, <1>4, ToldGood
  <2> QED
    BY <2>1, <2>2
<1>6. [x EXCEPT !.unread = After(q, n),
                !.told = IF heard = {} THEN @
                         ELSE [@ EXCEPT ![x.id] = q[last].st]] = v
  <2>1. u.told = x.told /\ u.id = x.id
    BY <1>4
  <2> HIDE DEF heard, last, n
  <2> QED
    BY <2>1
<1>7. y \in (IF ~x.alive THEN {[x EXCEPT !.ok = TRUE]}
             ELSE IF final = {} THEN {[v EXCEPT !.ok = FALSE]}
             ELSE Ended(v))
  BY <1>6, Zenon DEF HasCommandTerminated
<1> HIDE DEF v, u, final
<1>8. CASE y = [x EXCEPT !.ok = TRUE]
  BY <1>8, NotOkGood
<1>9. CASE y = [v EXCEPT !.ok = FALSE]
  BY <1>5, <1>9, NotOkGood
<1>10. CASE y \in Ended(v)
  BY <1>5, <1>10, EndedGood
<1> QED
  BY <1>7, <1>8, <1>9, <1>10

LEMMA OpenGood ==
    ASSUME NEW x, Good(x), NEW y \in OpenSession(x)
    PROVE  Good(y) /\ (y.ok => y.open)
<1> DEFINE up(z) == Opening(z, z.used + 1, z.used + 1, TRUE)
           down(z) == Clearing(z, NIL, FALSE)
<1>1. CASE x.open /\ y = [x EXCEPT !.ok = FALSE]
  BY <1>1, NotOkGood
<1>2. ASSUME NEW z \in HasCommandTerminated(x), ~x.open,
             (~z.ok /\ y = z) \/ y = up(z) \/ y = down(z)
      PROVE  Good(y) /\ (y.ok => y.open)
  <2>1. Good(z) /\ ~z.open
    BY <1>2, TerminatedGood
  <2>2. z.open = FALSE /\ Together(FALSE, z.id, z.to, z.used, z.cmds)
    BY <2>1 DEF Good
  <2>6. IsCall(z)
    BY <2>1 DEF Good
  <2>3. CASE ~z.ok /\ y = z
    BY <2>1, <2>3
  <2>4. CASE y = up(z)
    <3> DEFINE k == z.used + 1
               t == TRUE
    <3>1. y = Opening(z, k, k, t)
      BY <2>4
    <3>4. t = TRUE
      OBVIOUS
    <3> HIDE DEF k, t
    <3>2. /\ IsCall(y) /\ y.open = t /\ y.id = k /\ y.used = k
          /\ y.cmds = z.cmds /\ y.to = z.to
          /\ y.alive = z.alive /\ y.sends = z.sends
          /\ y.unread = z.unread /\ y.told = z.told
      BY <3>1, <2>6, OpenedFields
    <3>3. Together(TRUE, k, z.to, k, z.cmds)
      BY <2>2, OpenKeeps DEF k
    <3>5. Own(y.open, y.alive, y.id, y.to, y.used, y.sends, y.cmds)
      <4>1. Own(z.open, z.alive, z.id, z.to, z.used, z.sends, z.cmds)
        BY <2>1 DEF Good
      <4> QED
        BY <4>1, <3>2, <3>4 DEF Own, NIL, k
    <3> QED
      BY <3>2, <3>3, <3>4, <3>5, <2>1 DEF Good
  <2>5. CASE y = down(z)
    <3> DEFINE f == FALSE
    <3>1. y = Clearing(z, NIL, f) /\ f = FALSE
      BY <2>5
    <3> HIDE DEF f
    <3>2. /\ IsCall(y) /\ y.ok = f /\ y.open = z.open /\ y.id = NIL
          /\ y.cmds = z.cmds /\ y.to = z.to /\ y.used = z.used
          /\ y.alive = z.alive /\ y.sends = z.sends
          /\ y.unread = z.unread /\ y.told = z.told
      BY <3>1, <2>6, ClearedFields
    <3>3. Together(FALSE, NIL, z.to, z.used, z.cmds)
      BY <2>2, IdleKeeps
    <3>4. Own(y.open, y.alive, y.id, y.to, y.used, y.sends, y.cmds)
      <4>1. Own(z.open, z.alive, z.id, z.to, z.used, z.sends, z.cmds)
        BY <2>1 DEF Good
      <4> QED
        BY <4>1, <3>2, <2>2 DEF Own, NIL
    <3> QED
      BY <3>1, <3>2, <3>3, <3>4, <2>1, <2>2 DEF Good
  <2> QED
    BY <1>2, <2>3, <2>4, <2>5
<1>3. y \in (IF x.open THEN {[x EXCEPT !.ok = FALSE]}
             ELSE UNION {IF ~z.ok THEN {z}
                         ELSE {IF b THEN up(z) ELSE down(z) : b \in May("setup")} :
                         z \in HasCommandTerminated(x)})
  BY DEF OpenSession, Opening, Clearing
<1> HIDE DEF up, down
<1>4. \/ x.open /\ y = [x EXCEPT !.ok = FALSE]
      \/ \E z \in HasCommandTerminated(x) :
             ~x.open /\ ((~z.ok /\ y = z) \/ y = up(z) \/ y = down(z))
  BY <1>3
<1> QED
  BY <1>1, <1>2, <1>4

LEMMA ReadyGood ==
    ASSUME NEW x, Good(x), NEW z \in ReadyToSend(x)
    PROVE  Good(z) /\ (z.ok => z.open)
<1>1. PICK w \in (IF x.open THEN HasCommandTerminated(x) ELSE {x}) :
          z \in (IF w.open THEN {[w EXCEPT !.ok = TRUE]} ELSE OpenSession(w))
  BY DEF ReadyToSend
<1>2. Good(w)
  BY <1>1, TerminatedGood
<1>3. CASE w.open /\ z = [w EXCEPT !.ok = TRUE]
  BY <1>2, <1>3, NotOkGood
<1>4. CASE z \in OpenSession(w)
  BY <1>2, <1>4, OpenGood
<1> QED
  BY <1>1, <1>3, <1>4

LEMMA SendGood ==
    ASSUME NEW x, Good(x), NEW y \in SendCommand(x)
    PROVE  Good(y)
<1> DEFINE no(z) == [z EXCEPT !.ok = FALSE]
<1>4. \E z \in ReadyToSend(x) : (z.ok /\ y = Sent(z)) \/ y = no(z)
  BY DEF SendCommand
<1>5. \A z \in ReadyToSend(x) : Good(z) /\ (z.ok => z.open)
  BY ReadyGood
<1>3. \A z : Good(z) => Good(no(z))
  BY NotOkGood
<1> HIDE DEF no
<1>6. PICK z \in ReadyToSend(x) : (z.ok /\ y = Sent(z)) \/ y = no(z)
  BY <1>4
<1>7. CASE z.ok /\ y = Sent(z)
  <2>1. Good(z) /\ z.open
    BY <1>5, <1>6, <1>7
  <2>2. IsCall(z) /\ z.open = TRUE /\ Together(TRUE, z.id, z.to, z.used, z.cmds)
    BY <2>1 DEF Good
  <2> DEFINE c == Written(z, "write")
             t == TRUE
             k == z.sends + 1
  <2>3. y = Sending(z, t, c, k)
    BY <1>7 DEF Sent, Sending
  <2>4. Together(TRUE, z.id, z.to, z.used, c)
    BY <2>2, WriteKeeps DEF Written
  <2> HIDE DEF t, c, k
  <2>5. /\ IsCall(y) /\ y.cmds = c /\ y.open = z.open /\ y.id = z.id
        /\ y.to = z.to /\ y.used = z.used
        /\ y.alive = t /\ y.sends = k
        /\ y.unread = z.unread /\ y.told = z.told
    BY <2>2, <2>3, SentFields
  <2>6. c \in Seq(Named)
    BY <2>1, WrittenNamed DEF c
  <2>7. Own(y.open, y.alive, y.id, y.to, y.used, y.sends, y.cmds)
    <3>1. Own(z.open, z.alive, z.id, z.to, z.used, z.sends, z.cmds)
      BY <2>1 DEF Good
    <3>2. y.sends \in Nat /\ y.alive \in BOOLEAN /\ y.cmds \in Seq(Named)
      <4>1. k \in Nat
        BY <3>1 DEF Own, k
      <4>2. t \in BOOLEAN
        BY DEF t
      <4> QED
        BY <4>1, <4>2, <2>5, <2>6
    <3>3. y.open = z.open /\ y.id = z.id /\ y.to = z.to /\ y.used = z.used
      BY <2>5
    <3> QED
      BY <3>1, <3>2, <3>3 DEF Own
  <2> QED
    BY <2>1, <2>2, <2>4, <2>5, <2>7 DEF Good
<1>8. CASE y = no(z)
  BY <1>3, <1>5, <1>6, <1>8
<1> QED
  BY <1>6, <1>7, <1>8

LEMMA DestroyGood ==
    ASSUME NEW x, Good(x), NEW y \in Destroyed(x)
    PROVE  Good(y)
<1> DEFINE derived == IF x.open THEN CloseSession(x) ELSE {x}
<1>1. \A z \in derived : Good(z)
  BY CloseGood
<1>2. PICK z \in derived : y = z \/ y \in CloseSession(z)
  BY DEF Destroyed
<1> QED
  BY <1>1, <1>2, CloseGood

-----------------------------------------------------------------------------
(* The steps.                                                              *)

SessionInv ==
    /\ open \in BOOLEAN
    /\ inst = [s \in Ids |-> inst[s]]
    /\ Together(open, header.id, header.to, used, cmds)
    /\ OneLiveCommand
    /\ header = [id |-> header.id, to |-> header.to]
    /\ used <= MaxSessions /\ sends <= MaxSends /\ gone \in BOOLEAN
    /\ Own(open, alive, header.id, header.to, used, sends, cmds)
    /\ Story(unread, told)
    /\ \A s \in Ids :
           inst[s].alive \/ inst[s].st \in Lifecycle!Terminal \cup {"NONE"}

LEMMA ReturnKeeps ==
    ASSUME SessionInv, NEW y, Good(y), Return(y), gone' \in BOOLEAN
    PROVE  SessionInv'
<1>1. /\ open' = y.open /\ header' = [id |-> y.id, to |-> y.to]
      /\ used' = y.used /\ cmds' = y.cmds /\ inst' = inst
      /\ alive' = y.alive /\ sends' = y.sends /\ unread' = y.unread
      /\ told' = y.told /\ y.used <= MaxSessions /\ y.sends <= MaxSends
  BY DEF Return
<1>2. /\ y.open \in BOOLEAN /\ Together(y.open, y.id, y.to, y.used, y.cmds)
      /\ Own(y.open, y.alive, y.id, y.to, y.used, y.sends, y.cmds)
      /\ Story(y.unread, y.told)
  BY DEF Good
<1>3. header'.id = y.id /\ header'.to = y.to
  BY <1>1
<1>4. Together(open, header.id, header.to, used, cmds)'
  BY <1>1, <1>2, <1>3 DEF Together
<1>5. Own(open, alive, header.id, header.to, used, sends, cmds)'
  BY <1>1, <1>2, <1>3 DEF Own
<1>6. Story(unread, told)'
  BY <1>1, <1>2 DEF Story
<1>7. used' <= MaxSessions /\ sends' <= MaxSends
  BY <1>1
<1>8. (\A s \in Ids :
           inst[s].alive \/ inst[s].st \in Lifecycle!Terminal \cup {"NONE"})'
  BY <1>1 DEF SessionInv, Lifecycle!Terminal
<1>9. open' \in BOOLEAN /\ (inst = [s \in Ids |-> inst[s]])' /\ OneLiveCommand'
  BY <1>1, <1>2 DEF SessionInv, OneLiveCommand
<1> QED
  BY <1>1, <1>3, <1>4, <1>5, <1>6, <1>7, <1>8, <1>9 DEF SessionInv

\* The session whose command is alive is that of the oldest sample under way.
LEMMA OldestIsAlive ==
    ASSUME SessionInv, cmds # <<>>, NEW s \in Ids, inst[s].alive
    PROVE  s = Head(cmds).id
<1>1. /\ cmds \in Seq(Samples) /\ used \in Nat /\ s \in Nat
      /\ Head(cmds) = cmds[1] /\ 1 \in DOMAIN cmds
      /\ \A j \in DOMAIN cmds : j \in Nat /\ 1 <= j /\ cmds[j] \in Samples
  BY DEF SessionInv, Together, Ids
<1>2. \A j \in DOMAIN cmds : cmds[j].id \in Nat /\ cmds[1].id <= cmds[j].id
  BY <1>1 DEF SessionInv, Together, Samples
<1>3. s <= cmds[1].id /\ cmds[1].id <= used
  BY <1>1 DEF SessionInv, Together
<1>4. s = used \/ \E j \in DOMAIN cmds : cmds[j].id = s
  BY DEF SessionInv, Together, DisposeAfter
<1> QED
  BY <1>1, <1>2, <1>3, <1>4

\* The provider writes on: what it has told is not undone.
WritesOn ==
    /\ inst' = [s \in Ids |-> inst'[s]]
    /\ Story(unread, told)'
    /\ \A s \in Ids :
           inst'[s].alive \/ inst'[s].st \in Lifecycle!Terminal \cup {"NONE"}

LEMMA TakeKeeps ==
    ASSUME SessionInv, cmds # <<>>, cmds' = Tail(cmds), UNCHANGED consumerVars,
           WritesOn,
           \A s \in Ids : inst'[s].alive =>
               s = Head(cmds).id /\ Head(cmds).kind = "write"
    PROVE  SessionInv'
<1> DEFINE d == Tail(cmds)
<1>1. /\ cmds \in Seq(Samples) /\ Head(cmds) = cmds[1] /\ d \in Seq(Samples)
      /\ Len(cmds) \in Nat /\ DOMAIN cmds = 1 .. Len(cmds) /\ 1 \in DOMAIN cmds
      /\ DOMAIN d = 1 .. Len(cmds) - 1
      /\ \A j \in DOMAIN d : d[j] = cmds[j + 1]
  BY DEF SessionInv, Together
<1>2. \A j \in DOMAIN d : j + 1 \in DOMAIN cmds /\ j \in Nat
  BY <1>1
<1>3. \A n \in Nat : \A s : DisposeAfter(cmds, n + 1, s) => DisposeAfter(d, n, s)
  <2> SUFFICES ASSUME NEW n \in Nat, NEW s, NEW j \in DOMAIN cmds, n + 1 < j,
                      cmds[j].kind = "dispose", cmds[j].id = s
               PROVE  DisposeAfter(d, n, s)
    BY DEF DisposeAfter
  <2>1. j - 1 \in DOMAIN d /\ n < j - 1 /\ (j - 1) + 1 = j
    BY <1>1
  <2>2. d[j - 1] = cmds[j]
    BY <2>1, <1>1
  <2> QED
    BY <2>1, <2>2 DEF DisposeAfter
<1>4. open' = open /\ header' = header /\ used' = used /\ cmds' = d
  BY DEF consumerVars
<1> HIDE DEF d
<1>5. \A j \in DOMAIN d : d[j].id <= used
  BY <1>1, <1>2 DEF SessionInv, Together
<1>6. \A j, k \in DOMAIN d : j < k => d[j].id <= d[k].id
  <2> SUFFICES ASSUME NEW j \in DOMAIN d, NEW k \in DOMAIN d, j < k
               PROVE  d[j].id <= d[k].id
    OBVIOUS
  <2>1. j + 1 < k + 1 /\ j + 1 \in DOMAIN cmds /\ k + 1 \in DOMAIN cmds
    BY <1>2
  <2> QED
    BY <2>1, <1>1 DEF SessionInv, Together
<1>7. \A j \in DOMAIN d : d[j].kind = "write" =>
          (open /\ d[j].id = header.id) \/ DisposeAfter(d, j, d[j].id)
  BY <1>1, <1>2, <1>3 DEF SessionInv, Together
<1>8. open /\ header.to # "provider" => \A j \in DOMAIN d : d[j].id # header.id
  BY <1>1, <1>2 DEF SessionInv, Together
<1>9. ASSUME NEW s \in Ids, inst'[s].alive
      PROVE  /\ s <= used
             /\ \A j \in DOMAIN d : s <= d[j].id
             /\ \/ open /\ s = header.id /\ header.to = "provider"
                \/ DisposeAfter(d, 0, s)
  <2>1. s = cmds[1].id /\ cmds[1].kind = "write"
    BY <1>1, <1>9
  <2>2. s <= used
    BY <2>1, <1>1 DEF SessionInv, Together
  <2>3. \A j \in DOMAIN d : s <= d[j].id
    <3> SUFFICES ASSUME NEW j \in DOMAIN d PROVE cmds[1].id <= cmds[j + 1].id
      BY <2>1, <1>1
    <3>1. 1 < j + 1 /\ j + 1 \in DOMAIN cmds
      BY <1>1, <1>2
    <3> QED
      BY <3>1, <1>1 DEF SessionInv, Together
  <2>4. (open /\ s = header.id) \/ DisposeAfter(cmds, 1, s)
    BY <2>1, <1>1 DEF SessionInv, Together
  <2>5. open /\ s = header.id => header.to = "provider"
    BY <2>1, <1>1 DEF SessionInv, Together
  <2>6. DisposeAfter(cmds, 1, s) => DisposeAfter(d, 0, s)
    <3>1. 0 \in Nat /\ 0 + 1 = 1
      OBVIOUS
    <3> QED
      BY <3>1, <1>3
  <2> QED
    BY <2>2, <2>3, <2>4, <2>5, <2>6
<1>10. Together(open, header.id, header.to, used, cmds)'
  <2>1. used \in Nat /\ (open => header.id = used)
    BY DEF SessionInv, Together
  <2> QED
    BY <2>1, <1>1, <1>4, <1>5, <1>6, <1>7, <1>8, <1>9 DEF Together
<1>11. Own(open, alive, header.id, header.to, used, sends, cmds)'
  <2>1. d \in Seq(Named)
    <3>1. cmds \in Seq(Named) /\ cmds # <<>>
      BY DEF SessionInv, Own
    <3> QED
      BY <3>1 DEF d
  <2> QED
    BY <2>1, <1>4 DEF SessionInv, Own, consumerVars
<1> QED
  BY <1>4, <1>10, <1>11 DEF SessionInv, OneLiveCommand, WritesOn, consumerVars

LEMMA EndKeeps ==
    ASSUME SessionInv, UNCHANGED <<consumerVars, cmds>>, WritesOn,
           \A s \in Ids : inst'[s].alive => inst[s].alive
    PROVE  SessionInv'
<1>1. /\ open' = open /\ header' = header /\ used' = used /\ cmds' = cmds
      /\ alive' = alive /\ sends' = sends /\ gone' = gone
  BY DEF consumerVars
<1>2. Together(open, header.id, header.to, used, cmds)'
  BY <1>1 DEF SessionInv, Together
<1>3. Own(open, alive, header.id, header.to, used, sends, cmds)'
  BY <1>1 DEF SessionInv, Own
<1> QED
  BY <1>1, <1>2, <1>3 DEF SessionInv, OneLiveCommand, WritesOn

LEMMA PublishFacts ==
    ASSUME SessionInv, told' = told, NEW s \in Ids, NEW sts \in Seq(Statuses),
           NEW why, NEW ends \in BOOLEAN, sts # <<>>,
           ends => Last(sts) \in Lifecycle!Terminal,
           Publish(s, sts, why, ends)
    PROVE  /\ WritesOn
           /\ inst'[s].alive => ~ends
           /\ \A q \in Ids : q # s => inst'[q] = inst[q]
<1> DEFINE new == [st |-> Last(sts), why |-> why, alive |-> ~ends]
<1>1. new.alive = ~ends /\ new.st = Last(sts)
  OBVIOUS
<1>2. inst' = [inst EXCEPT ![s] = new]
  BY DEF Publish
<1> HIDE DEF new
<1>3. inst = [q \in Ids |-> inst[q]]
  BY DEF SessionInv
<1>4. inst' = [q \in Ids |-> IF q = s THEN new ELSE inst[q]]
  BY <1>2, <1>3
<1>5. Last(sts) \in Statuses /\ "NONE" \notin Statuses
  BY DEF Last, Statuses
<1>6. \A q \in Ids : inst[q].st # "NONE" => inst'[q].st # "NONE"
  BY <1>1, <1>4, <1>5
<1>7. inst'[s].st # "NONE"
  BY <1>1, <1>4, <1>5
<1> DEFINE shown == [i \in DOMAIN sts |-> Status(s, sts[i])]
           notice == IF ends THEN <<Status(s, KeyOnlyStatus)>> ELSE <<>>
<1>8. /\ shown \in Seq(Reports) /\ Len(shown) = Len(sts)
      /\ \A i \in DOMAIN shown : shown[i].id = s
  <2>1. \A st \in Statuses : Status(s, st) \in Reports /\ Status(s, st).id = s
    BY DEF Status, Reports
  <2>2. \A i \in 1 .. Len(sts) : sts[i] \in Statuses
    OBVIOUS
  <2> HIDE DEF Status
  <2> QED
    BY <2>1, <2>2
<1>9. notice \in Seq(Reports) /\ \A i \in DOMAIN notice : notice[i].id = s
  <2>1. Status(s, KeyOnlyStatus) \in Reports /\ Status(s, KeyOnlyStatus).id = s
    BY ConsumerAssumption DEF Status, Reports
  <2> DEFINE e == Status(s, KeyOnlyStatus)
  <2> HIDE DEF e
  <2>2. <<e>> \in Seq(Reports) /\ <<>> \in Seq(Reports) /\ DOMAIN <<e>> = {1}
        /\ <<e>>[1] = e
    BY <2>1 DEF e
  <2> QED
    BY <2>1, <2>2 DEF e
<1>10. unread' = unread \o shown \o notice
  BY DEF Publish
<1> HIDE DEF shown, notice
<1>11. Story(unread, told)'
  <2>1. /\ unread \in Seq(Reports) /\ told \in [Ids -> Statuses \cup {"NONE"}]
        /\ \A i \in DOMAIN unread : inst[unread[i].id].st # "NONE"
        /\ \A q \in Ids : told[q] # "NONE" => inst[q].st # "NONE"
    BY DEF SessionInv, Story
  <2>2. unread' \in Seq(Reports)
    BY <2>1, <1>8, <1>9, <1>10
  <2>3. \A i \in DOMAIN unread' :
            \/ unread'[i].id = s
            \/ i \in DOMAIN unread /\ unread'[i] = unread[i]
    <3> DEFINE both == unread \o shown
    <3>1. /\ both \in Seq(Reports) /\ Len(both) = Len(unread) + Len(shown)
          /\ \A i \in 1 .. Len(both) :
                 both[i] = IF i <= Len(unread) THEN unread[i]
                           ELSE shown[i - Len(unread)]
      <4> DEFINE a == unread
                 b == shown
      <4>1. a \in Seq(Reports) /\ b \in Seq(Reports)
        BY <2>1, <1>8
      <4> HIDE DEF a, b
      <4>2. /\ a \o b \in Seq(Reports) /\ Len(a \o b) = Len(a) + Len(b)
            /\ \A i \in 1 .. Len(a \o b) :
                   (a \o b)[i] = IF i <= Len(a) THEN a[i] ELSE b[i - Len(a)]
        BY <4>1
      <4> QED
        BY <4>2 DEF a, b
    <3> HIDE DEF both
    <3>2. /\ unread' = both \o notice
          /\ Len(unread') = Len(both) + Len(notice)
          /\ \A i \in 1 .. Len(unread') :
                 unread'[i] = IF i <= Len(both) THEN both[i]
                              ELSE notice[i - Len(both)]
      BY <3>1, <1>9, <1>10 DEF both
    <3>3. /\ DOMAIN shown = 1 .. Len(shown) /\ DOMAIN notice = 1 .. Len(notice)
          /\ DOMAIN unread = 1 .. Len(unread) /\ DOMAIN unread' = 1 .. Len(unread')
          /\ Len(shown) \in Nat /\ Len(notice) \in Nat /\ Len(unread) \in Nat
      BY <2>1, <2>2, <1>8, <1>9
    <3> SUFFICES ASSUME NEW i \in 1 .. Len(unread')
                 PROVE  \/ unread'[i].id = s
                        \/ i \in DOMAIN unread /\ unread'[i] = unread[i]
      BY <3>3
    <3>4. CASE i > Len(both)
      <4>1. i - Len(both) \in DOMAIN notice /\ unread'[i] = notice[i - Len(both)]
        BY <3>1, <3>2, <3>3, <3>4
      <4> QED
        BY <4>1, <1>9
    <3>5. CASE i <= Len(both) /\ i > Len(unread)
      <4>1. /\ i - Len(unread) \in DOMAIN shown
            /\ unread'[i] = shown[i - Len(unread)]
        BY <3>1, <3>2, <3>3, <3>5
      <4> QED
        BY <4>1, <1>8
    <3>6. CASE i <= Len(unread)
      BY <3>1, <3>2, <3>3, <3>6
    <3> QED
      BY <3>1, <3>3, <3>4, <3>5, <3>6
  <2>4. \A i \in DOMAIN unread : unread[i].id \in Ids
    <3>1. \A i \in DOMAIN unread : unread[i] \in Reports
      BY <2>1
    <3> QED
      BY <3>1 DEF Reports
  <2> QED
    BY <2>1, <2>2, <2>3, <2>4, <1>6, <1>7 DEF Story
<1>12. \A q \in Ids : q # s => inst'[q] = inst[q]
  BY <1>4
<1>13. /\ inst' = [q \in Ids |-> inst'[q]]
       /\ inst'[s] = new
  BY <1>4
<1>14. \A q \in Ids :
           inst'[q].alive \/ inst'[q].st \in Lifecycle!Terminal \cup {"NONE"}
  BY <1>1, <1>12, <1>13 DEF SessionInv
<1> QED
  BY <1>1, <1>11, <1>12, <1>13, <1>14 DEF WritesOn

LEMMA ConsumerKeeps == SessionInv /\ Consumer => SessionInv'
<1> SUFFICES ASSUME SessionInv, Consumer PROVE SessionInv'
  OBVIOUS
<1>1. Good(Call)
  <2>1. /\ open \in BOOLEAN /\ Story(unread, told)
        /\ Together(open, header.id, header.to, used, cmds)
        /\ Own(open, alive, header.id, header.to, used, sends, cmds)
    BY DEF SessionInv
  <2>2. /\ Call.open = open /\ Call.alive = alive /\ Call.id = header.id
        /\ Call.to = header.to /\ Call.used = used /\ Call.sends = sends
        /\ Call.cmds = cmds /\ Call.unread = unread /\ Call.told = told
        /\ Call.ok = TRUE
    BY DEF Call
  <2>3. IsCall(Call)
    BY <2>2 DEF IsCall, Call
  <2> QED
    BY <2>1, <2>2, <2>3 DEF Good
<1>2. ASSUME NEW y, Good(y), Return(y), gone' \in BOOLEAN PROVE SessionInv'
  BY <1>2, ReturnKeeps
<1>3. CASE Send
  BY <1>1, <1>2, <1>3, SendGood DEF Send, Calls, SessionInv
<1>4. CASE Open
  BY <1>1, <1>2, <1>4, OpenGood DEF Open, Calls, SessionInv
<1>5. CASE Close
  BY <1>1, <1>2, <1>5, CloseGood DEF Close, Calls, SessionInv
<1>6. CASE HasTerminated
  BY <1>1, <1>2, <1>6, TerminatedGood DEF HasTerminated, Calls, SessionInv
<1>7. CASE Read
  BY <1>1, <1>2, <1>7, ReadGood DEF Read, Calls, SessionInv
<1>8. CASE Destroy
  BY <1>1, <1>2, <1>8, DestroyGood DEF Destroy
<1>9. ASSUME NEW h, SetHeader(h), h = [id |-> h.id, to |-> h.to],
             h.to \in Destinations, h.id \in Nat, h.id <= used
      PROVE  SessionInv'
  <2>1. /\ open = FALSE /\ open' = FALSE /\ header' = h
        /\ UNCHANGED <<used, cmds, inst, alive, sends, gone, unread, told>>
    BY <1>9 DEF SetHeader, SessionInv
  <2>2. Together(FALSE, h.id, h.to, used, cmds)
    BY <2>1, IdleKeeps DEF SessionInv
  <2>3. Together(open, header.id, header.to, used, cmds)'
    BY <2>1, <2>2 DEF Together
  <2>4. Own(open, alive, header.id, header.to, used, sends, cmds)'
    BY <1>9, <2>1 DEF SessionInv, Own
  <2>5. Story(unread, told)'
    BY <2>1 DEF SessionInv, Story
  <2> QED
    BY <1>9, <2>1, <2>3, <2>4, <2>5 DEF SessionInv, OneLiveCommand, Lifecycle!Terminal
<1>10. ASSUME NEW to \in Destinations, SetCmdHeader(to) \/ SetCmdDestination(to)
       PROVE  SessionInv'
  <2>1. used \in Nat /\ header.id \in Nat /\ header.id <= used
    BY DEF SessionInv, Own
  <2>2. PICK h : h \in {[id |-> NIL, to |-> to], [id |-> header.id, to |-> to]}
                 /\ SetHeader(h)
    <3>1. [header EXCEPT !.to = to] = [id |-> header.id, to |-> to]
      <4>1. header = [id |-> header.id, to |-> header.to]
        BY DEF SessionInv
      <4> QED
        BY <4>1
    <3> QED
      BY <1>10, <3>1 DEF SetCmdHeader, SetCmdDestination
  <2>3. /\ h = [id |-> h.id, to |-> h.to] /\ h.to = to
        /\ h.id \in {NIL, header.id}
    BY <2>2
  <2>4. h.id \in Nat /\ h.id <= used
    BY <2>1, <2>3 DEF NIL
  <2> QED
    BY <1>9, <2>2, <2>3, <2>4
<1> QED
  BY <1>3, <1>4, <1>5, <1>6, <1>7, <1>8, <1>10 DEF Consumer

LEMMA ProviderKeeps ==
    ASSUME SessionInv, NEW s \in Ids, Start(s) \/ Update(s) \/ Cancel(s) \/ Advance(s)
    PROVE  SessionInv'
<1>1. \A q \in Ids : cmds # <<>> /\ inst[q].alive => q = Head(cmds).id
  BY OldestIsAlive
<1>2. told' = told
  BY DEF Start, Update, Cancel, Advance, consumerVars
<1>3. CASE Start(s) \/ Update(s)
  <2>1. /\ cmds # <<>> /\ Head(cmds) = [kind |-> "write", id |-> s]
        /\ cmds' = Tail(cmds) /\ UNCHANGED consumerVars
    BY <1>3 DEF Start, Update
  <2>2. \/ Publish(s, <<"ISSUED">>, "SUCCEEDED", FALSE)
        \/ Publish(s, <<"ISSUED", "FAILED">>, "SERVICE_FAILED", TRUE)
        \/ Publish(s, <<"ISSUED">>, "UPDATED", FALSE)
    BY <1>3 DEF Start, Update
  <2>3. Head(cmds).kind = "write" /\ Head(cmds).id = s
    BY <2>1
  <2>4. /\ <<"ISSUED">> \in Seq(Statuses) /\ <<"ISSUED">> # <<>>
        /\ <<"ISSUED", "FAILED">> \in Seq(Statuses)
        /\ <<"ISSUED", "FAILED">> # <<>>
        /\ Last(<<"ISSUED", "FAILED">>) \in Lifecycle!Terminal
    BY DEF Statuses, Last, Lifecycle!Terminal
  <2>5. WritesOn /\ \A q \in Ids : q # s => inst'[q] = inst[q]
    BY <2>2, <2>4, <1>2, PublishFacts
  <2>6. \A q \in Ids : inst'[q].alive =>
            q = Head(cmds).id /\ Head(cmds).kind = "write"
    BY <2>1, <2>3, <2>5, <1>1
  <2> QED
    BY <2>1, <2>5, <2>6, TakeKeeps
<1>4. CASE Cancel(s)
  <2>1. /\ cmds # <<>> /\ Head(cmds) = [kind |-> "dispose", id |-> s]
        /\ cmds' = Tail(cmds) /\ UNCHANGED consumerVars
    BY <1>4 DEF Cancel
  <2>2. Head(cmds).id = s
    BY <2>1
  <2>3. /\ WritesOn
        /\ ~inst'[s].alive
        /\ \A q \in Ids : q # s => inst'[q] = inst[q]
    <3>1. CASE inst[s].alive
      <4>1. Publish(s, <<"CANCELED">>, "CANCELED", TRUE)
        BY <3>1, <1>4 DEF Cancel
      <4>2. /\ <<"CANCELED">> \in Seq(Statuses) /\ <<"CANCELED">> # <<>>
            /\ Last(<<"CANCELED">>) \in Lifecycle!Terminal
        BY DEF Statuses, Last, Lifecycle!Terminal
      <4> QED
        BY <4>1, <4>2, <1>2, PublishFacts
    <3>2. CASE ~inst[s].alive
      <4>1. inst' = inst /\ unread' = unread
        BY <3>2, <1>4 DEF Cancel
      <4>2. Story(unread, told)'
        BY <4>1, <1>2 DEF SessionInv, Story
      <4> QED
        BY <3>2, <4>1, <4>2 DEF SessionInv, WritesOn
    <3> QED
      BY <3>1, <3>2
  <2>4. \A q \in Ids : inst'[q].alive =>
            q = Head(cmds).id /\ Head(cmds).kind = "write"
    BY <2>1, <2>2, <2>3, <1>1
  <2> QED
    BY <2>1, <2>3, <2>4, TakeKeeps
<1>5. CASE Advance(s)
  <2>1. inst[s].alive /\ UNCHANGED <<consumerVars, cmds>>
    BY <1>5 DEF Advance
  <2>2. \E st \in {"COMMANDED", "EXECUTING", "COMPLETED", "FAILED"} : \E why :
            Publish(s, <<st>>, why, st \in Lifecycle!Terminal)
    BY <1>5 DEF Advance
  <2>3. PICK st \in {"COMMANDED", "EXECUTING", "COMPLETED", "FAILED"} : \E why :
            Publish(s, <<st>>, why, st \in Lifecycle!Terminal)
    BY <2>2
  <2>4. PICK why : Publish(s, <<st>>, why, st \in Lifecycle!Terminal)
    BY <2>3
  <2>5. <<st>> \in Seq(Statuses) /\ <<st>> # <<>> /\ Last(<<st>>) = st
    BY DEF Statuses, Last
  <2> DEFINE ends == st \in Lifecycle!Terminal
             sts == <<st>>
  <2>6. /\ ends \in BOOLEAN /\ sts \in Seq(Statuses) /\ sts # <<>>
        /\ ends => Last(sts) \in Lifecycle!Terminal
        /\ Publish(s, sts, why, ends)
    BY <2>4, <2>5
  <2> HIDE DEF ends, sts
  <2>7. WritesOn /\ \A q \in Ids : q # s => inst'[q] = inst[q]
    BY <2>6, <1>2, PublishFacts, Zenon
  <2> QED
    BY <2>1, <2>7, EndKeeps
<1> QED
  BY <1>3, <1>4, <1>5

LEMMA InitSession == Init => SessionInv
<1> SUFFICES ASSUME Init PROVE SessionInv
  OBVIOUS
<1>1. /\ open = FALSE /\ used = 0 /\ cmds = <<>>
      /\ inst = [s \in Ids |-> [st |-> "NONE", why |-> "NONE", alive |-> FALSE]]
      /\ alive = FALSE /\ sends = 0 /\ gone = FALSE /\ unread = <<>>
      /\ header = [id |-> NIL, to |-> "provider"]
      /\ told = [s \in Ids |-> "NONE"]
  BY DEF Init, Lifecycle!Init
<1>2. \A s \in Ids : inst[s].alive = FALSE /\ inst[s].st = "NONE"
  BY <1>1
<1>3. inst = [s \in Ids |-> inst[s]]
  BY <1>1
<1>4. Together(open, header.id, header.to, used, cmds)
  BY <1>1, <1>2 DEF Together
<1>5. header.id = 0 /\ header.to = "provider"
  BY <1>1 DEF NIL
<1>6. Own(open, alive, header.id, header.to, used, sends, cmds)
  <2>1. <<>> \in Seq(Named)
    OBVIOUS
  <2>2. /\ open = FALSE /\ used = 0 /\ cmds = <<>> /\ alive = FALSE /\ sends = 0
    BY <1>1
  <2>3. open \in BOOLEAN /\ alive \in BOOLEAN /\ ~open
    BY <2>2
  <2>4. header.id \in Nat /\ used \in Nat /\ header.id <= used /\ sends \in Nat
    BY <2>2, <1>5
  <2>5. header.to \in Destinations
    BY <1>5 DEF Destinations
  <2> QED
    BY <2>1, <2>2, <2>3, <2>4, <2>5 DEF Own
<1>7. Story(unread, told)
  BY <1>1 DEF Story
<1>8. used <= MaxSessions /\ sends <= MaxSends /\ gone \in BOOLEAN
  <2>1. used = 0 /\ sends = 0 /\ gone = FALSE
    BY <1>1
  <2>2. MaxSessions \in Nat /\ MaxSends \in Nat
    BY ConsumerAssumption
  <2>3. used <= MaxSessions /\ sends <= MaxSends
    BY <2>1, <2>2
  <2>4. gone \in BOOLEAN
    BY <2>1
  <2> QED
    BY <2>3, <2>4
<1> QED
  BY <1>1, <1>2, <1>3, <1>4, <1>5, <1>6, <1>7, <1>8 DEF SessionInv, OneLiveCommand

LEMMA SessionNext == SessionInv /\ [Next]_vars => SessionInv'
<1> SUFFICES ASSUME SessionInv, [Next]_vars PROVE SessionInv'
  OBVIOUS
<1>1. CASE UNCHANGED vars
  <2>1. WritesOn
    BY <1>1 DEF vars, SessionInv, Story, WritesOn
  <2>2. /\ UNCHANGED <<consumerVars, cmds>>
        /\ \A s \in Ids : inst'[s].alive => inst[s].alive
    BY <1>1 DEF vars, consumerVars
  <2> QED
    BY <2>1, <2>2, EndKeeps
<1>2. CASE Next
  BY <1>2, ConsumerKeeps, ProviderKeeps DEF Next, TakeCommand
<1> QED
  BY <1>1, <1>2

\* The command that the provider runs, or will run, is that of the session that
\* is open, unless its dispose is under way behind it.
LEMMA SessionIsBehind == SessionInv => NothingLeftBehind
<1> SUFFICES ASSUME SessionInv, NEW s \in Ids, WillRun(s) PROVE Current(s)
  BY DEF NothingLeftBehind
<1>1. CASE inst[s].alive /\ Coming(s) = {}
  <2>1. ~DisposeAfter(cmds, 0, s)
    BY <1>1 DEF DisposeAfter, Coming
  <2> QED
    BY <1>1, <2>1 DEF SessionInv, Together, Current
<1>2. CASE \E i \in Coming(s) : /\ cmds[i].kind = "write"
                                /\ \A j \in Coming(s) : j <= i
  <2>1. PICK i \in Coming(s) : /\ cmds[i].kind = "write"
                               /\ \A j \in Coming(s) : j <= i
    BY <1>2
  <2>2. i \in DOMAIN cmds /\ cmds[i].id = s /\ DOMAIN cmds \subseteq Nat
    BY DEF Coming, SessionInv, Together
  <2>3. ~DisposeAfter(cmds, i, s)
    BY <2>1, <2>2 DEF DisposeAfter, Coming
  <2> QED
    BY <2>1, <2>2, <2>3 DEF SessionInv, Together, Current
<1> QED
  BY <1>1, <1>2 DEF WillRun

\* A provider that has told of an end has told of the session, and what has
\* been told and is not alive has ended.
LEMMA EndIsBehind == SessionInv => EndIsReal
<1> SUFFICES ASSUME SessionInv, NEW s \in Ids, told[s] \in Lifecycle!Terminal,
                    inst[s].st \notin Lifecycle!Terminal
             PROVE  inst[s].alive /\ (Current(s) \/ Coming(s) # {})
  BY DEF EndIsReal
<1>1. inst[s].st # "NONE"
  BY DEF SessionInv, Story, Lifecycle!Terminal
<1>2. inst[s].alive
  BY <1>1 DEF SessionInv
<1>3. (open /\ s = header.id) \/ DisposeAfter(cmds, 0, s)
  BY <1>2 DEF SessionInv, Together
<1> QED
  BY <1>2, <1>3 DEF Current, Coming, DisposeAfter

LEMMA SessionTypes == SessionInv => TypeOK
<1> SUFFICES ASSUME SessionInv PROVE TypeOK
  OBVIOUS
<1>1. Own(open, alive, header.id, header.to, used, sends, cmds) /\ Story(unread, told)
  BY DEF SessionInv
<1>2. used \in 0 .. MaxSessions /\ sends \in 0 .. MaxSends
  BY <1>1, ConsumerAssumption DEF SessionInv, Own
<1>3. header \in [id : Ids \cup {NIL}, to : Destinations]
  <2>1. header.id \in Ids \cup {NIL} /\ header.to \in Destinations
    BY <1>1, <1>2, ConsumerAssumption DEF Own, Ids, NIL
  <2>2. header = [id |-> header.id, to |-> header.to]
    BY DEF SessionInv
  <2> QED
    BY <2>1, <2>2
<1>4. cmds \in Seq([kind : {"write", "dispose"}, id : Ids])
  <2> DEFINE S == [kind : {"write", "dispose"}, id : Ids]
  <2>1. \A i \in DOMAIN cmds : cmds[i] \in Named /\ cmds[i].id <= used
    BY <1>1 DEF Own, SessionInv, Together
  <2>2. \A e \in Named : e.id <= used => e \in S
    BY <1>2, ConsumerAssumption DEF Named, Ids, NIL
  <2>3. \A i \in DOMAIN cmds : cmds[i] \in S
    BY <2>1, <2>2
  <2>4. cmds \in Seq(Named)
    BY <1>1 DEF Own
  <2> HIDE DEF S
  <2>5. cmds \in Seq(S)
    BY <2>3, <2>4
  <2> QED
    BY <2>5 DEF S
<1> QED
  BY <1>1, <1>2, <1>3, <1>4 DEF TypeOK, SessionInv, Own, Story, Reports

\* The provider never runs two of a consumer's commands, however often sessions
\* are opened, closed and left, whatever call fails, and although an update may
\* cross the end of its command and start it again.
THEOREM OneCommandAtATime == Spec => []OneLiveCommand
<1>1. SessionInv => OneLiveCommand
  BY DEF SessionInv
<1> QED
  BY <1>1, InitSession, SessionNext, PTL DEF Spec

\* What it runs or will run is the command of the open session, or its dispose
\* is on its way; and what the consumer keeps has its types.
THEOREM NothingIsLeft == Spec => []ConsumerInv
<1>1. SessionInv => ConsumerInv
  BY SessionIsBehind, SessionTypes DEF ConsumerInv
<1> QED
  BY <1>1, InitSession, SessionNext, PTL DEF Spec

\* The end a consumer has read is the end of the command at the provider, unless
\* an update started it again, which then is open or about to be disposed.
THEOREM EndsAreReal == Spec => []EndIsReal
  BY EndIsBehind, InitSession, SessionNext, PTL DEF Spec
=============================================================================
