----------------------------- MODULE ThreadProofs -----------------------------
(***************************************************************************)
(* The classes with threads: a ring buffer of any capacity is a queue that *)
(* drops its oldest item; a UdpThread with any number of readers, started  *)
(* and stopped any number of times, keeps its commands in order, its       *)
(* worker is gone when the sockets are closed, and a single reader is      *)
(* never given an older datagram than before; and a HealthStatusControl    *)
(* with any number of resources joins its heartbeat before its destructor  *)
(* returns.  With the ring buffer the readers: of any number of instances  *)
(* an application is given the samples in the order they were written.     *)
(***************************************************************************)
EXTENDS UdpThread, HealthStatus, DataReader, TLAPS, FiniteSetTheorems,
        WellFoundedInduction

-----------------------------------------------------------------------------
(* The ring buffer.                                                        *)

\* The buffers that NewRing and the methods make.
Sound(r) == r \in Rings /\ (r.full => r.head = r.tail)

Item(r, i) == r.buffer[Plus(r.tail, i - 1)]

-----------------------------------------------------------------------------
LEMMA RingFields ==
    ASSUME NEW r \in Rings
    PROVE  /\ r.buffer \in [Slots -> Items \cup {Blank}]
           /\ r.head \in Slots /\ r.tail \in Slots /\ r.full \in BOOLEAN
           /\ r = [buffer |-> r.buffer, head |-> r.head, tail |-> r.tail,
                   full |-> r.full]
  BY DEF Rings

LEMMA FieldExcept ==
    ASSUME NEW B, NEW S, NEW F,
           NEW r \in [buffer : B, head : S, tail : S, full : F], NEW b
    PROVE  /\ [r EXCEPT !.full = b] =
                  [buffer |-> r.buffer, head |-> r.head, tail |-> r.tail,
                   full |-> b]
           /\ [r EXCEPT !.tail = b] =
                  [buffer |-> r.buffer, head |-> r.head, tail |-> b,
                   full |-> r.full]
  OBVIOUS

LEMMA RingExcept ==
    ASSUME NEW r \in Rings, NEW b
    PROVE  /\ [r EXCEPT !.full = b] =
                  [buffer |-> r.buffer, head |-> r.head, tail |-> r.tail,
                   full |-> b]
           /\ [r EXCEPT !.tail = b] =
                  [buffer |-> r.buffer, head |-> r.head, tail |-> b,
                   full |-> r.full]
<1> DEFINE B == [Slots -> Items \cup {Blank}]
           F == BOOLEAN
<1>1. r \in [buffer : B, head : Slots, tail : Slots, full : F]
  BY DEF Rings
<1> HIDE DEF B, F
<1> QED
  BY <1>1, FieldExcept

LEMMA IndexFacts ==
    ASSUME NEW i \in Slots, NEW n \in 0 .. Capacity
    PROVE  /\ Plus(i, n) \in Slots /\ After(i) \in Slots
           /\ n < Capacity => Plus(After(i), n) = Plus(i, n + 1)
           /\ n < Capacity => After(Plus(i, n)) = Plus(i, n + 1)
           /\ Plus(i, 0) = i /\ Plus(i, Capacity) = i
           /\ \A m \in 0 .. Capacity - 1 : n < Capacity /\ m # n => Plus(i, m) # Plus(i, n)
  BY RingAssumption DEF Slots, Plus, After

LEMMA SizeFacts ==
    ASSUME NEW r, Sound(r)
    PROVE  /\ Size(r) \in 0 .. Capacity
           /\ IsEmpty(r) <=> Size(r) = 0
           /\ r.full <=> Size(r) = Capacity
           /\ r.head = Plus(r.tail, Size(r))
<1>1. /\ r.head \in Slots /\ r.tail \in Slots /\ r.full \in BOOLEAN
      /\ r.full => r.head = r.tail
  BY RingFields DEF Sound
<1>2. CASE r.full
  <2>1. Size(r) = Capacity
    BY <1>2 DEF Size
  <2> QED
    BY <1>1, <1>2, <2>1, RingAssumption DEF IsEmpty, Plus, Slots
<1>3. CASE ~r.full /\ r.head >= r.tail
  <2>1. Size(r) = r.head - r.tail
    BY <1>3 DEF Size
  <2> QED
    BY <1>1, <1>3, <2>1, RingAssumption DEF IsEmpty, Plus, Slots
<1>4. CASE ~r.full /\ ~(r.head >= r.tail)
  <2>1. Size(r) = Capacity + r.head - r.tail
    BY <1>4 DEF Size
  <2> QED
    BY <1>1, <1>4, <2>1, RingAssumption DEF IsEmpty, Plus, Slots
<1> QED
  BY <1>2, <1>3, <1>4

\* The size of a buffer is determined by how far its head is from its tail.
LEMMA SizeIs ==
    ASSUME NEW r, Sound(r), NEW n \in 0 .. Capacity,
           r.head = Plus(r.tail, n), r.full <=> n = Capacity
    PROVE  Size(r) = n
<1>1. r.head \in Slots /\ r.tail \in Slots /\ r.full \in BOOLEAN
  BY RingFields DEF Sound
<1> QED
  BY <1>1, RingAssumption DEF Size, Plus, Slots

LEMMA ContentsFacts ==
    ASSUME NEW r, Sound(r)
    PROVE  /\ DOMAIN Contents(r) = 1 .. Size(r)
           /\ \A i \in 1 .. Size(r) : Contents(r)[i] = Item(r, i)
  BY DEF Contents, Item

LEMMA PushFields ==
    ASSUME NEW r, Sound(r), NEW x \in Items
    PROVE  LET p == Push(r, x)
           IN  /\ Sound(p)
               /\ p.buffer = [r.buffer EXCEPT ![r.head] = x]
               /\ p.head = After(r.head)
               /\ p.tail = IF r.full THEN After(r.tail) ELSE r.tail
               /\ p.full <=> After(r.head) = p.tail
<1> DEFINE tail == IF r.full THEN After(r.tail) ELSE r.tail
           head == After(r.head)
           buffer == [r.buffer EXCEPT ![r.head] = x]
           p == [buffer |-> buffer, head |-> head, tail |-> tail,
                 full |-> head = tail]
<1>1. Push(r, x) = p
  BY DEF Push
<1>2. /\ r.buffer \in [Slots -> Items \cup {Blank}]
      /\ r.head \in Slots /\ r.tail \in Slots
  BY RingFields DEF Sound
<1>3. 0 \in 0 .. Capacity
  BY RingAssumption
<1>4. head \in Slots /\ tail \in Slots
  BY <1>2, <1>3, IndexFacts
<1>5. buffer \in [Slots -> Items \cup {Blank}]
  BY <1>2
<1>6. (head = tail) \in BOOLEAN
  OBVIOUS
<1> HIDE DEF buffer, head, tail
<1>7. p \in Rings
  BY <1>4, <1>5, <1>6 DEF Rings
<1>8. /\ p.buffer = buffer /\ p.head = head /\ p.tail = tail
      /\ p.full <=> head = tail
  OBVIOUS
<1> HIDE DEF p
<1> QED
  BY <1>1, <1>7, <1>8 DEF Sound, buffer, head, tail

\* push() adds its item behind the others, and drops the oldest of a full
\* buffer.
LEMMA PushItems ==
    ASSUME NEW r, Sound(r), NEW x \in Items
    PROVE  LET p == Push(r, x)
           IN  /\ Sound(p)
               /\ Size(p) = IF r.full THEN Capacity ELSE Size(r) + 1
               /\ Item(p, Size(p)) = x
               /\ \A i \in 1 .. Size(p) - 1 :
                      Item(p, i) = Item(r, IF r.full THEN i + 1 ELSE i)
<1> DEFINE p == Push(r, x)
           n == Size(r)
<1>1. /\ Sound(p) /\ p.buffer = [r.buffer EXCEPT ![r.head] = x]
      /\ p.head = After(r.head)
      /\ p.tail = IF r.full THEN After(r.tail) ELSE r.tail
      /\ p.full <=> After(r.head) = p.tail
  BY PushFields
<1>2. /\ n \in 0 .. Capacity
      /\ (r.full <=> n = Capacity)
      /\ r.head = Plus(r.tail, n)
  BY SizeFacts
<1>3. /\ r.buffer \in [Slots -> Items \cup {Blank}]
      /\ r.head \in Slots /\ r.tail \in Slots /\ r.full \in BOOLEAN
      /\ Capacity \in Nat \ {0}
  BY RingFields, RingAssumption DEF Sound
<1> HIDE DEF p, n
<1>4. CASE r.full
  <2>1. n = Capacity /\ r.head = r.tail /\ p.tail = After(r.tail)
        /\ p.head = p.tail /\ p.full
    BY <1>1, <1>2, <1>4 DEF Sound
  <2>2. p.tail \in Slots
    BY <1>1, RingFields DEF Sound
  <2>3. p.head = Plus(p.tail, Capacity)
    BY <2>1, <2>2, <1>3, IndexFacts
  <2>4. Size(p) = Capacity
    BY <2>1, <2>3, <1>1, <1>3, SizeIs
  <2>5. ASSUME NEW i \in 1 .. Capacity
        PROVE  Item(p, i) = p.buffer[Plus(r.tail, i)]
    <3>1. i - 1 \in 0 .. Capacity /\ i - 1 < Capacity /\ (i - 1) + 1 = i
      BY <1>3
    <3>2. Plus(p.tail, i - 1) = Plus(r.tail, i)
      BY <3>1, <2>1, <1>3, IndexFacts
    <3> QED
      BY <3>2 DEF Item
  <2>6. Item(p, Capacity) = x
    <3>1. Plus(r.tail, Capacity) = r.head
      BY <2>1, <1>2
    <3> QED
      BY <3>1, <2>5, <1>1, <1>3
  <2>7. ASSUME NEW i \in 1 .. Capacity - 1
        PROVE  Item(p, i) = Item(r, i + 1)
    <3>1. i \in 0 .. Capacity /\ i < Capacity /\ 0 \in 0 .. Capacity - 1
          /\ 0 # i /\ (i + 1) - 1 = i /\ i \in 1 .. Capacity
      BY <1>3
    <3>2. Plus(r.tail, i) # r.head /\ Plus(r.tail, i) \in Slots
      BY <3>1, <2>1, <1>3, IndexFacts
    <3> QED
      BY <3>1, <3>2, <2>5, <1>1, <1>3 DEF Item
  <2> QED
    BY <1>1, <1>4, <2>4, <2>6, <2>7 DEF p
<1>5. CASE ~r.full
  <2>1. n \in 0 .. Capacity - 1 /\ n < Capacity /\ p.tail = r.tail
        /\ n + 1 \in 0 .. Capacity /\ n + 1 \in 1 .. Capacity
    BY <1>1, <1>2, <1>3, <1>5
  <2>2. p.head = Plus(p.tail, n + 1)
    BY <2>1, <1>1, <1>2, <1>3, IndexFacts
  <2>3. p.full <=> n + 1 = Capacity
    <3>1. p.full <=> Plus(r.tail, n + 1) = r.tail
      BY <1>1, <2>1, <2>2
    <3>2. n + 1 = Capacity => Plus(r.tail, n + 1) = r.tail
      BY <1>3, IndexFacts
    <3>3. n + 1 # Capacity => Plus(r.tail, n + 1) # Plus(r.tail, 0)
      <4>1. n + 1 # Capacity => n + 1 < Capacity /\ 0 \in 0 .. Capacity - 1 /\ 0 # n + 1
        BY <2>1, <1>3
      <4> QED
        BY <4>1, <2>1, <1>3, IndexFacts
    <3>4. Plus(r.tail, 0) = r.tail
      <4>1. 0 \in 0 .. Capacity
        BY <1>3
      <4> QED
        BY <4>1, <1>3, IndexFacts
    <3> QED
      BY <3>1, <3>2, <3>3, <3>4
  <2>4. Size(p) = n + 1
    BY <2>1, <2>2, <2>3, <1>1, SizeIs
  <2>5. Item(p, n + 1) = x
    <3>1. (n + 1) - 1 = n
      BY <2>1
    <3> QED
      BY <3>1, <2>1, <1>1, <1>2, <1>3 DEF Item
  <2>6. ASSUME NEW i \in 1 .. n PROVE Item(p, i) = Item(r, i)
    <3>1. i - 1 \in 0 .. Capacity - 1 /\ i - 1 # n /\ i - 1 \in 0 .. Capacity
          /\ n \in 0 .. Capacity
      BY <2>1, <1>3
    <3>2. Plus(r.tail, i - 1) # Plus(r.tail, n) /\ Plus(r.tail, i - 1) \in Slots
      BY ZenonT(60), <3>1, <2>1, <1>3, IndexFacts
    <3> QED
      BY <3>2, <2>1, <1>1, <1>2, <1>3 DEF Item
  <2>7. (n + 1) - 1 = n
    BY <2>1
  <2> QED
    BY <1>1, <1>5, <2>4, <2>5, <2>6, <2>7 DEF p, n
<1> QED
  BY <1>4, <1>5

\* get() returns the oldest item and leaves the others.
LEMMA PoppedItems ==
    ASSUME NEW r, Sound(r), ~IsEmpty(r)
    PROVE  /\ Got(r) = Item(r, 1)
           /\ Sound(Popped(r)) /\ Size(Popped(r)) = Size(r) - 1
           /\ \A i \in 1 .. Size(r) - 1 : Item(Popped(r), i) = Item(r, i + 1)
<1> DEFINE p == Popped(r)
           n == Size(r)
<1>1. /\ r.buffer \in [Slots -> Items \cup {Blank}]
      /\ r.head \in Slots /\ r.tail \in Slots /\ r.full \in BOOLEAN
      /\ r = [buffer |-> r.buffer, head |-> r.head, tail |-> r.tail,
              full |-> r.full]
      /\ Capacity \in Nat \ {0}
  BY RingFields, RingAssumption DEF Sound
<1>2. n \in 1 .. Capacity /\ r.head = Plus(r.tail, n)
  BY <1>1, SizeFacts
<1>3. 0 \in 0 .. Capacity /\ 1 - 1 = 0
  BY <1>1
<1>4. p = [buffer |-> r.buffer, head |-> r.head, tail |-> After(r.tail),
           full |-> FALSE]
  <2> DEFINE u == [r EXCEPT !.full = FALSE]
  <2>1. u = [buffer |-> r.buffer, head |-> r.head, tail |-> r.tail,
             full |-> FALSE]
    BY RingExcept DEF Sound
  <2> HIDE DEF u
  <2>2. u \in Rings
    BY <1>1, <2>1 DEF Rings
  <2>3. [u EXCEPT !.tail = After(u.tail)] =
            [buffer |-> u.buffer, head |-> u.head, tail |-> After(u.tail),
             full |-> u.full]
    BY <2>2, RingExcept
  <2>4. /\ u.buffer = r.buffer /\ u.head = r.head /\ u.tail = r.tail
        /\ u.full = FALSE
    BY <2>1
  <2>5. p = [u EXCEPT !.tail = After(u.tail)]
    BY DEF u, Popped
  <2> HIDE DEF p
  <2> QED
    BY <2>3, <2>4, <2>5
<1>5. After(r.tail) \in Slots
  BY <1>1, <1>3, IndexFacts
<1>6. /\ p \in Rings /\ p.buffer = r.buffer /\ p.head = r.head
      /\ p.tail = After(r.tail) /\ p.full = FALSE
  BY <1>1, <1>4, <1>5 DEF Rings
<1>7. Sound(p)
  BY <1>6 DEF Sound
<1> HIDE DEF p, n
<1>8. /\ n - 1 \in 0 .. Capacity /\ n - 1 < Capacity /\ n - 1 # Capacity
      /\ (n - 1) + 1 = n
  BY <1>1, <1>2
<1>9. p.head = Plus(p.tail, n - 1)
  BY <1>1, <1>2, <1>6, <1>8, IndexFacts
<1>10. Size(p) = n - 1
  BY <1>6, <1>7, <1>8, <1>9, SizeIs
<1>11. ASSUME NEW i \in 1 .. n - 1 PROVE Item(p, i) = Item(r, i + 1)
  <2>1. i - 1 \in 0 .. Capacity /\ i - 1 < Capacity /\ (i - 1) + 1 = (i + 1) - 1
    BY <1>1, <1>2
  <2>2. Plus(p.tail, i - 1) = Plus(r.tail, (i + 1) - 1)
    BY <2>1, <1>1, <1>6, IndexFacts
  <2> QED
    BY <2>2, <1>6 DEF Item
<1>12. Got(r) = Item(r, 1)
  BY <1>1, <1>3, IndexFacts DEF Got, Item
<1> QED
  BY <1>7, <1>10, <1>11, <1>12 DEF p, n

LEMMA NewAndCleared ==
    /\ Sound(NewRing) /\ Size(NewRing) = 0
    /\ \A r : Sound(r) => Sound(Cleared(r)) /\ Size(Cleared(r)) = 0
<1>1. 0 \in Slots
  BY RingAssumption DEF Slots
<1>2. Sound(NewRing) /\ Size(NewRing) = 0
  BY <1>1 DEF NewRing, Sound, Rings, Size
<1>3. ASSUME NEW r, Sound(r)
      PROVE  Sound(Cleared(r)) /\ Size(Cleared(r)) = 0
  <2>1. Cleared(r) = [buffer |-> r.buffer, head |-> 0, tail |-> 0, full |-> FALSE]
    <3> DEFINE u == [r EXCEPT !.head = 0]
               v == [u EXCEPT !.tail = 0]
    <3>1. u = [buffer |-> r.buffer, head |-> 0, tail |-> r.tail, full |-> r.full]
      BY <1>3, RingFields DEF Sound
    <3> HIDE DEF u
    <3>2. v = [buffer |-> r.buffer, head |-> 0, tail |-> 0, full |-> r.full]
      BY <3>1
    <3> HIDE DEF v
    <3>3. v \in Rings
      BY <3>2, <1>1, <1>3, RingFields DEF Rings, Sound
    <3>4. [v EXCEPT !.full = FALSE] =
              [buffer |-> r.buffer, head |-> 0, tail |-> 0, full |-> FALSE]
      BY <3>2, <3>3, RingExcept
    <3> QED
      BY <3>4 DEF u, v, Cleared
  <2>2. r.buffer \in [Slots -> Items \cup {Blank}]
    BY <1>3, RingFields DEF Sound
  <2> QED
    BY <2>1, <2>2, <1>1 DEF Sound, Rings, Size
<1> QED
  BY <1>2, <1>3

\* back() of a buffer that holds something is its newest item.
LEMMA BackOfPushed ==
    ASSUME NEW r, Sound(r), NEW x \in Items
    PROVE  Back(Push(r, x)) = x
<1> DEFINE p == Push(r, x)
<1>1. /\ p.buffer = [r.buffer EXCEPT ![r.head] = x] /\ p.head = After(r.head)
  BY PushFields
<1>2. /\ r.buffer \in [Slots -> Items \cup {Blank}] /\ r.head \in Slots
  BY RingFields DEF Sound
<1> HIDE DEF p
<1>3. (IF p.head = 0 THEN Capacity - 1 ELSE p.head - 1) = r.head
  BY <1>1, <1>2, RingAssumption DEF After, Slots
<1>4. p.buffer[r.head] = x
  BY <1>1, <1>2
<1> QED
  BY <1>3, <1>4 DEF Back, p

-----------------------------------------------------------------------------
\* A DataRingBuffer of any capacity is a queue of at most Capacity items:
\* push() puts its item behind the others and drops the oldest only of a full
\* buffer, get() takes the oldest, clear() takes all.
THEOREM RingIsBoundedQueue ==
    ASSUME NEW r, Sound(r), NEW x \in Items
    PROVE  /\ Contents(NewRing) = <<>> /\ Contents(Cleared(r)) = <<>>
           /\ LET old == Size(r)
                  new == IF old = Capacity THEN Capacity ELSE old + 1
              IN  Contents(Push(r, x)) =
                      [i \in 1 .. new |->
                          IF i = new THEN x
                          ELSE Contents(r)[IF old = Capacity THEN i + 1 ELSE i]]
           /\ ~IsEmpty(r) =>
                  /\ Got(r) = Contents(r)[1]
                  /\ Contents(Popped(r)) =
                         [i \in 1 .. Size(r) - 1 |-> Contents(r)[i + 1]]
<1> DEFINE old == Size(r)
           new == IF old = Capacity THEN Capacity ELSE old + 1
<1>1. /\ old \in 0 .. Capacity
      /\ (r.full <=> old = Capacity)
      /\ (IsEmpty(r) <=> old = 0)
      /\ Capacity \in Nat \ {0}
  BY SizeFacts, RingAssumption
<1>2. Contents(NewRing) = <<>> /\ Contents(Cleared(r)) = <<>>
  <2>1. \A e : e = [i \in 1 .. 0 |-> e[i]] => e = <<>>
    OBVIOUS
  <2> QED
    BY NewAndCleared DEF Contents
<1>3. Contents(Push(r, x)) =
          [i \in 1 .. new |->
              IF i = new THEN x
              ELSE Contents(r)[IF old = Capacity THEN i + 1 ELSE i]]
  <2> DEFINE p == Push(r, x)
  <2>1. /\ Size(p) = new /\ Item(p, new) = x
        /\ \A i \in 1 .. new - 1 :
               Item(p, i) = Item(r, IF old = Capacity THEN i + 1 ELSE i)
    BY <1>1, PushItems
  <2>2. Contents(p) = [i \in 1 .. new |-> Item(p, i)]
    BY <2>1 DEF Contents, Item
  <2> HIDE DEF p
  <2>3. ASSUME NEW i \in 1 .. new, i # new
        PROVE  Item(p, i) = Contents(r)[IF old = Capacity THEN i + 1 ELSE i]
    <3> DEFINE j == IF old = Capacity THEN i + 1 ELSE i
    <3>1. i \in 1 .. new - 1 /\ j \in 1 .. old
      BY <2>3, <1>1
    <3> QED
      BY <3>1, <2>1, ContentsFacts
  <2> QED
    BY <2>1, <2>2, <2>3 DEF p
<1>4. ASSUME ~IsEmpty(r)
      PROVE  /\ Got(r) = Contents(r)[1]
             /\ Contents(Popped(r)) = [i \in 1 .. old - 1 |-> Contents(r)[i + 1]]
  <2>1. /\ Got(r) = Item(r, 1) /\ Size(Popped(r)) = old - 1
        /\ \A i \in 1 .. old - 1 : Item(Popped(r), i) = Item(r, i + 1)
    BY <1>4, PoppedItems
  <2>2. 1 \in 1 .. old /\ \A i \in 1 .. old - 1 : i + 1 \in 1 .. old
    BY <1>1, <1>4
  <2>3. Contents(Popped(r)) = [i \in 1 .. old - 1 |-> Item(Popped(r), i)]
    BY <2>1 DEF Contents, Item
  <2> QED
    BY <2>1, <2>2, <2>3, ContentsFacts
<1> QED
  BY <1>2, <1>3, <1>4

-----------------------------------------------------------------------------
(* The UDP thread.                                                         *)

LastItem == Cardinality(Items)

\* The number of the last command that a buffer has lost, to the worker or to
\* a newer one, when c is the last that was taken and a the last added.
Gone(c, a) == IF c > a - Capacity THEN c ELSE a - Capacity

\* A buffer holds the commands from there up to the last added.
Holds(r, c, a) ==
    /\ Sound(r)
    /\ Size(r) = a - Gone(c, a)
    /\ \A i \in 1 .. Size(r) : Item(r, i) = Gone(c, a) + i

UdpTypeOK ==
    /\ owner \in {"idle", "created", "stopping", "closed"}
    /\ running \in BOOLEAN
    /\ worker \in {"none", "loop", "get", "send", "sent", "receive", "push"}
    /\ producer \in {"idle", "push"}
    /\ reader \in [Readers -> {"idle", "take"}]
    /\ producer = "push" => added < LastItem

\* There is no worker but of a thread that runs, starts or is joined.
WorkerOwned ==
    /\ worker # "none" => running \/ owner \in {"created", "stopping"}
    /\ running => owner = "idle"

LeftInv == UdpTypeOK /\ WorkerOwned /\ NoUseAfterClose

\* What the worker has taken and sent, of the commands added.
CommandInv ==
    /\ added \in 0 .. LastItem /\ command \in 0 .. added
    /\ producer = "push" => added < LastItem
    /\ Holds(myCmdData, command, added)
    /\ worker = "get" => ~IsEmpty(myCmdData)
    /\ sent \in Seq(Nat)
    /\ \A i \in DOMAIN sent : sent[i] <= command
    /\ worker = "send" => \A i \in DOMAIN sent : sent[i] < command
    /\ SentInOrder

\* What a reader has been given is not newer than the buffer's last datagram,
\* and that is not newer than the last received.
FreshInv ==
    /\ arrived \in 0 .. LastItem /\ datagram \in 0 .. arrived
    /\ worker = "push" => datagram \in Items
    /\ external \in 0 .. datagram
    /\ reader \in [Readers -> {"idle", "take"}]
    /\ Sound(myStatData)
    /\ ~IsEmpty(myStatData) => Back(myStatData) \in external .. datagram
    /\ \A t \in Readers : reader[t] = "take" => ~IsEmpty(myStatData)

-----------------------------------------------------------------------------
LEMMA Numbers ==
    /\ LastItem \in Nat /\ Items = 1 .. LastItem /\ Blank = 0
    /\ Capacity \in Nat \ {0}
  BY UdpAssumption, RingAssumption, FS_CardinalityType DEF LastItem

LEMMA HoldsPush ==
    ASSUME NEW r, NEW a \in 0 .. LastItem - 1, NEW c \in 0 .. a, Holds(r, c, a)
    PROVE  Holds(Push(r, a + 1), c, a + 1)
<1> DEFINE n == Size(r)
           x == a + 1
           p == Push(r, x)
<1>1. /\ LastItem \in Nat /\ Capacity \in Nat \ {0} /\ a \in Nat /\ c \in Nat
      /\ x \in Items
  BY Numbers
<1>2. Sound(r)
  BY DEF Holds
<1>3. /\ n \in 0 .. Capacity
      /\ (r.full <=> n = Capacity)
  BY <1>2, SizeFacts
<1>4. n = a - Gone(c, a) /\ \A i \in 1 .. n : Item(r, i) = Gone(c, a) + i
  BY DEF Holds
<1>5. /\ Sound(p) /\ Size(p) = IF r.full THEN Capacity ELSE n + 1
      /\ Item(p, Size(p)) = x
      /\ \A i \in 1 .. Size(p) - 1 :
             Item(p, i) = Item(r, IF r.full THEN i + 1 ELSE i)
  BY <1>1, <1>2, PushItems
<1> HIDE DEF n, p
<1>6. CASE r.full
  <2>1. n = Capacity /\ Size(p) = Capacity
    BY <1>3, <1>5, <1>6
  <2>2. Gone(c, a) = a - Capacity /\ Gone(c, x) = x - Capacity
    BY <2>1, <1>1, <1>4 DEF Gone
  <2>3. ASSUME NEW i \in 1 .. Capacity PROVE Item(p, i) = Gone(c, x) + i
    <3>1. CASE i = Capacity
      BY <3>1, <2>1, <2>2, <1>1, <1>5
    <3>2. CASE i # Capacity
      <4>1. i \in 1 .. Size(p) - 1 /\ i + 1 \in 1 .. n
        BY <3>2, <2>1, <1>1
      <4>2. Item(p, i) = Item(r, i + 1) /\ Item(r, i + 1) = Gone(c, a) + (i + 1)
        BY <4>1, <1>4, <1>5, <1>6
      <4> QED
        BY <4>2, <2>2, <1>1
    <3> QED
      BY <3>1, <3>2
  <2> QED
    BY <2>1, <2>2, <2>3, <1>1, <1>5 DEF Holds, p
<1>7. CASE ~r.full
  <2>1. n < Capacity /\ n \in Nat /\ Size(p) = n + 1
    BY <1>1, <1>3, <1>5, <1>7
  <2>2. Gone(c, a) = c /\ Gone(c, x) = c
    BY <2>1, <1>1, <1>4 DEF Gone
  <2>3. ASSUME NEW i \in 1 .. n + 1 PROVE Item(p, i) = Gone(c, x) + i
    <3>1. CASE i = n + 1
      BY <3>1, <2>1, <2>2, <1>1, <1>4, <1>5
    <3>2. CASE i # n + 1
      <4>1. i \in 1 .. Size(p) - 1 /\ i \in 1 .. n
        BY <3>2, <2>1
      <4> QED
        BY <4>1, <2>2, <1>4, <1>5, <1>7
    <3> QED
      BY <3>1, <3>2
  <2> QED
    BY <2>1, <2>2, <2>3, <1>1, <1>4, <1>5 DEF Holds, p
<1> QED
  BY <1>6, <1>7

LEMMA HoldsGet ==
    ASSUME NEW r, NEW a \in Nat, NEW c \in 0 .. a, Holds(r, c, a), ~IsEmpty(r)
    PROVE  /\ Got(r) \in c + 1 .. a
           /\ Holds(Popped(r), Got(r), a)
<1> DEFINE n == Size(r)
           g == Gone(c, a)
           p == Popped(r)
<1>1. Capacity \in Nat \ {0} /\ Sound(r)
  BY Numbers DEF Holds
<1>2. n \in 1 .. Capacity
  <2>1. /\ n \in 0 .. Capacity
        /\ (IsEmpty(r) <=> n = 0)
    BY <1>1, SizeFacts
  <2> QED
    BY <2>1, <1>1
<1>3. n = a - g /\ \A i \in 1 .. n : Item(r, i) = g + i
  BY DEF Holds
<1>4. g \in Int /\ g >= c /\ g >= a - Capacity
  BY <1>1 DEF Gone
<1>5. /\ Got(r) = Item(r, 1) /\ Sound(p) /\ Size(p) = n - 1
      /\ \A i \in 1 .. n - 1 : Item(p, i) = Item(r, i + 1)
  BY <1>1, PoppedItems
<1> HIDE DEF n, g, p
<1>6. Got(r) = g + 1 /\ g + 1 \in c + 1 .. a
  BY <1>1, <1>2, <1>3, <1>4, <1>5
<1>7. Gone(g + 1, a) = g + 1
  BY <1>1, <1>4 DEF Gone
<1>8. Size(p) = a - (g + 1)
  BY <1>2, <1>3, <1>4, <1>5
<1>9. ASSUME NEW i \in 1 .. n - 1 PROVE Item(p, i) = (g + 1) + i
  <2>1. i + 1 \in 1 .. n
    BY <1>1, <1>2
  <2>2. Item(p, i) = g + (i + 1)
    BY <2>1, <1>3, <1>5
  <2> QED
    BY <2>2, <1>4
<1> QED
  BY <1>5, <1>6, <1>7, <1>8, <1>9 DEF Holds, p

LEMMA HoldsKeepsNewest ==
    ASSUME added \in Nat, command \in 0 .. added,
           Holds(myCmdData, command, added)
    PROVE  KeepsNewest
<1> DEFINE g == Gone(command, added)
           oldest == 1 + IF command > added - Capacity THEN command
                         ELSE added - Capacity
<1>1. oldest = 1 + g /\ g \in Int
  BY Numbers DEF Gone
<1>2. /\ Contents(myCmdData) = [i \in 1 .. Size(myCmdData) |-> Item(myCmdData, i)]
      /\ Size(myCmdData) = added - g
      /\ \A i \in 1 .. Size(myCmdData) : Item(myCmdData, i) = g + i
  BY DEF Contents, Item, Holds
<1>3. added + 1 - oldest = added - g
  BY <1>1
<1>4. \A i \in 1 .. added - g : oldest + i - 1 = g + i
  BY <1>1
<1> HIDE DEF g
<1>5. Contents(myCmdData) = [i \in 1 .. added - g |-> g + i]
  BY <1>2
<1>6. [i \in 1 .. added - g |-> g + i] = [i \in 1 .. added - g |-> oldest + i - 1]
  BY <1>4
<1>7. Contents(myCmdData) = [i \in 1 .. added + 1 - oldest |-> oldest + i - 1]
  BY <1>3, <1>5, <1>6
<1> QED
  BY <1>7 DEF KeepsNewest

-----------------------------------------------------------------------------
(* The worker has left.                                                    *)

LEMMA LeftNext == LeftInv /\ [NextUdp]_udpVars => LeftInv'
<1> SUFFICES ASSUME LeftInv, [NextUdp]_udpVars PROVE LeftInv'
  OBVIOUS
<1> USE DEF LeftInv, UdpTypeOK, WorkerOwned, NoUseAfterClose
<1>1. CASE Start
  BY <1>1 DEF Start, appVars, dataVars
<1>2. CASE Started
  BY <1>2 DEF Started, workerVars, appVars, dataVars
<1>3. CASE Stop
  BY <1>3 DEF Stop, workerVars, appVars, dataVars
<1>4. CASE Joined
  BY <1>4 DEF Joined, workerVars, appVars, dataVars
<1>5. CASE CloseSockets
  BY <1>5 DEF CloseSockets, workerVars, appVars, dataVars
<1>6. CASE LoopTest
  BY <1>6 DEF LoopTest, ownerVars, appVars, dataVars
<1>7. CASE GetCommand
  BY <1>7 DEF GetCommand, ownerVars, appVars
<1>8. CASE SendCommand
  BY <1>8 DEF SendCommand, ownerVars, appVars
<1>9. CASE LogSent
  BY <1>9 DEF LogSent, ownerVars, appVars, dataVars
<1>10. CASE Receive
  BY <1>10 DEF Receive, ownerVars, appVars
<1>11. CASE PushDatagram
  BY <1>11 DEF PushDatagram, ownerVars, appVars
<1>12. CASE CheckSize
  BY <1>12 DEF CheckSize, ownerVars, workerVars, LastItem
<1>13. CASE PushCommand
  BY <1>13 DEF PushCommand, ownerVars, workerVars
<1>14. ASSUME NEW t \in Readers, CheckStatData(t) PROVE LeftInv'
  BY <1>14 DEF CheckStatData, ownerVars, workerVars
<1>15. ASSUME NEW t \in Readers, TakeStatData(t) PROVE LeftInv'
  BY <1>15 DEF TakeStatData, ownerVars, workerVars
<1>16. CASE UNCHANGED udpVars
  BY <1>16 DEF udpVars, ownerVars, workerVars, appVars
<1> QED
  BY <1>1, <1>2, <1>3, <1>4, <1>5, <1>6, <1>7, <1>8, <1>9, <1>10, <1>11, <1>12,
     <1>13, <1>14, <1>15, <1>16 DEF NextUdp, Worker

\* When the destructor has closed the sockets there is no worker left to use
\* them, however often and whenever the thread was started and stopped.
THEOREM ClosedWithoutWorker == SpecUdp => []NoUseAfterClose
<1>1. InitUdp => LeftInv
  BY DEF InitUdp, LeftInv, UdpTypeOK, WorkerOwned, NoUseAfterClose
<1>2. LeftInv => NoUseAfterClose
  BY DEF LeftInv
<1> QED
  BY <1>1, <1>2, LeftNext, PTL DEF SpecUdp

-----------------------------------------------------------------------------
(* The commands.                                                           *)

LEMMA CommandNext ==
    ASSUME Limit >= Capacity, CommandInv, [NextUdp]_udpVars
    PROVE  CommandInv'
<1>0. LastItem \in Nat /\ Capacity \in Nat \ {0} /\ Sound(myCmdData)
  BY Numbers DEF CommandInv, Holds
<1> DEFINE Same == UNCHANGED <<added, command, sent, myCmdData>>
\* What leaves the commands alone keeps the invariant, when it lets a worker
\* that is to take one have found it and one that is to send it hold it.
<1>1. ASSUME Same, worker' \in {"get", "send"} => worker' = worker \/
                       (worker' = "get" /\ ~IsEmpty(myCmdData)),
             producer' = "push" => producer = "push"
      PROVE  CommandInv'
  BY <1>1 DEF CommandInv, Holds, SentInOrder, Sound
<1>2. CASE Start \/ Started \/ Stop \/ Joined \/ CloseSockets
  BY <1>1, <1>2 DEF Start, Started, Stop, Joined, CloseSockets, workerVars,
                    appVars, dataVars
<1>3. CASE LoopTest \/ LogSent \/ Receive \/ PushDatagram
  BY <1>1, <1>3 DEF LoopTest, LogSent, Receive, PushDatagram, ownerVars,
                    appVars, dataVars
<1>4. ASSUME NEW t \in Readers, CheckStatData(t) \/ TakeStatData(t)
      PROVE  CommandInv'
  BY <1>1, <1>4 DEF CheckStatData, TakeStatData, ownerVars, workerVars, dataVars
<1>5. CASE UNCHANGED udpVars
  BY <1>1, <1>5 DEF udpVars, ownerVars, workerVars, appVars, dataVars
<1>6. CASE GetCommand
  <2>1. /\ worker' = "send" /\ command' = Got(myCmdData)
        /\ myCmdData' = Popped(myCmdData)
        /\ UNCHANGED <<added, sent, producer>>
    BY <1>6 DEF GetCommand, appVars
  <2>2. /\ Got(myCmdData) \in command + 1 .. added
        /\ Holds(Popped(myCmdData), Got(myCmdData), added)
    BY <1>0, <1>6, HoldsGet DEF CommandInv, GetCommand
  <2>3. Holds(myCmdData', command', added')
    BY <2>1, <2>2
  <2>4. \A i \in DOMAIN sent : sent[i] \in Nat /\ sent[i] < command'
    BY <2>1, <2>2, <1>0 DEF CommandInv
  <2> QED
    BY <2>1, <2>2, <2>3, <2>4, <1>0 DEF CommandInv, SentInOrder
<1>7. CASE SendCommand
  <2>1. /\ worker = "send" /\ worker' = "sent" /\ sent' = Append(sent, command)
        /\ UNCHANGED <<added, command, myCmdData, producer>>
    BY <1>7 DEF SendCommand, appVars
  <2>2. /\ sent \in Seq(Nat) /\ command \in Nat
        /\ \A i \in DOMAIN sent : sent[i] < command
        /\ \A i, j \in DOMAIN sent : i < j => sent[i] < sent[j]
    BY <2>1, <1>0 DEF CommandInv, SentInOrder
  <2>3. /\ sent' \in Seq(Nat) /\ DOMAIN sent' = 1 .. Len(sent) + 1
        /\ sent'[Len(sent) + 1] = command
        /\ \A i \in DOMAIN sent : sent'[i] = sent[i]
        /\ DOMAIN sent = 1 .. Len(sent) /\ Len(sent) \in Nat
    BY <2>1, <2>2
  <2>4. \A i \in DOMAIN sent' : sent'[i] <= command
    BY <2>2, <2>3
  <2>5. SentInOrder'
    <3>1. ASSUME NEW i \in DOMAIN sent', NEW j \in DOMAIN sent', i < j
          PROVE  sent'[i] < sent'[j]
      <4>1. i \in DOMAIN sent
        BY <3>1, <2>3
      <4>2. CASE j = Len(sent) + 1
        BY <4>1, <4>2, <2>2, <2>3
      <4>3. CASE j \in DOMAIN sent
        BY <3>1, <4>1, <4>3, <2>2, <2>3
      <4> QED
        BY <4>2, <4>3, <2>3
    <3> QED
      BY <3>1 DEF SentInOrder
  <2>6. Holds(myCmdData', command', added')
    BY <2>1 DEF CommandInv
  <2> QED
    BY <2>1, <2>3, <2>4, <2>5, <2>6 DEF CommandInv
<1>8. CASE CheckSize
  <2>1. Size(myCmdData) \in 0 .. Capacity
    BY <1>0, SizeFacts
  <2>2. ~(Size(myCmdData) > Limit)
    BY <2>1, <1>0, UdpAssumption
  <2>3. Same /\ worker' = worker /\ added < LastItem
    BY <1>8, <2>2 DEF CheckSize, workerVars, LastItem
  <2> QED
    BY <2>3 DEF CommandInv, Holds, SentInOrder, Sound
<1>9. CASE PushCommand
  <2>1. /\ added' = added + 1 /\ myCmdData' = Push(myCmdData, added + 1)
        /\ producer = "push" /\ producer' = "idle"
        /\ UNCHANGED <<worker, command, sent>>
    BY <1>9 DEF PushCommand, workerVars
  <2>2. added \in 0 .. LastItem - 1 /\ added + 1 \in Items
    BY <2>1, <1>0, Numbers DEF CommandInv
  <2>3. Holds(myCmdData', command', added')
    BY <2>1, <2>2, HoldsPush DEF CommandInv
  <2>4. worker = "get" => ~IsEmpty(Push(myCmdData, added + 1))
    <3> DEFINE p == Push(myCmdData, added + 1)
    <3>1. Sound(p) /\ Size(p) = IF myCmdData.full THEN Capacity
                                ELSE Size(myCmdData) + 1
      BY <2>2, <1>0, PushItems
    <3>2. Size(p) # 0
      BY <3>1, <1>0, SizeFacts
    <3>3. IsEmpty(p) <=> Size(p) = 0
      BY <3>1, SizeFacts
    <3> QED
      BY <3>2, <3>3
  <2> QED
    BY <2>1, <2>2, <2>3, <2>4, <1>0 DEF CommandInv, SentInOrder
<1> QED
  BY <1>2, <1>3, <1>4, <1>5, <1>6, <1>7, <1>8, <1>9 DEF NextUdp, Worker

\* Commands are sent in the order they were added, none twice, and while they
\* wait only the oldest are lost and only for want of room, when the buffer is
\* not larger than the limit at which addUdpCommand() clears it.
THEOREM CommandsKeepTheirOrder ==
    ASSUME Limit >= Capacity
    PROVE  SpecUdp => []CommandsKept
<1>1. InitUdp => CommandInv
  <2> SUFFICES ASSUME InitUdp PROVE CommandInv
    OBVIOUS
  <2>1. /\ added = 0 /\ command = 0 /\ sent = <<>> /\ worker = "none"
        /\ producer = "idle" /\ myCmdData = NewRing
    BY Numbers DEF InitUdp
  <2>2. Holds(NewRing, 0, 0)
    <3>1. Gone(0, 0) = 0
      BY Numbers DEF Gone
    <3>2. Size(NewRing) = 0 /\ Sound(NewRing) /\ 0 - 0 = 0
      BY NewAndCleared
    <3>3. \A i \in 1 .. 0 : FALSE
      OBVIOUS
    <3> QED
      BY <3>1, <3>2, <3>3 DEF Holds
  <2> QED
    BY <2>1, <2>2, Numbers DEF CommandInv, SentInOrder
<1>2. CommandInv => CommandsKept
  <2> SUFFICES ASSUME CommandInv PROVE CommandsKept
    OBVIOUS
  <2>1. added \in Nat
    BY Numbers DEF CommandInv
  <2> QED
    BY <2>1, HoldsKeepsNewest DEF CommandInv, CommandsKept
<1>3. CommandInv /\ [NextUdp]_udpVars => CommandInv'
  BY CommandNext
<1> QED
  BY <1>1, <1>2, <1>3, PTL DEF SpecUdp

-----------------------------------------------------------------------------
(* The datagrams.                                                          *)

LEMMA FreshNext ==
    ASSUME \A t, u \in Readers : t = u, FreshInv, [NextUdp]_udpVars
    PROVE  FreshInv' /\ (external' >= external \/ UNCHANGED udpVars)
<1>0. LastItem \in Nat /\ Items = 1 .. LastItem /\ Sound(myStatData)
  BY Numbers DEF FreshInv
<1>1. ASSUME UNCHANGED <<arrived, datagram, external, reader, myStatData>>,
             worker' = "push" => worker = "push"
      PROVE  FreshInv' /\ external' >= external
  BY <1>0, <1>1 DEF FreshInv
<1>2. CASE Start \/ Started \/ Stop \/ Joined \/ CloseSockets
  BY <1>1, <1>2 DEF Start, Started, Stop, Joined, CloseSockets, workerVars,
                    appVars, dataVars
<1>3. CASE LoopTest \/ GetCommand \/ SendCommand \/ LogSent
  BY <1>1, <1>3 DEF LoopTest, GetCommand, SendCommand, LogSent, ownerVars,
                    appVars, dataVars
<1>4. CASE CheckSize \/ PushCommand
  BY <1>1, <1>4 DEF CheckSize, PushCommand, ownerVars, workerVars
<1>5. CASE UNCHANGED udpVars
  BY <1>1, <1>5 DEF udpVars, ownerVars, workerVars, appVars, dataVars
<1>6. CASE Receive
  <2>1. UNCHANGED <<external, reader, myStatData>>
    BY <1>6 DEF Receive, appVars
  <2>2. \/ UNCHANGED <<arrived, datagram>> /\ worker' = "loop"
        \/ arrived < LastItem /\ arrived' = arrived + 1 /\ datagram' = arrived + 1
    BY <1>6 DEF Receive, LastItem
  <2>3. arrived' \in 0 .. LastItem /\ datagram' \in 0 .. arrived'
    BY <2>2, <1>0 DEF FreshInv
  <2>4. datagram' >= datagram /\ (worker' = "push" => datagram' \in Items)
    BY <2>2, <1>0 DEF FreshInv
  <2>5. external' \in 0 .. datagram' /\ external' >= external
    BY <2>1, <2>3, <2>4, <1>0 DEF FreshInv
  <2>6. ~IsEmpty(myStatData) => Back(myStatData) \in external .. datagram'
    BY <2>3, <2>4, <1>0 DEF FreshInv
  <2> QED
    BY <2>1, <2>3, <2>4, <2>5, <2>6 DEF FreshInv
<1>7. CASE PushDatagram
  <2> DEFINE p == Push(myStatData, datagram)
  <2>1. /\ myStatData' = p /\ worker = "push" /\ worker' = "loop"
        /\ UNCHANGED <<arrived, datagram, external, reader>>
    BY <1>7 DEF PushDatagram, appVars
  <2>2. datagram \in Items
    BY <2>1 DEF FreshInv
  <2>3. Sound(p) /\ Back(p) = datagram
    BY <2>2, <1>0, PushItems, BackOfPushed
  <2>4. ~IsEmpty(p)
    <3>1. Size(p) = IF myStatData.full THEN Capacity ELSE Size(myStatData) + 1
      BY <2>2, <1>0, PushItems
    <3>2. Size(p) # 0
      BY <3>1, <1>0, Numbers, SizeFacts
    <3>3. IsEmpty(p) <=> Size(p) = 0
      BY <2>3, SizeFacts
    <3> QED
      BY <3>2, <3>3
  <2> HIDE DEF p
  <2>5. datagram \in external .. datagram /\ external >= external
    BY <1>0 DEF FreshInv
  <2> QED
    BY <2>1, <2>3, <2>4, <2>5 DEF FreshInv
<1>8. ASSUME NEW t \in Readers, CheckStatData(t)
      PROVE  FreshInv' /\ external' >= external
  <2>1. /\ ~IsEmpty(myStatData) /\ reader' = [reader EXCEPT ![t] = "take"]
        /\ UNCHANGED <<worker, arrived, datagram, external, myStatData>>
    BY <1>8 DEF CheckStatData, workerVars, dataVars
  <2> QED
    BY <2>1, <1>0 DEF FreshInv
<1>9. ASSUME NEW t \in Readers, TakeStatData(t)
      PROVE  FreshInv' /\ external' >= external
  <2> DEFINE c == Cleared(myStatData)
  <2>1. /\ reader[t] = "take" /\ reader' = [reader EXCEPT ![t] = "idle"]
        /\ external' = Back(myStatData) /\ myStatData' = c
        /\ UNCHANGED <<worker, arrived, datagram>>
    BY <1>9 DEF TakeStatData, workerVars
  <2>2. external' \in external .. datagram
    BY <2>1 DEF FreshInv
  <2>3. Sound(c) /\ IsEmpty(c)
    BY <1>0, NewAndCleared, SizeFacts
  <2>4. \A u \in Readers : reader'[u] = "idle"
    BY <2>1 DEF FreshInv
  <2> HIDE DEF c
  <2>5. external' \in 0 .. datagram /\ external' >= external
    BY <2>2, <1>0 DEF FreshInv
  <2> QED
    BY <2>1, <2>3, <2>4, <2>5 DEF FreshInv
<1> QED
  BY <1>2, <1>3, <1>4, <1>5, <1>6, <1>7, <1>8, <1>9 DEF NextUdp, Worker

\* An application with one thread that calls returnStatData() is never given a
\* datagram older than one it has had, though the buffer is looked at under
\* one lock and emptied under the next.
THEOREM OneReaderMovesForward ==
    ASSUME \A t, u \in Readers : t = u
    PROVE  SpecUdp => NothingStale
<1>1. InitUdp => FreshInv
  <2> SUFFICES ASSUME InitUdp PROVE FreshInv
    OBVIOUS
  <2>1. /\ arrived = 0 /\ datagram = 0 /\ external = 0 /\ worker = "none"
        /\ reader = [t \in Readers |-> "idle"] /\ myStatData = NewRing
    BY Numbers DEF InitUdp
  <2>2. Sound(NewRing) /\ IsEmpty(NewRing)
    BY NewAndCleared, SizeFacts
  <2> QED
    BY <2>1, <2>2, Numbers DEF FreshInv
<1>2. FreshInv /\ [NextUdp]_udpVars => FreshInv'
  BY FreshNext
<1>3. FreshInv /\ [NextUdp]_udpVars => [external' >= external]_udpVars
  BY FreshNext
<1> QED
  BY <1>1, <1>2, <1>3, PTL DEF SpecUdp, NothingStale

-----------------------------------------------------------------------------
(* The health status.                                                      *)

Ending == {"dispose", "stop", "last join", "ended"}

HealthTypeOK ==
    /\ app \in [at : {"idle", "send", "erase", "join"} \cup Ending,
                key : Resources \cup {NoKey}, report : Nat]
    /\ app.at \in {"send", "erase"} => app.key \in Resources
    /\ built \in Nat
    /\ recent \in [Resources -> Nat] /\ instance \in [Resources -> Nat]
    /\ beating \in BOOLEAN /\ quiet \in BOOLEAN
    /\ beat \in {"none", "test", "walk", "send"}
    /\ held \in [key : Resources \cup {NoKey}, report : Nat]
    /\ beat = "send" => held.key \in Resources
    /\ left \subseteq Resources

\* A heartbeat that does not see the flag any more is waited for.
Awaited == beat # "none" => beating \/ app.at \in {"join", "last join"}

\* The walk goes over entries of the map, and has the report of one in hand
\* that is still there unless it was deregistered under the heartbeat.
WalkOK ==
    /\ beat \in {"walk", "send"} => todo \subseteq Entries
    /\ beat = "send" /\ app.at \notin Ending /\ held.key \notin raced =>
           recent[held.key] # 0

\* Between the two steps of a call on an entry.
CallOK ==
    /\ app.at = "send" => recent[app.key] # 0 /\ app.report # 0
    /\ app.at = "erase" /\ app.key \notin raced =>
           instance[app.key] = 0 /\ beat = "none"

\* What is on the bus has an entry ...
SeenHasEntry ==
    app.at \notin Ending =>
        \A k \in Resources \ raced : instance[k] # 0 => recent[k] # 0

\* ... that the destructor disposes, unhindered when there was no heartbeat.
DisposalOK ==
    /\ quiet /\ app.at \in Ending => beat = "none"
    /\ quiet /\ app.at = "dispose" =>
           \A k \in Resources \ raced : instance[k] # 0 => k \in left
    /\ quiet /\ app.at \in Ending \ {"dispose"} =>
           \A k \in Resources \ raced : instance[k] = 0

IInv ==
    /\ HealthTypeOK /\ Awaited /\ WalkOK /\ CallOK /\ SeenHasEntry /\ DisposalOK
    /\ NoThreadLeft

-----------------------------------------------------------------------------
\* The record of a call.
LEMMA AppFacts ==
    ASSUME NEW at, NEW k, NEW n
    PROVE  /\ AppAt(at, k, n).at = at /\ AppAt(at, k, n).key = k
           /\ AppAt(at, k, n).report = n
           /\ AppAt(at, k, n) = [at |-> at, key |-> k, report |-> n]
  BY DEF AppAt

LEMMA InitIInv == InitHealth => IInv
<1> SUFFICES ASSUME InitHealth PROVE IInv
  OBVIOUS
<1>1. /\ app.at = "idle" /\ app = [at |-> "idle", key |-> NoKey, report |-> 0]
      /\ recent = [k \in Resources |-> 0] /\ instance = recent /\ beat = "none"
      /\ quiet = FALSE
  BY AppFacts DEF InitHealth, Idle
<1>2. HealthTypeOK
  <2>1. app \in [at : {"idle"}, key : {NoKey}, report : Nat]
    BY <1>1
  <2>2. /\ app \in [at : {"idle", "send", "erase", "join"} \cup Ending,
                    key : Resources \cup {NoKey}, report : Nat]
        /\ app.at = "idle"
    BY <2>1
  <2>3. held \in [key : Resources \cup {NoKey}, report : Nat]
    BY DEF InitHealth
  <2>4. recent \in [Resources -> Nat] /\ instance \in [Resources -> Nat]
    BY <1>1
  <2> QED
    BY <2>2, <2>3, <2>4, <1>1 DEF InitHealth, HealthTypeOK
<1>3. Awaited /\ WalkOK /\ CallOK /\ SeenHasEntry /\ DisposalOK /\ NoThreadLeft
  BY <1>1 DEF Awaited, WalkOK, CallOK, SeenHasEntry, DisposalOK, NoThreadLeft
<1> QED
  BY <1>2, <1>3 DEF IInv

LEMMA BuildIInv ==
    ASSUME IInv, NEW k \in Resources, Register(k) \/ Update(k) PROVE IInv'
<1>1. /\ app = Idle /\ built' = built + 1 /\ built' \in Nat \ {0}
      /\ recent' = [recent EXCEPT ![k] = built']
      /\ app' = AppAt("send", k, built')
      /\ recent[k] = 0 \/ todo' = todo
      /\ Rearranged \/ todo' = todo
      /\ UNCHANGED <<instance, beating, beat, held, raced, quiet, left>>
  BY DEF Register, Update, IInv, HealthTypeOK, heartVars, historyVars, Rearranged
<1>2. /\ app.at = "idle" /\ app'.at = "send" /\ app'.key = k
      /\ app'.report = built'
      /\ app' = [at |-> "send", key |-> k, report |-> built']
  BY <1>1, AppFacts DEF Idle
<1>3. /\ recent \in [Resources -> Nat] /\ recent' \in [Resources -> Nat]
      /\ recent'[k] # 0 /\ \A l \in Resources : recent[l] # 0 => recent'[l] # 0
  BY <1>1 DEF IInv, HealthTypeOK
<1>4. Entries \subseteq Entries'
  BY <1>3 DEF Entries
<1>5. HealthTypeOK'
  BY <1>1, <1>2, <1>3 DEF IInv, HealthTypeOK
<1>6. WalkOK'
  <2>1. beat' \in {"walk", "send"} => todo' \subseteq Entries'
    BY <1>1, <1>4 DEF IInv, WalkOK, Rearranged
  <2> QED
    BY <2>1, <1>1, <1>2, <1>3 DEF IInv, WalkOK, HealthTypeOK, Ending
<1>7. Awaited' /\ CallOK' /\ SeenHasEntry' /\ DisposalOK' /\ NoThreadLeft'
  BY <1>1, <1>2, <1>3
     DEF IInv, Awaited, CallOK, SeenHasEntry, DisposalOK, NoThreadLeft, Ending
<1> QED
  BY <1>5, <1>6, <1>7 DEF IInv

LEMMA SendNewIInv == ASSUME IInv, SendNew PROVE IInv'
<1>1. /\ app.at = "send" /\ app' = Idle /\ app.key \in Resources
      /\ app.report \in Nat \ {0} /\ recent[app.key] # 0
      /\ instance' = [instance EXCEPT ![app.key] = app.report]
      /\ UNCHANGED <<built, recent, beating, beat, held, todo, raced, quiet, left>>
  BY DEF SendNew, IInv, HealthTypeOK, CallOK, heartVars, historyVars
<1>2. /\ app'.at = "idle" /\ app'.key = NoKey /\ app'.report = 0
      /\ app' = [at |-> "idle", key |-> NoKey, report |-> 0]
  BY <1>1, AppFacts DEF Idle
<1>3. /\ instance' \in [Resources -> Nat]
      /\ \A k \in Resources : k # app.key => instance'[k] = instance[k]
  BY <1>1 DEF IInv, HealthTypeOK
<1>4. HealthTypeOK'
  BY <1>1, <1>2, <1>3 DEF IInv, HealthTypeOK
<1>5. WalkOK'
  BY <1>1, <1>2 DEF IInv, WalkOK, Ending, Entries
<1>6. SeenHasEntry'
  BY <1>1, <1>2, <1>3 DEF IInv, SeenHasEntry, Ending
<1>7. Awaited' /\ CallOK' /\ DisposalOK' /\ NoThreadLeft'
  BY <1>1, <1>2 DEF IInv, Awaited, CallOK, DisposalOK, NoThreadLeft, Ending
<1> QED
  BY <1>4, <1>5, <1>6, <1>7 DEF IInv

LEMMA DeregisterIInv ==
    ASSUME IInv, NEW k \in Resources, Deregister(k) PROVE IInv'
<1>1. /\ app = Idle /\ app' = AppAt("erase", k, 0)
      /\ instance' = [instance EXCEPT ![k] = 0]
      /\ raced' = IF beat = "none" THEN raced ELSE raced \cup {k}
      /\ UNCHANGED <<built, recent, beating, beat, held, todo, quiet, left>>
  BY DEF Deregister, heartVars
<1>2. /\ app.at = "idle" /\ app'.at = "erase" /\ app'.key = k /\ app'.report = 0
      /\ app' = [at |-> "erase", key |-> k, report |-> 0]
  BY <1>1, AppFacts DEF Idle
<1>3. /\ instance' \in [Resources -> Nat] /\ instance'[k] = 0
      /\ \A l \in Resources : instance'[l] # 0 => instance[l] # 0
  BY <1>1 DEF IInv, HealthTypeOK
<1>4. HealthTypeOK'
  BY <1>1, <1>2, <1>3 DEF IInv, HealthTypeOK
<1>5. WalkOK'
  BY <1>1, <1>2 DEF IInv, WalkOK, Ending, Entries
<1>6. SeenHasEntry' /\ CallOK'
  BY <1>1, <1>2, <1>3 DEF IInv, SeenHasEntry, CallOK, Ending
<1>7. Awaited' /\ DisposalOK' /\ NoThreadLeft'
  BY <1>1, <1>2 DEF IInv, Awaited, DisposalOK, NoThreadLeft, Ending
<1> QED
  BY <1>4, <1>5, <1>6, <1>7 DEF IInv

LEMMA EraseIInv == ASSUME IInv, Erase PROVE IInv'
<1>1. /\ app.at = "erase" /\ app.key \in Resources /\ app' = Idle
      /\ recent' = [recent EXCEPT ![app.key] = 0]
      /\ Rearranged
      /\ UNCHANGED <<built, instance, beating, beat, held, raced, quiet, left>>
  BY DEF Erase, IInv, HealthTypeOK, heartVars, historyVars
<1>2. /\ app'.at = "idle" /\ app'.key = NoKey /\ app'.report = 0
      /\ app' = [at |-> "idle", key |-> NoKey, report |-> 0]
  BY <1>1, AppFacts DEF Idle
<1>3. /\ recent' \in [Resources -> Nat]
      /\ \A k \in Resources : k # app.key => recent'[k] = recent[k]
  BY <1>1 DEF IInv, HealthTypeOK
<1>4. app.key \notin raced => instance[app.key] = 0 /\ beat = "none"
  BY <1>1 DEF IInv, CallOK
<1>5. HealthTypeOK'
  BY <1>1, <1>2, <1>3 DEF IInv, HealthTypeOK
<1>6. WalkOK'
  <2>1. beat' \in {"walk", "send"} => todo' \subseteq Entries'
    BY <1>1 DEF Rearranged
  <2>2. beat = "send" /\ held.key \notin raced =>
            recent[held.key] # 0 /\ held.key # app.key /\ held.key \in Resources
    BY <1>1, <1>4 DEF IInv, WalkOK, HealthTypeOK, Ending
  <2> QED
    BY <2>1, <2>2, <1>1, <1>3 DEF WalkOK
<1>7. SeenHasEntry'
  BY <1>1, <1>2, <1>3, <1>4 DEF IInv, SeenHasEntry, Ending
<1>8. Awaited' /\ CallOK' /\ DisposalOK' /\ NoThreadLeft'
  BY <1>1, <1>2 DEF IInv, Awaited, CallOK, DisposalOK, NoThreadLeft, Ending
<1> QED
  BY <1>5, <1>6, <1>7, <1>8 DEF IInv

LEMMA StartIInv == ASSUME IInv, StartThread PROVE IInv'
<1>1. /\ app = Idle /\ app' = app /\ ~beating /\ beating' /\ beating' \in BOOLEAN
      /\ beat' = "test"
      /\ UNCHANGED <<built, recent, instance, todo, held, raced, quiet, left>>
  BY DEF StartThread, historyVars
<1>2. app.at = "idle"
  BY <1>1, AppFacts DEF Idle
<1> QED
  BY <1>1, <1>2 DEF IInv, HealthTypeOK, Awaited, WalkOK, CallOK, SeenHasEntry,
     DisposalOK, NoThreadLeft, Ending, Entries

\* The call goes on to another step of the same kind.
LEMMA StopIInv == ASSUME IInv, StopThread PROVE IInv'
<1> DEFINE next == IF app.at = "idle" THEN "join" ELSE "last join"
<1>1. /\ app.at \in {"idle", "stop"} /\ app' = [app EXCEPT !.at = next]
      /\ beating /\ beating' = FALSE
      /\ UNCHANGED <<built, recent, instance, beat, held, todo, raced, quiet, left>>
  BY DEF StopThread, heartVars, historyVars
<1>2. app' \in [at : {"idle", "send", "erase", "join"} \cup Ending,
                key : Resources \cup {NoKey}, report : Nat]
      /\ app'.at = next
  BY <1>1 DEF IInv, HealthTypeOK, Ending
<1>3. HealthTypeOK'
  BY <1>1, <1>2 DEF IInv, HealthTypeOK
<1> QED
  BY <1>1, <1>2, <1>3 DEF IInv, Awaited, WalkOK, CallOK, SeenHasEntry,
     DisposalOK, NoThreadLeft, Ending, Entries

LEMMA JoinIInv == ASSUME IInv, JoinThread PROVE IInv'
<1> DEFINE next == IF app.at = "join" THEN "idle" ELSE "ended"
<1>1. /\ app.at \in {"join", "last join"} /\ beat = "none"
      /\ app' = [app EXCEPT !.at = next]
      /\ UNCHANGED <<built, recent, instance, beating, beat, held, todo, raced,
                     quiet, left>>
  BY DEF JoinThread, heartVars, historyVars
<1>2. app' \in [at : {"idle", "send", "erase", "join"} \cup Ending,
                key : Resources \cup {NoKey}, report : Nat]
      /\ app'.at = next
  BY <1>1 DEF IInv, HealthTypeOK, Ending
<1>3. HealthTypeOK'
  BY <1>1, <1>2 DEF IInv, HealthTypeOK
<1> QED
  BY <1>1, <1>2, <1>3 DEF IInv, Awaited, WalkOK, CallOK, SeenHasEntry,
     DisposalOK, NoThreadLeft, Ending, Entries

LEMMA DestroyIInv == ASSUME IInv, Destroy PROVE IInv'
<1>1. /\ app = Idle /\ app' = AppAt("dispose", NoKey, 0)
      /\ left' = Entries /\ quiet' = (beat = "none")
      /\ UNCHANGED <<built, recent, instance, beating, beat, held, todo, raced>>
  BY DEF Destroy, heartVars
<1>2. /\ app.at = "idle" /\ app'.at = "dispose"
      /\ app' = [at |-> "dispose", key |-> NoKey, report |-> 0]
  BY <1>1, AppFacts DEF Idle
<1>3. HealthTypeOK'
  <2>1. quiet' \in BOOLEAN
    BY <1>1
  <2>2. left' \subseteq Resources
    BY <1>1 DEF Entries
  <2>3. app' \in [at : Ending, key : {NoKey}, report : Nat]
    BY <1>2 DEF Ending
  <2>4. app' \in [at : {"idle", "send", "erase", "join"} \cup Ending,
                 key : Resources \cup {NoKey}, report : Nat]
    BY <2>3
  <2> QED
    BY <2>1, <2>2, <2>4, <1>1, <1>2 DEF IInv, HealthTypeOK
<1>4. DisposalOK'
  BY <1>1, <1>2 DEF IInv, SeenHasEntry, DisposalOK, Ending, Entries
<1> QED
  BY <1>1, <1>2, <1>3, <1>4 DEF IInv, Awaited, WalkOK, CallOK, SeenHasEntry,
     NoThreadLeft, Ending, Entries

LEMMA DisposeOneIInv == ASSUME IInv, DisposeOne PROVE IInv'
<1>1. PICK k \in left : /\ instance' = [instance EXCEPT ![k] = 0]
                        /\ left' = left \ {k}
  BY DEF DisposeOne
<1>2. /\ app.at = "dispose" /\ k \in Resources
      /\ UNCHANGED <<app, built, recent, beating, beat, held, todo, raced, quiet>>
  BY DEF DisposeOne, heartVars, IInv, HealthTypeOK
<1>3. /\ instance' \in [Resources -> Nat] /\ instance'[k] = 0
      /\ \A l \in Resources : l # k => instance'[l] = instance[l]
  BY <1>1, <1>2 DEF IInv, HealthTypeOK
<1>4. HealthTypeOK'
  BY <1>1, <1>2, <1>3 DEF IInv, HealthTypeOK
<1>5. DisposalOK'
  BY <1>1, <1>2, <1>3 DEF IInv, DisposalOK, Ending
<1> QED
  BY <1>2, <1>4, <1>5 DEF IInv, Awaited, WalkOK, CallOK, SeenHasEntry,
     NoThreadLeft, Ending, Entries

LEMMA ClearIInv == ASSUME IInv, ClearReports PROVE IInv'
<1> DEFINE next == IF beating THEN "stop" ELSE "ended"
<1>1. /\ app.at = "dispose" /\ left = {} /\ app' = AppAt(next, NoKey, 0)
      /\ recent' = [k \in Resources |-> 0]
      /\ Rearranged
      /\ UNCHANGED <<built, instance, beating, beat, held, raced, quiet, left>>
  BY DEF ClearReports, heartVars, historyVars
<1>2. /\ app'.at = next /\ next \in {"stop", "ended"}
      /\ app' = [at |-> next, key |-> NoKey, report |-> 0]
  BY <1>1, AppFacts
<1> HIDE DEF next
<1>3. HealthTypeOK'
  <2> DEFINE at == {"idle", "send", "erase", "join"} \cup Ending
             keys == Resources \cup {NoKey}
  <2>3. next \in at /\ NoKey \in keys /\ 0 \in Nat
    BY <1>2 DEF Ending
  <2> HIDE DEF at, keys
  <2>4. app' \in [at : at, key : keys, report : Nat]
    BY <2>3, <1>2
  <2>1. app' \in [at : {"idle", "send", "erase", "join"} \cup Ending,
                 key : Resources \cup {NoKey}, report : Nat]
    BY <2>4 DEF at, keys
  <2>2. recent' \in [Resources -> Nat]
    BY <1>1
  <2> QED
    BY <2>1, <2>2, <1>1, <1>2 DEF IInv, HealthTypeOK
<1>4. WalkOK'
  BY <1>1, <1>2 DEF WalkOK, Rearranged, Ending
<1>5. DisposalOK' /\ CallOK' /\ SeenHasEntry'
  BY <1>1, <1>2 DEF IInv, DisposalOK, CallOK, SeenHasEntry, Ending
<1>6. Awaited' /\ NoThreadLeft'
  BY <1>1, <1>2 DEF IInv, Awaited, NoThreadLeft, next
<1> QED
  BY <1>3, <1>4, <1>5, <1>6 DEF IInv

LEMMA BeatIInv == ASSUME IInv, BeatTest \/ BeatSleep PROVE IInv'
<1>1. /\ beat \in {"test", "walk"} /\ beat' \in {"none", "test", "walk"}
      /\ beat' # "none" \/ ~beating
      /\ beat' = "walk" => todo' = Entries
      /\ UNCHANGED <<app, built, recent, instance, beating, held, raced, quiet, left>>
  BY DEF BeatTest, BeatSleep, historyVars
<1> QED
  BY <1>1 DEF IInv, HealthTypeOK, Awaited, WalkOK, CallOK, SeenHasEntry,
     DisposalOK, NoThreadLeft, Ending, Entries

LEMMA TakeEntryIInv == ASSUME IInv, TakeEntry PROVE IInv'
<1>1. PICK k \in todo : /\ held' = [key |-> k, report |-> recent[k]]
                        /\ todo' = todo \ {k}
  BY DEF TakeEntry
<1>2. /\ beat = "walk" /\ beat' = "send"
      /\ UNCHANGED <<app, built, recent, instance, beating, raced, quiet, left>>
  BY DEF TakeEntry, historyVars
<1>3. /\ todo \subseteq Entries /\ k \in Resources /\ recent[k] # 0
      /\ recent[k] \in Nat /\ held'.key = k
  BY <1>1, <1>2 DEF IInv, WalkOK, Entries, HealthTypeOK
<1>4. HealthTypeOK' /\ WalkOK'
  BY <1>1, <1>2, <1>3 DEF IInv, HealthTypeOK, WalkOK, Entries
<1> QED
  BY <1>2, <1>4 DEF IInv, Awaited, CallOK, SeenHasEntry, DisposalOK,
     NoThreadLeft, Ending

LEMMA SendEntryIInv == ASSUME IInv, SendEntry PROVE IInv'
<1>1. /\ beat = "send" /\ beat' = "walk" /\ held.key \in Resources
      /\ instance' = [instance EXCEPT ![held.key] = held.report]
      /\ UNCHANGED <<app, built, recent, beating, todo, held, raced, quiet, left>>
  BY DEF SendEntry, historyVars, IInv, HealthTypeOK
<1>2. /\ instance' \in [Resources -> Nat]
      /\ \A k \in Resources : k # held.key => instance'[k] = instance[k]
  BY <1>1 DEF IInv, HealthTypeOK
<1>3. HealthTypeOK' /\ WalkOK'
  BY <1>1, <1>2 DEF IInv, HealthTypeOK, WalkOK, Entries
<1>4. SeenHasEntry' /\ CallOK'
  BY <1>1, <1>2 DEF IInv, SeenHasEntry, CallOK, WalkOK, HealthTypeOK
<1>5. Awaited' /\ DisposalOK' /\ NoThreadLeft'
  BY <1>1, <1>2 DEF IInv, Awaited, DisposalOK, NoThreadLeft, Ending
<1> QED
  BY <1>3, <1>4, <1>5 DEF IInv

LEMMA NextIInv == IInv /\ [NextHealth]_healthVars => IInv'
<1>1. ASSUME IInv, UNCHANGED healthVars PROVE IInv'
  <2>1. HealthTypeOK' /\ Awaited' /\ NoThreadLeft'
    BY <1>1 DEF healthVars, IInv, HealthTypeOK, Awaited, NoThreadLeft
  <2>2. WalkOK' /\ CallOK' /\ SeenHasEntry' /\ DisposalOK'
    BY <1>1 DEF healthVars, IInv, WalkOK, CallOK, SeenHasEntry, DisposalOK,
       Entries
  <2> QED
    BY <2>1, <2>2 DEF IInv
<1>2. ASSUME IInv, Calls PROVE IInv'
  BY <1>2, BuildIInv, DeregisterIInv, StartIInv, StopIInv, DestroyIInv DEF Calls
<1>3. ASSUME IInv, Returns PROVE IInv'
  BY <1>3, SendNewIInv, EraseIInv, JoinIInv, DisposeOneIInv, ClearIInv, StopIInv
     DEF Returns
<1>4. ASSUME IInv, Heartbeat PROVE IInv'
  BY <1>4, BeatIInv, TakeEntryIInv, SendEntryIInv DEF Heartbeat
<1> QED
  BY <1>1, <1>2, <1>3, <1>4 DEF NextHealth

-----------------------------------------------------------------------------
\* The destructor of HealthStatusControl joins the heartbeat, and disposes
\* every report when there was none, but for resources that were deregistered
\* under a heartbeat.
THEOREM DestroyedCleanly == SpecHealth => []EndInv
<1>1. InitHealth => IInv
  BY InitIInv
<1>2. IInv /\ [NextHealth]_healthVars => IInv'
  BY NextIInv
<1>3. IInv => EndInv
  BY DEF IInv, EndInv, QuietEndIsClean, DisposalOK, Ending
<1> QED
  BY <1>1, <1>2, <1>3, PTL DEF SpecHealth

-----------------------------------------------------------------------------
(* The readers.                                                            *)

Values(q) == {q[i] : i \in DOMAIN q}

Rising(q) == \A i, j \in DOMAIN q : i < j => q[i] < q[j]

Stamps == [key : Instances, status : {"SUCCESS", "DISPOSED", "INVALID_DATA"}, n : Nat]

\* Two envelopes in the order their data was written in.
Before(e, f) == e.key = f.key /\ e.n # 0 /\ f.n # 0 => e.n < f.n

Lined(q) == \A i, j \in DOMAIN q : i < j => Before(q[i], q[j])

LEMMA NumbersTail ==
    ASSUME NEW q \in Seq(Nat), q # <<>>, Rising(q)
    PROVE  /\ Tail(q) \in Seq(Nat) /\ Rising(Tail(q)) /\ Head(q) \in Nat
           /\ Values(q) = {Head(q)} \cup Values(Tail(q))
           /\ \A n \in Values(Tail(q)) : Head(q) < n
<1>1. /\ Len(q) \in Nat /\ Len(q) # 0 /\ DOMAIN q = 1 .. Len(q) /\ Head(q) = q[1]
      /\ q[1] \in Nat
  OBVIOUS
<1> DEFINE t == Tail(q)
<1>2. /\ t \in Seq(Nat) /\ DOMAIN t = 1 .. Len(q) - 1
      /\ \A i \in DOMAIN t : t[i] = q[i + 1]
  BY <1>1
<1> HIDE DEF t
<1>3. \A i \in DOMAIN t : i + 1 \in DOMAIN q
  BY <1>1, <1>2
<1>4. \A i \in DOMAIN q : i = 1 \/ (i - 1 \in DOMAIN t /\ t[i - 1] = q[i])
  <2> SUFFICES ASSUME NEW i \in DOMAIN q, i # 1
               PROVE  i - 1 \in DOMAIN t /\ t[i - 1] = q[i]
    OBVIOUS
  <2>1. i - 1 \in 1 .. Len(q) - 1 /\ (i - 1) + 1 = i
    BY <1>1
  <2> QED
    BY <2>1, <1>2
<1>5. Values(q) = {Head(q)} \cup Values(t)
  <2>1. 1 \in DOMAIN q
    BY <1>1
  <2>2. \A x \in Values(q) : x \in {Head(q)} \cup Values(t)
    BY <1>1, <1>4 DEF Values
  <2>3. \A x \in {Head(q)} \cup Values(t) : x \in Values(q)
    BY <1>1, <1>2, <1>3, <2>1 DEF Values
  <2> QED
    BY <2>2, <2>3
<1>6. Rising(t)
  BY <1>2, <1>3 DEF Rising
<1>7. \A n \in Values(t) : Head(q) < n
  <2> SUFFICES ASSUME NEW i \in DOMAIN t PROVE Head(q) < t[i]
    BY DEF Values
  <2>1. 1 \in DOMAIN q /\ i + 1 \in DOMAIN q /\ 1 < i + 1
    BY <1>1, <1>2, <1>3
  <2> QED
    BY <2>1, <1>1, <1>2 DEF Rising
<1> QED
  BY <1>1, <1>2, <1>5, <1>6, <1>7 DEF t

LEMMA NumbersAppend ==
    ASSUME NEW q \in Seq(Nat), Rising(q), NEW n \in Nat, \A m \in Values(q) : m < n
    PROVE  /\ Append(q, n) \in Seq(Nat) /\ Rising(Append(q, n)) /\ Append(q, n) # <<>>
           /\ Values(Append(q, n)) = Values(q) \cup {n}
<1> DEFINE a == Append(q, n)
<1>1. /\ a \in Seq(Nat) /\ Len(q) \in Nat /\ DOMAIN q = 1 .. Len(q)
      /\ DOMAIN a = 1 .. Len(q) + 1 /\ a[Len(q) + 1] = n
      /\ \A i \in DOMAIN q : a[i] = q[i]
  OBVIOUS
<1> HIDE DEF a
<1>2. \A i \in DOMAIN a : i \in DOMAIN q \/ i = Len(q) + 1
  BY <1>1
<1>3. \A i \in DOMAIN q : i \in DOMAIN a /\ i < Len(q) + 1
  BY <1>1
<1>4. Values(a) = Values(q) \cup {n}
  <2>1. Len(q) + 1 \in DOMAIN a
    BY <1>1
  <2> QED
    BY <1>1, <1>2, <1>3, <2>1 DEF Values
<1>5. Rising(a)
  <2> SUFFICES ASSUME NEW i \in DOMAIN a, NEW j \in DOMAIN a, i < j PROVE a[i] < a[j]
    BY DEF Rising
  <2>1. i \in DOMAIN q
    BY <1>1
  <2> QED
    BY <2>1, <1>1, <1>2 DEF Rising, Values
<1>6. a # <<>>
  BY <1>1
<1> QED
  BY <1>1, <1>4, <1>5, <1>6 DEF a

LEMMA LinedTail ==
    ASSUME NEW q \in Seq(Stamps), q # <<>>, Lined(q)
    PROVE  /\ Tail(q) \in Seq(Stamps) /\ Lined(Tail(q)) /\ Head(q) \in Stamps
           /\ Values(q) = {Head(q)} \cup Values(Tail(q))
           /\ \A e \in Values(Tail(q)) : Before(Head(q), e)
<1> HIDE DEF Stamps
<1>1. /\ Len(q) \in Nat /\ Len(q) # 0 /\ DOMAIN q = 1 .. Len(q) /\ Head(q) = q[1]
      /\ q[1] \in Stamps
  OBVIOUS
<1> DEFINE t == Tail(q)
<1>2. /\ t \in Seq(Stamps) /\ DOMAIN t = 1 .. Len(q) - 1
      /\ \A i \in DOMAIN t : t[i] = q[i + 1]
  BY <1>1
<1> HIDE DEF t
<1>3. \A i \in DOMAIN t : i + 1 \in DOMAIN q
  BY <1>1, <1>2
<1>4. \A i \in DOMAIN q : i = 1 \/ (i - 1 \in DOMAIN t /\ t[i - 1] = q[i])
  <2> SUFFICES ASSUME NEW i \in DOMAIN q, i # 1
               PROVE  i - 1 \in DOMAIN t /\ t[i - 1] = q[i]
    OBVIOUS
  <2>1. i - 1 \in 1 .. Len(q) - 1 /\ (i - 1) + 1 = i
    BY <1>1
  <2> QED
    BY <2>1, <1>2
<1>5. Values(q) = {Head(q)} \cup Values(t)
  BY <1>1, <1>2, <1>3, <1>4 DEF Values
<1>6. Lined(t)
  BY <1>2, <1>3 DEF Lined
<1>7. \A e \in Values(t) : Before(Head(q), e)
  <2> SUFFICES ASSUME NEW i \in DOMAIN t PROVE Before(Head(q), t[i])
    BY DEF Values
  <2>1. 1 \in DOMAIN q /\ i + 1 \in DOMAIN q /\ 1 < i + 1
    BY <1>1, <1>2, <1>3
  <2> QED
    BY <2>1, <1>1, <1>2 DEF Lined
<1> QED
  BY <1>1, <1>2, <1>5, <1>6, <1>7 DEF t

LEMMA LinedAppend ==
    ASSUME NEW q \in Seq(Stamps), Lined(q), NEW e \in Stamps,
           \A f \in Values(q) : Before(f, e)
    PROVE  /\ Append(q, e) \in Seq(Stamps) /\ Lined(Append(q, e))
           /\ Values(Append(q, e)) = Values(q) \cup {e}
<1> HIDE DEF Stamps
<1> DEFINE a == Append(q, e)
<1>1. /\ a \in Seq(Stamps) /\ Len(q) \in Nat /\ DOMAIN q = 1 .. Len(q)
      /\ DOMAIN a = 1 .. Len(q) + 1 /\ a[Len(q) + 1] = e
      /\ \A i \in DOMAIN q : a[i] = q[i]
  OBVIOUS
<1> HIDE DEF a
<1>2. \A i \in DOMAIN a : i \in DOMAIN q \/ i = Len(q) + 1
  BY <1>1
<1>3. \A i \in DOMAIN q : i \in DOMAIN a /\ i < Len(q) + 1
  BY <1>1
<1>4. Values(a) = Values(q) \cup {e}
  <2>1. Len(q) + 1 \in DOMAIN a
    BY <1>1
  <2> QED
    BY <1>1, <1>2, <1>3, <2>1 DEF Values
<1>5. Lined(a)
  <2> SUFFICES ASSUME NEW i \in DOMAIN a, NEW j \in DOMAIN a, i < j
               PROVE  Before(a[i], a[j])
    BY DEF Lined
  <2>1. i \in DOMAIN q
    BY <1>1
  <2> QED
    BY <2>1, <1>1, <1>2 DEF Lined, Values
<1> QED
  BY <1>1, <1>4, <1>5 DEF a

LEMMA LeastNatural ==
    ASSUME NEW T, T \subseteq Nat, T # {}
    PROVE  \E x \in T : \A y \in T : x <= y
<1> DEFINE Below == {0 .. x - 1 : x \in T}
<1>1. Below # {} /\ Below \subseteq FiniteSubsetsOf(Nat)
  <2> SUFFICES ASSUME NEW x \in T
               PROVE  IsFiniteSet(0 .. x - 1) /\ 0 .. x - 1 \in SUBSET Nat
    BY DEF FiniteSubsetsOf
  <2> QED
    BY FS_Interval
<1>2. PICK b \in Below : \A c \in Below : ~ (<<c, b>> \in StrictSubsetOrdering(Nat))
  BY <1>1, FS_StrictSubsetOrderingWellFounded, WFMin
<1>3. PICK x \in T : b = 0 .. x - 1
  OBVIOUS
<1>4. ASSUME NEW y \in T, y < x PROVE FALSE
  <2>1. /\ 0 .. y - 1 \in Below /\ y \in b /\ y \notin 0 .. y - 1
        /\ 0 .. y - 1 \subseteq b
    BY <1>3, <1>4
  <2> HIDE DEF Below
  <2>2. <<0 .. y - 1, b>> \in StrictSubsetOrdering(Nat)
    <3>1. <<0 .. y - 1, b>> \in (SUBSET Nat) \X (SUBSET Nat)
      BY <1>3, SMT
    <3>2. 0 .. y - 1 # b
      BY <2>1
    <3> QED
      BY <3>1, <3>2, <2>1, Zenon DEF StrictSubsetOrdering
  <2> QED
    BY <2>1, <2>2, <1>2
<1> QED
  BY <1>4

LEMMA GreatestIndex ==
    ASSUME NEW n \in Nat, NEW T, T \subseteq 1 .. n, T # {}
    PROVE  \E x \in T : \A y \in T : y <= x
<1>1. PICK z \in {n - x : x \in T} : \A y \in {n - x : x \in T} : z <= y
  <2>1. \A x \in T : x \in Int /\ x <= n
    OBVIOUS
  <2>2. \A x \in T : n - x \in Nat
    BY <2>1
  <2>3. {n - x : x \in T} \subseteq Nat /\ {n - x : x \in T} # {}
    BY <2>2
  <2> QED
    BY <2>3, LeastNatural
<1>2. PICK x \in T : z = n - x
  OBVIOUS
<1>3. \A y \in T : n - x <= n - y
  BY <1>1, <1>2
<1> QED
  BY <1>3

ReaderTypes ==
    /\ written \in Nat
    /\ unread \in [Instances -> Seq(Nat)]
    /\ keyOnly \in [Instances -> BOOLEAN]
    /\ batch \in [Instances -> Seq(Stamps)] /\ pushing \in Instances
    /\ ring \in Seq(Stamps) /\ backed \subseteq Stamps
    /\ answers \in [Instances -> [status : {"none", "SUCCESS", "DISPOSED", "INVALID_DATA"},
                                  data : Seq(Nat)]]
    /\ use # "read" => asked = "no"
    /\ backed # {} => use = "buffered latest"
    /\ ~Buffered => ring = <<>> /\ backed = {} /\ \A k \in Instances : batch[k] = <<>>

\* What the reader's thread has taken out of the middleware.
HeldBy(k) == Values(ring) \cup backed \cup Values(batch[k])

\* The data an application was given is older than what the reader holds, and that
\* is older than what is unread; what is held is in the order it was written in.
InLine ==
    \A k \in Instances :
        /\ Rising(answers[k].data) /\ Rising(unread[k])
        /\ \A n \in Values(unread[k]) : n \in 1 .. written
        /\ \A d \in Values(answers[k].data) : d \in 1 .. written
        /\ \A e \in HeldBy(k) : e.n <= written
        /\ \A d \in Values(answers[k].data), e \in HeldBy(k) : e.key = k /\ e.n # 0 => d < e.n
        /\ \A d \in Values(answers[k].data), n \in Values(unread[k]) : d < n
        /\ \A e \in HeldBy(k), n \in Values(unread[k]) : e.key = k => e.n < n
        /\ Lined(batch[k]) /\ \A e \in Values(batch[k]) : e.key = k
        /\ \A e \in Values(ring) \cup backed, f \in Values(batch[k]) : Before(e, f)

ReaderFits == ReaderTypes /\ InLine /\ Lined(ring) /\ NothingSkipped

LEMMA NoValues == Values(<<>>) = {} /\ Rising(<<>>) /\ Lined(<<>>)
  BY DEF Values, Rising, Lined

\* An application is given an envelope, or nothing (0), and nothing is added to what
\* the reader and the middleware hold.
LEMMA InLineStep ==
    ASSUME InLine, ReaderTypes, NEW e \in Stamps, written' = written,
           \A k \in Instances : Rising(answers'[k].data),
           \A k \in Instances : \A d \in Values(answers'[k].data) :
               d \in Values(answers[k].data) \/ (k = e.key /\ d = e.n /\ e.n # 0),
           Values(ring') \cup backed' \subseteq Values(ring) \cup backed,
           \A k \in Instances :
               /\ Values(batch'[k]) \subseteq Values(batch[k]) /\ Lined(batch'[k])
               /\ Values(unread'[k]) \subseteq Values(unread[k]) /\ Rising(unread'[k]),
           e.n # 0 =>
               /\ e.n <= written
               /\ \A f \in Values(ring') \cup backed' \cup Values(batch'[e.key]) :
                      f.key = e.key /\ f.n # 0 => e.n < f.n
               /\ \A n \in Values(unread'[e.key]) : e.n < n
    PROVE  InLine'
<1>1. /\ e.key \in Instances /\ e.n \in Nat /\ written \in Nat
  BY DEF ReaderTypes, Stamps
<1>2. \A k \in Instances :
          Values(ring') \cup backed' \cup Values(batch'[k]) \subseteq HeldBy(k)
  BY DEF HeldBy
<1> SUFFICES ASSUME NEW k \in Instances
    PROVE  /\ Rising(answers'[k].data) /\ Rising(unread'[k])
           /\ \A n \in Values(unread'[k]) : n \in 1 .. written
           /\ \A d \in Values(answers'[k].data) : d \in 1 .. written
           /\ \A f \in HeldBy(k)' : f.n <= written
           /\ \A d \in Values(answers'[k].data), f \in HeldBy(k)' :
                  f.key = k /\ f.n # 0 => d < f.n
           /\ \A d \in Values(answers'[k].data), n \in Values(unread'[k]) : d < n
           /\ \A f \in HeldBy(k)', n \in Values(unread'[k]) : f.key = k => f.n < n
           /\ Lined(batch'[k]) /\ \A f \in Values(batch'[k]) : f.key = k
           /\ \A f \in Values(ring') \cup backed', g \in Values(batch'[k]) : Before(f, g)
  BY DEF InLine, Values, Rising, Lined, HeldBy
<1>3. HeldBy(k)' = Values(ring') \cup backed' \cup Values(batch'[k])
  BY DEF HeldBy, Values
<1>4. HeldBy(k)' \subseteq HeldBy(k)
  BY <1>2, <1>3
<1>5. /\ \A n \in Values(unread'[k]) : n \in 1 .. written
      /\ \A f \in HeldBy(k)' : f.n <= written
      /\ \A f \in HeldBy(k)', n \in Values(unread'[k]) : f.key = k => f.n < n
  BY <1>4 DEF InLine
<1>6. /\ \A f \in Values(batch'[k]) : f.key = k
      /\ \A f \in Values(ring') \cup backed', g \in Values(batch'[k]) : Before(f, g)
  BY DEF InLine
<1>7. ASSUME NEW d \in Values(answers'[k].data)
      PROVE  /\ d \in 1 .. written
             /\ \A f \in HeldBy(k)' : f.key = k /\ f.n # 0 => d < f.n
             /\ \A n \in Values(unread'[k]) : d < n
  <2>1. CASE d \in Values(answers[k].data)
    BY <2>1, <1>4 DEF InLine
  <2>2. CASE k = e.key /\ d = e.n /\ e.n # 0
    BY <2>2, <1>1, <1>3
  <2> QED
    BY <2>1, <2>2
<1> QED
  BY <1>5, <1>6, <1>7

\* What an application is given is newer than all it has of the instance.
LEMMA GivenFacts ==
    ASSUME InLine, ReaderTypes, NEW e \in Stamps, Given(e),
           \A d \in Values(answers[e.key].data) : e.n # 0 => d < e.n
    PROVE  /\ answers' \in [Instances -> [status : {"none", "SUCCESS", "DISPOSED", "INVALID_DATA"},
                                          data : Seq(Nat)]]
           /\ \A k \in Instances : Rising(answers'[k].data)
           /\ \A k \in Instances : \A d \in Values(answers'[k].data) :
                  d \in Values(answers[k].data) \/ (k = e.key /\ d = e.n /\ e.n # 0)
           /\ \A k \in Instances : \A d \in Values(answers[k].data) : d \in Values(answers'[k].data)
           /\ e.n # 0 => e.n \in Values(answers'[e.key].data)
<1> DEFINE old == answers[e.key].data
           new == IF e.n = 0 THEN old ELSE Append(old, e.n)
           val == [status |-> e.status, data |-> new]
           Kind == [status : {"none", "SUCCESS", "DISPOSED", "INVALID_DATA"}, data : Seq(Nat)]
<1>1. e.key \in Instances /\ e.n \in Nat /\ e.status \in {"SUCCESS", "DISPOSED", "INVALID_DATA"}
  BY DEF Stamps
<1>2. old \in Seq(Nat) /\ Rising(old)
  BY <1>1 DEF ReaderTypes, InLine
<1>3. answers' = [answers EXCEPT ![e.key] = val]
  BY DEF Given
<1>4. /\ new \in Seq(Nat) /\ Rising(new)
      /\ e.n = 0 => Values(new) = Values(old)
      /\ e.n # 0 => Values(new) = Values(old) \cup {e.n}
  BY <1>1, <1>2, NumbersAppend
<1> HIDE DEF new
<1>5. val \in Kind /\ val.data = new
  BY <1>1, <1>4
<1>6. answers \in [Instances -> Kind]
  BY DEF ReaderTypes
<1> HIDE DEF val, Kind
<1>7. /\ answers' \in [Instances -> Kind] /\ answers'[e.key] = val
      /\ \A k \in Instances : k # e.key => answers'[k] = answers[k]
  BY <1>1, <1>3, <1>5, <1>6
<1>8. \A k \in Instances : Rising(answers'[k].data)
  BY <1>4, <1>5, <1>7 DEF InLine
<1> QED
  BY <1>4, <1>5, <1>7, <1>8 DEF Kind

\* What does not concern data: the types of the rest, and which samples are missing.
Asking ==
    /\ keyOnly \in [Instances -> BOOLEAN] /\ pushing \in Instances
    /\ use # "read" => asked = "no"
    /\ backed # {} => use = "buffered latest"
    /\ ~Buffered => ring = <<>> /\ backed = {} /\ \A k \in Instances : batch[k] = <<>>

LEMMA WriteFits == ASSUME ReaderFits, NEW k \in Instances, Write(k) PROVE ReaderFits'
<1> DEFINE n == written + 1
           all == Append(unread[k], n)
           new == IF Len(all) > Depth THEN Tail(all) ELSE all
<1>0. /\ written' = n /\ n \in Nat /\ written \in Nat
      /\ UNCHANGED <<use, filtered, asked, batch, pushing, ring, backed, answers>>
  <2>1. /\ written' = n
        /\ UNCHANGED <<use, filtered, asked, batch, pushing, ring, backed, answers>>
    BY DEF Write, useVars, bufferVars
  <2>2. written \in Nat
    BY DEF ReaderFits, ReaderTypes
  <2>3. n \in Nat
    BY <2>2
  <2> HIDE DEF n
  <2> QED
    BY <2>1, <2>2, <2>3
<1>1. /\ unread' = [unread EXCEPT ![k] = new]
      /\ \/ new = all /\ overrun' = overrun
         \/ new = Tail(all) /\ overrun' = overrun \cup {Head(all)}
  <2>1. IF Len(all) > Depth
        THEN /\ unread' = [unread EXCEPT ![k] = Tail(all)]
             /\ overrun' = overrun \cup {Head(all)}
        ELSE /\ unread' = [unread EXCEPT ![k] = all]
             /\ UNCHANGED overrun
    BY <1>0 DEF Write
  <2> HIDE DEF all
  <2> QED
    BY <2>1
<1>2. unread[k] \in Seq(Nat) /\ Rising(unread[k]) /\ \A m \in Values(unread[k]) : m \in 1 .. written
  BY DEF ReaderFits, ReaderTypes, InLine
<1>3. /\ all \in Seq(Nat) /\ Rising(all) /\ all # <<>>
      /\ Values(all) = Values(unread[k]) \cup {n}
  <2>1. \A m \in Values(unread[k]) : m < n
    BY <1>0, <1>1, <1>2
  <2> QED
    BY <1>0, <1>1, <1>2, <2>1, NumbersAppend
<1> HIDE DEF all
<1>4. /\ new \in Seq(Nat) /\ Rising(new) /\ Values(new) \subseteq Values(all)
      /\ \A m \in Values(all) : m \in Values(new) \/ m = Head(all)
  BY <1>3, NumbersTail
<1>5. \A m \in Values(all) : m \in Values(new) \/ m \in overrun'
  <2>1. CASE new = all
    BY <2>1
  <2>2. CASE overrun' = overrun \cup {Head(all)}
    BY <2>2, <1>4
  <2> HIDE DEF new
  <2> QED
    BY <1>0, <1>1, <2>1, <2>2
<1> HIDE DEF new
<1>6. /\ unread' \in [Instances -> Seq(Nat)] /\ unread'[k] = new
      /\ \A l \in Instances : l # k => unread'[l] = unread[l]
  BY <1>0, <1>1, <1>4 DEF ReaderFits, ReaderTypes
<1>7. \A l \in Instances : \A m \in Values(unread'[l]) :
          m \in Values(unread[l]) \/ m = n
  BY <1>3, <1>4, <1>6
<1>8. \A l \in Instances : Rising(unread'[l])
  BY <1>4, <1>6 DEF ReaderFits, InLine
<1>9. InLine'
  <2> SUFFICES ASSUME NEW l \in Instances
      PROVE  /\ Rising(answers'[l].data) /\ Rising(unread'[l])
             /\ \A m \in Values(unread'[l]) : m \in 1 .. written'
             /\ \A d \in Values(answers'[l].data) : d \in 1 .. written'
             /\ \A e \in HeldBy(l)' : e.n <= written'
             /\ \A d \in Values(answers'[l].data), e \in HeldBy(l)' :
                    e.key = l /\ e.n # 0 => d < e.n
             /\ \A d \in Values(answers'[l].data), m \in Values(unread'[l]) : d < m
             /\ \A e \in HeldBy(l)', m \in Values(unread'[l]) : e.key = l => e.n < m
             /\ Lined(batch'[l]) /\ \A e \in Values(batch'[l]) : e.key = l
             /\ \A e \in Values(ring') \cup backed', f \in Values(batch'[l]) : Before(e, f)
    BY DEF InLine, Values, Rising, Lined, HeldBy
  <2>0. HeldBy(l)' = HeldBy(l)
    BY <1>0 DEF HeldBy, Values
  <2>9. /\ Rising(answers[l].data)
        /\ \A d \in Values(answers[l].data), e \in HeldBy(l) : e.key = l /\ e.n # 0 => d < e.n
        /\ Lined(batch[l]) /\ \A e \in Values(batch[l]) : e.key = l
        /\ \A e \in Values(ring) \cup backed, f \in Values(batch[l]) : Before(e, f)
    BY DEF ReaderFits, InLine
  <2>1. \A e \in HeldBy(l) : e.n <= written /\ e.n \in Nat
    <3>1. HeldBy(l) \subseteq Stamps
      <4>1. batch[l] \in Seq(Stamps) /\ ring \in Seq(Stamps) /\ backed \subseteq Stamps
        BY DEF ReaderFits, ReaderTypes
      <4> HIDE DEF Stamps
      <4>2. \A q \in Seq(Stamps) : Values(q) \subseteq Stamps
        BY DEF Values
      <4> QED
        BY <4>1, <4>2 DEF HeldBy
    <3>2. \A e \in Stamps : e.n \in Nat
      BY DEF Stamps
    <3> QED
      BY <3>1, <3>2 DEF ReaderFits, InLine
  <2>2. \A d \in Values(answers[l].data) : d \in 1 .. written
    BY DEF ReaderFits, InLine
  <2>3. \A m \in Values(unread[l]) : m \in 1 .. written
    BY DEF ReaderFits, InLine
  <2>4. /\ \A d \in Values(answers[l].data), m \in Values(unread[l]) : d < m
        /\ \A e \in HeldBy(l), m \in Values(unread[l]) : e.key = l => e.n < m
    BY DEF ReaderFits, InLine
  <2>5. \A d \in Values(answers[l].data) : d < n
    BY <1>0, <1>1, <2>2
  <2>6. \A e \in HeldBy(l) : e.n < n
    BY <1>0, <1>1, <2>1
  <2>7. \A m \in Values(unread'[l]) : m \in 1 .. n
    BY <1>0, <1>1, <1>7, <2>3
  <2>8. (\A d \in Values(answers[l].data) : d \in 1 .. n) /\ \A e \in HeldBy(l) : e.n <= n
    BY <1>0, <1>1, <2>1, <2>2
  <2>10. /\ \A d \in Values(answers[l].data), m \in Values(unread'[l]) : d < m
         /\ \A e \in HeldBy(l), m \in Values(unread'[l]) : e.key = l => e.n < m
    BY <1>7, <2>4, <2>5, <2>6
  <2> QED
    BY <1>0, <1>8, <2>0, <2>7, <2>8, <2>9, <2>10
<1>10. NothingSkipped'
  <2> SUFFICES ASSUME use = "read"
      PROVE  LET given == UNION {Delivered(l) : l \in Instances}
                 kept == UNION {{unread'[l][i] : i \in DOMAIN unread'[l]} : l \in Instances}
             IN  /\ \A m \in 1 .. n : Passes(m) => m \in given \cup kept \cup overrun'
                 /\ \A m \in given : Passes(m)
    BY <1>0, <1>1 DEF NothingSkipped, Delivered, Passes
  <2> DEFINE given == UNION {Delivered(l) : l \in Instances}
             kept == UNION {{unread[l][i] : i \in DOMAIN unread[l]} : l \in Instances}
             keeps == UNION {{unread'[l][i] : i \in DOMAIN unread'[l]} : l \in Instances}
  <2>1. /\ \A m \in 1 .. written : Passes(m) => m \in given \cup kept \cup overrun
        /\ \A m \in given : Passes(m)
    BY DEF ReaderFits, NothingSkipped
  <2>2. overrun \subseteq overrun'
    BY <1>0, <1>1
  <2>3. \A m \in kept : m \in keeps \cup overrun'
    <3> SUFFICES ASSUME NEW l \in Instances, NEW m \in Values(unread[l])
                 PROVE  m \in overrun' \/ \E j \in Instances : m \in Values(unread'[j])
      BY DEF Values
    <3>1. CASE l = k
      BY <3>1, <1>3, <1>5, <1>6
    <3>2. CASE l # k
      BY <3>2, <1>6
    <3> QED
      BY <3>1, <3>2
  <2>4. n \in keeps \cup overrun'
    <3>1. n \in Values(unread'[k]) \/ n \in overrun'
      BY <1>3, <1>5, <1>6
    <3> QED
      BY <3>1 DEF Values
  <2>5. \A m \in 1 .. n : m \in 1 .. written \/ m = n
    BY <1>0, <1>1
  <2> QED
    BY <2>1, <2>2, <2>3, <2>4, <2>5
<1>11. Asking'
  <2>1. keyOnly' \in [Instances -> BOOLEAN]
    BY DEF Write, ReaderFits, ReaderTypes
  <2> QED
    BY <1>0, <1>1, <2>1 DEF ReaderFits, ReaderTypes, Asking, Buffered
<1>12. ReaderTypes'
  BY <1>0, <1>1, <1>6, <1>11, Zenon DEF ReaderFits, ReaderTypes, Asking
<1> QED
  BY <1>0, <1>1, <1>9, <1>10, <1>12 DEF ReaderFits, Lined

\* A step that leaves the data where it is.
LEMMA StillFits ==
    ASSUME ReaderFits, Asking',
           UNCHANGED <<use, filtered, written, unread, overrun, batch, ring, backed, answers>>
    PROVE  ReaderFits'
<1>1. /\ use' = use /\ filtered' = filtered /\ written' = written /\ unread' = unread
      /\ overrun' = overrun /\ batch' = batch /\ ring' = ring /\ backed' = backed
      /\ answers' = answers
  OBVIOUS
<1>2. ReaderTypes'
  BY <1>1, Zenon DEF ReaderFits, ReaderTypes, Asking
<1>3. InLine' /\ Lined(ring)'
  BY <1>1 DEF ReaderFits, InLine, Lined, Values, Rising, HeldBy
<1>4. NothingSkipped'
  BY <1>1 DEF ReaderFits, NothingSkipped, Delivered, Passes
<1> QED
  BY <1>2, <1>3, <1>4 DEF ReaderFits

LEMMA EndsFits ==
    ASSUME ReaderFits, NEW k \in Instances, NEW s, Ends(k, s)
    PROVE  ReaderFits'
<1>1. UNCHANGED <<use, filtered, written, unread, overrun, batch, ring, backed, answers,
                  asked, pushing>>
  BY DEF Ends, useVars, bufferVars
<1>2. keyOnly' \in [Instances -> BOOLEAN]
  BY Zenon DEF Ends, ReaderFits, ReaderTypes
<1>3. Asking'
  BY <1>1, <1>2 DEF Asking, ReaderFits, ReaderTypes, Buffered
<1> QED
  BY <1>1, <1>3, StillFits

LEMMA AskingFits ==
    ASSUME ReaderFits, (\E what : Ask(what)) \/ NoData \/ ReadFails
    PROVE  ReaderFits'
<1>1. UNCHANGED <<use, filtered, written, unread, overrun, batch, ring, backed, answers,
                  keyOnly, pushing>>
  BY DEF Ask, NoData, ReadFails, useVars, ddsVars, bufferVars
<1>2. use = "read" \/ asked' = "no"
  BY DEF Ask, NoData, ReadFails
<1>3. Asking'
  BY <1>1, <1>2 DEF Asking, ReaderFits, ReaderTypes, Buffered
<1> QED
  BY <1>1, <1>3, StillFits

\* A CycloneReader holds nothing of its own.
LEMMA NothingHeld ==
    ASSUME ReaderTypes, ~Buffered
    PROVE  ring = <<>> /\ backed = {} /\ \A k \in Instances : batch[k] = <<>> /\ HeldBy(k) = {}
  BY NoValues DEF ReaderTypes, HeldBy

\* A loop that runs is that of a CycloneReader.
LEMMA AskedIsRead ==
    ASSUME ReaderTypes, NEW k \in AskedFor
    PROVE  use = "read" /\ k \in Instances /\ asked # "no"
<1>1. k \in Instances /\ asked # "no"
  BY ReaderAssumption DEF AskedFor
<1> QED
  BY <1>1 DEF ReaderTypes

LEMMA TakeDataFits == ASSUME ReaderFits, TakeData PROVE ReaderFits'
<1>0. PICK k \in AskedFor :
          /\ unread[k] # <<>>
          /\ unread' = Taken(unread, k)
          /\ IF Passes(Head(unread[k]))
             THEN Given(Envelope(k, "SUCCESS", Head(unread[k]))) /\ asked' = "no"
             ELSE UNCHANGED <<answers, asked>>
          /\ UNCHANGED <<useVars, written, keyOnly, state, overrun, fresh, bufferVars>>
  BY DEF TakeData
<1> DEFINE n == Head(unread[k])
           e == Envelope(k, "SUCCESS", IF Passes(n) THEN n ELSE 0)
<1>1. /\ use' = use /\ filtered' = filtered /\ written' = written /\ overrun' = overrun
      /\ batch' = batch /\ ring' = ring /\ backed' = backed /\ keyOnly' = keyOnly
      /\ pushing' = pushing
  BY <1>0 DEF useVars, bufferVars
<1>2. /\ ReaderTypes /\ InLine /\ use = "read" /\ k \in Instances
      /\ ring = <<>> /\ backed = {}
      /\ \A l \in Instances : batch[l] = <<>> /\ HeldBy(l) = {}
  BY AskedIsRead, NothingHeld DEF ReaderFits, Buffered
<1>3. unread[k] \in Seq(Nat) /\ Rising(unread[k]) /\ unread[k] # <<>>
  BY <1>0, <1>2 DEF ReaderTypes, InLine
<1>4. /\ Tail(unread[k]) \in Seq(Nat) /\ Rising(Tail(unread[k])) /\ n \in Nat
      /\ Values(unread[k]) = {n} \cup Values(Tail(unread[k]))
      /\ \A m \in Values(Tail(unread[k])) : n < m
  BY <1>3, NumbersTail
<1>5. /\ unread' \in [Instances -> Seq(Nat)] /\ unread'[k] = Tail(unread[k])
      /\ \A l \in Instances : l # k => unread'[l] = unread[l]
  <2>1. unread' = [unread EXCEPT ![k] = Tail(unread[k])]
    BY <1>0, <1>2 DEF Taken, ReaderTypes
  <2> QED
    BY <2>1, <1>2, <1>4 DEF ReaderTypes
<1>6. n \in 1 .. written /\ written \in Nat /\ \A d \in Values(answers[k].data) : d < n
  BY <1>2, <1>4 DEF InLine, ReaderTypes
<1>7. n # 0 /\ n <= written
  BY <1>6
<1> HIDE DEF n
<1>8. /\ e \in Stamps /\ e.key = k /\ e.n \in {0, n}
      /\ e.n = IF Passes(n) THEN n ELSE 0
  BY <1>2, <1>4 DEF Stamps, Envelope
<1> HIDE DEF e
<1>9. \A l \in Instances :
          /\ Values(unread'[l]) \subseteq Values(unread[l]) /\ Rising(unread'[l])
  BY <1>2, <1>4, <1>5 DEF InLine
<1>10. /\ answers' \in [Instances -> [status : {"none", "SUCCESS", "DISPOSED", "INVALID_DATA"},
                                     data : Seq(Nat)]]
       /\ \A l \in Instances : Rising(answers'[l].data)
       /\ \A l \in Instances : \A d \in Values(answers'[l].data) :
              d \in Values(answers[l].data) \/ (l = e.key /\ d = e.n /\ e.n # 0)
       /\ \A l \in Instances : \A d \in Values(answers[l].data) : d \in Values(answers'[l].data)
       /\ Passes(n) => n \in Values(answers'[k].data)
  <2>1. CASE Passes(n)
    <3>1. Given(e) /\ e.n = n
      BY <2>1, <1>0, <1>8 DEF e, n
    <3>2. \A d \in Values(answers[e.key].data) : e.n # 0 => d < e.n
      BY <3>1, <1>6, <1>8
    <3>3. /\ answers' \in [Instances -> [status : {"none", "SUCCESS", "DISPOSED", "INVALID_DATA"},
                                         data : Seq(Nat)]]
          /\ \A l \in Instances : Rising(answers'[l].data)
          /\ \A l \in Instances : \A d \in Values(answers'[l].data) :
                 d \in Values(answers[l].data) \/ (l = e.key /\ d = e.n /\ e.n # 0)
          /\ \A l \in Instances : \A d \in Values(answers[l].data) : d \in Values(answers'[l].data)
          /\ e.n # 0 => e.n \in Values(answers'[e.key].data)
      BY <1>2, <1>8, <3>1, <3>2, GivenFacts
    <3> QED
      BY <3>1, <3>3, <1>7, <1>8
  <2>2. CASE ~Passes(n)
    <3>1. answers' = answers
      BY <2>2, <1>0 DEF n
    <3> QED
      BY <3>1, <2>2, <1>2 DEF ReaderTypes, InLine
  <2> QED
    BY <2>1, <2>2
<1>11. InLine'
  <2>1. Values(ring') \cup backed' \subseteq Values(ring) \cup backed
    BY <1>1
  <2>2. \A l \in Instances :
           /\ Values(batch'[l]) \subseteq Values(batch[l]) /\ Lined(batch'[l])
           /\ Values(unread'[l]) \subseteq Values(unread[l]) /\ Rising(unread'[l])
    BY <1>1, <1>2, <1>9, NoValues
  <2>3. e.n # 0 =>
            /\ e.n <= written
            /\ \A f \in Values(ring') \cup backed' \cup Values(batch'[e.key]) :
                   f.key = e.key /\ f.n # 0 => e.n < f.n
            /\ \A m \in Values(unread'[e.key]) : e.n < m
    BY <1>1, <1>2, <1>4, <1>5, <1>7, <1>8, NoValues
  <2> QED
    BY <1>1, <1>2, <1>8, <1>10, <2>1, <2>2, <2>3, InLineStep
<1>12. NothingSkipped'
  <2>1. \A l \in Instances : Delivered(l) = Values(answers[l].data)
                             /\ Delivered(l)' = Values(answers'[l].data)
    BY DEF Delivered, Values
  <2>2. /\ \A m \in 1 .. written : Passes(m) =>
               \/ \E l \in Instances : m \in Values(answers[l].data) \cup Values(unread[l])
               \/ m \in overrun
        /\ \A l \in Instances : \A m \in Values(answers[l].data) : Passes(m)
    BY <1>2, <2>1 DEF ReaderFits, NothingSkipped, Values
  <2>3. \A m \in 1 .. written : Passes(m) =>
               \/ \E l \in Instances : m \in Values(answers'[l].data) \cup Values(unread'[l])
               \/ m \in overrun
    <3> SUFFICES ASSUME NEW m \in 1 .. written, Passes(m), m \notin overrun
                 PROVE  \E l \in Instances : m \in Values(answers'[l].data) \cup Values(unread'[l])
      OBVIOUS
    <3>1. PICK l \in Instances : m \in Values(answers[l].data) \cup Values(unread[l])
      BY <2>2
    <3>2. CASE m \in Values(answers[l].data)
      BY <3>2, <1>10
    <3>3. CASE m \in Values(unread[l]) /\ l # k
      BY <3>3, <1>5
    <3>4. CASE m \in Values(unread[l]) /\ l = k
      BY <3>4, <1>2, <1>4, <1>5, <1>10
    <3> QED
      BY <3>1, <3>2, <3>3, <3>4
  <2>4. \A l \in Instances : \A m \in Values(answers'[l].data) : Passes(m)
    BY ZenonT(60), <1>7, <1>8, <1>10, <2>2
  <2>5. \A m : Passes(m)' <=> Passes(m)
    BY <1>1 DEF Passes
  <2> QED
    BY <1>1, <2>1, <2>3, <2>4, <2>5 DEF NothingSkipped, Values
<1>13. Asking'
  BY <1>1, <1>2 DEF Asking, ReaderTypes, Buffered
<1>14. ReaderTypes'
  BY <1>1, <1>2, <1>5, <1>10, <1>13, Zenon DEF ReaderTypes, Asking
<1> QED
  BY <1>1, <1>11, <1>12, <1>14 DEF ReaderFits, Lined

\* A key-only sample: an answer without data.
LEMMA TakeKeyFits == ASSUME ReaderFits, TakeKey PROVE ReaderFits'
<1>0. PICK k \in AskedFor :
          /\ keyOnly' = [keyOnly EXCEPT ![k] = FALSE]
          /\ Given(Envelope(k, IF state[k] = "disposed" \/ asked # "any"
                               THEN "DISPOSED" ELSE "SUCCESS", 0))
          /\ asked' = "no"
          /\ UNCHANGED <<useVars, written, unread, state, overrun, fresh, bufferVars>>
  BY DEF TakeKey
<1> DEFINE e == Envelope(k, IF state[k] = "disposed" \/ asked # "any"
                            THEN "DISPOSED" ELSE "SUCCESS", 0)
<1>1. /\ use' = use /\ filtered' = filtered /\ written' = written /\ overrun' = overrun
      /\ batch' = batch /\ ring' = ring /\ backed' = backed /\ unread' = unread
      /\ pushing' = pushing /\ asked' = "no"
  BY <1>0 DEF useVars, bufferVars
<1>2. ReaderTypes /\ InLine /\ use = "read" /\ k \in Instances
  BY AskedIsRead DEF ReaderFits
<1>3. Given(e) /\ e \in Stamps /\ e.n = 0
  BY <1>0, <1>2 DEF Stamps, Envelope
<1> HIDE DEF e
<1>4. /\ answers' \in [Instances -> [status : {"none", "SUCCESS", "DISPOSED", "INVALID_DATA"},
                                     data : Seq(Nat)]]
      /\ \A l \in Instances : Rising(answers'[l].data)
      /\ \A l \in Instances : \A d \in Values(answers'[l].data) :
             d \in Values(answers[l].data) \/ (l = e.key /\ d = e.n /\ e.n # 0)
      /\ \A l \in Instances : \A d \in Values(answers[l].data) : d \in Values(answers'[l].data)
  BY <1>2, <1>3, GivenFacts
<1>5. InLine'
  <2>1. Values(ring') \cup backed' \subseteq Values(ring) \cup backed
    BY <1>1
  <2>2. \A l \in Instances :
           /\ Values(batch'[l]) \subseteq Values(batch[l]) /\ Lined(batch'[l])
           /\ Values(unread'[l]) \subseteq Values(unread[l]) /\ Rising(unread'[l])
    BY <1>1, <1>2 DEF InLine
  <2> QED
    BY <1>1, <1>2, <1>3, <1>4, <2>1, <2>2, InLineStep
<1>6. NothingSkipped'
  <2>1. \A l \in Instances : Values(answers'[l].data) = Values(answers[l].data)
    BY <1>3, <1>4
  <2>2. \A l \in Instances : Delivered(l)' = Delivered(l)
    BY <2>1 DEF Delivered, Values
  <2> QED
    BY <1>1, <2>2 DEF ReaderFits, NothingSkipped, Passes
<1>7. keyOnly' \in [Instances -> BOOLEAN]
  BY <1>0, <1>2, Zenon DEF ReaderTypes
<1>8. Asking'
  BY <1>1, <1>2, <1>7 DEF Asking, ReaderTypes, Buffered
<1>9. ReaderTypes'
  BY <1>1, <1>2, <1>4, <1>8, Zenon DEF ReaderTypes, Asking
<1> QED
  BY <1>1, <1>5, <1>6, <1>9 DEF ReaderFits, Lined

\* The newest sample that passes is one of the unread ones.
LEMMA NewestIsUnread ==
    ASSUME ReaderTypes, NEW k \in Instances
    PROVE  Newest(k) = 0 \/ Newest(k) \in Values(unread[k])
<1> SUFFICES ASSUME Candidates(k) # {}
             PROVE  LET i == CHOOSE i \in Candidates(k) : \A j \in Candidates(k) : i >= j
                    IN  i \in DOMAIN unread[k]
  BY DEF Newest, Values
<1>1. unread[k] \in Seq(Nat)
  BY DEF ReaderTypes
<1>2. Len(unread[k]) \in Nat /\ DOMAIN unread[k] = 1 .. Len(unread[k])
  BY <1>1
<1>3. Candidates(k) \subseteq 1 .. Len(unread[k])
  BY <1>2 DEF Candidates
<1>4. \E x \in Candidates(k) : \A y \in Candidates(k) : y <= x
  BY <1>2, <1>3, GreatestIndex
<1>5. \E x \in Candidates(k) : \A y \in Candidates(k) : x >= y
  BY <1>2, <1>3, <1>4
<1> QED
  BY <1>2, <1>3, <1>5

LEMMA ReadLatestFits == ASSUME ReaderFits, ReadLatest PROVE ReaderFits'
<1>1. /\ use' = use /\ filtered' = filtered /\ written' = written /\ overrun' = overrun
      /\ batch' = batch /\ ring' = ring /\ backed' = backed /\ asked' = asked
      /\ pushing' = pushing
      /\ unread' = [k \in Instances |-> <<>>] /\ keyOnly' = [k \in Instances |-> FALSE]
  BY DEF ReadLatest, Emptied, useVars, bufferVars
<1>2. /\ ReaderTypes /\ InLine /\ use = "latest" /\ ring = <<>> /\ backed = {}
      /\ \A l \in Instances : batch[l] = <<>> /\ HeldBy(l) = {}
  <2>1. use = "latest"
    BY DEF ReadLatest
  <2> QED
    BY <2>1, NothingHeld DEF ReaderFits, Buffered
<1>3. PICK k \in Instances :
          \/ UNCHANGED answers
          \/ Given(IF state[k] = "alive" THEN Envelope(k, "SUCCESS", Newest(k))
                   ELSE IF state[k] = "disposed" THEN Envelope(k, "DISPOSED", 0)
                   ELSE Envelope(k, "INVALID_DATA", 0))
  BY DEF ReadLatest
<1>4. Newest(k) = 0 \/ Newest(k) \in Values(unread[k])
  BY <1>2, NewestIsUnread
<1>5. unread[k] \in Seq(Nat) /\ \A n \in Values(unread[k]) : n \in 1 .. written
  BY <1>2 DEF ReaderTypes, InLine
<1>6. Newest(k) \in Nat
  BY <1>4, <1>5
<1>7. \E e \in Stamps : e.key = k /\ e.n \in {0, Newest(k)} /\ (Given(e) \/ (e.n = 0 /\ UNCHANGED answers))
  <2>1. CASE UNCHANGED answers
    <3>1. Envelope(k, "SUCCESS", 0) \in Stamps
      BY DEF Stamps, Envelope
    <3> QED
      BY <3>1, <2>1 DEF Envelope
  <2>2. CASE ~ UNCHANGED answers
    <3> DEFINE e == IF state[k] = "alive" THEN Envelope(k, "SUCCESS", Newest(k))
                    ELSE IF state[k] = "disposed" THEN Envelope(k, "DISPOSED", 0)
                    ELSE Envelope(k, "INVALID_DATA", 0)
    <3>1. e \in Stamps /\ e.key = k /\ e.n \in {0, Newest(k)}
      BY <1>6 DEF Stamps, Envelope
    <3>2. Given(e)
      BY <1>3, <2>2
    <3> QED
      BY <3>1, <3>2
  <2> QED
    BY <2>1, <2>2
<1>8. PICK e \in Stamps :
          e.key = k /\ e.n \in {0, Newest(k)} /\ (Given(e) \/ (e.n = 0 /\ UNCHANGED answers))
  BY <1>7
<1>9. e.n # 0 => e.n \in Values(unread[k])
  BY <1>4, <1>8
<1>10. e.n # 0 => e.n <= written /\ \A d \in Values(answers[k].data) : d < e.n
  BY <1>2, <1>9 DEF InLine
<1>11. /\ answers' \in [Instances -> [status : {"none", "SUCCESS", "DISPOSED", "INVALID_DATA"},
                                     data : Seq(Nat)]]
       /\ \A l \in Instances : Rising(answers'[l].data)
       /\ \A l \in Instances : \A d \in Values(answers'[l].data) :
              d \in Values(answers[l].data) \/ (l = e.key /\ d = e.n /\ e.n # 0)
  <2>1. CASE Given(e)
    BY <2>1, <1>2, <1>8, <1>10, GivenFacts
  <2>2. CASE UNCHANGED answers
    BY <2>2, <1>2 DEF ReaderTypes, InLine
  <2> QED
    BY <1>8, <2>1, <2>2
<1>12. \A l \in Instances : Values(unread'[l]) = {} /\ Rising(unread'[l])
  BY <1>1, NoValues
<1>13. InLine'
  <2>1. Values(ring') \cup backed' \subseteq Values(ring) \cup backed
    BY <1>1
  <2>2. \A l \in Instances :
           /\ Values(batch'[l]) \subseteq Values(batch[l]) /\ Lined(batch'[l])
           /\ Values(unread'[l]) \subseteq Values(unread[l]) /\ Rising(unread'[l])
    BY <1>1, <1>2, <1>12, NoValues
  <2>3. e.n # 0 =>
            /\ e.n <= written
            /\ \A f \in Values(ring') \cup backed' \cup Values(batch'[e.key]) :
                   f.key = e.key /\ f.n # 0 => e.n < f.n
            /\ \A m \in Values(unread'[e.key]) : e.n < m
    BY <1>1, <1>2, <1>8, <1>10, <1>12, NoValues
  <2> QED
    BY <1>1, <1>2, <1>11, <2>1, <2>2, <2>3, InLineStep
<1>14. NothingSkipped'
  BY <1>1, <1>2 DEF NothingSkipped
<1>15. unread' \in [Instances -> Seq(Nat)] /\ keyOnly' \in [Instances -> BOOLEAN]
  BY <1>1
<1>16. Asking'
  BY <1>1, <1>2, <1>15 DEF Asking, ReaderTypes, Buffered
<1>17. ReaderTypes'
  BY <1>1, <1>2, <1>11, <1>15, <1>16, Zenon DEF ReaderTypes, Asking
<1> QED
  BY <1>1, <1>13, <1>14, <1>17 DEF ReaderFits, Lined

\* What the reader's thread makes of the samples of an instance, in their order.
LEMMA EnvelopesFit ==
    ASSUME ReaderTypes, InLine, NEW k \in Instances
    PROVE  /\ Envelopes(k) \in Seq(Stamps) /\ Lined(Envelopes(k))
           /\ \A e \in Values(Envelopes(k)) :
                  e.key = k /\ (e.n = 0 \/ e.n \in Values(unread[k]))
<1> DEFINE q == unread[k]
           from(i) == IF state[k] = "disposed" THEN Envelope(k, "DISPOSED", 0)
                      ELSE Envelope(k, "SUCCESS", q[i])
           body == [i \in DOMAIN q |-> from(i)]
           last == Envelope(k, IF state[k] = "disposed" THEN "DISPOSED" ELSE "INVALID_DATA", 0)
           tail == IF keyOnly[k] THEN <<last>> ELSE <<>>
           all == body \o tail
<1>1. q \in Seq(Nat) /\ Len(q) \in Nat /\ DOMAIN q = 1 .. Len(q)
  <2>1. unread[k] \in Seq(Nat)
    BY DEF ReaderTypes
  <2> QED
    BY <2>1
<1>2. \A i, j \in DOMAIN q : i < j => q[i] < q[j]
  BY DEF InLine, Rising
<1>3. \A i \in DOMAIN q : from(i) \in Stamps /\ from(i).key = k /\ from(i).n \in {0, q[i]}
  BY <1>1 DEF Stamps, Envelope
<1>4. \A i, j \in DOMAIN q : i < j => Before(from(i), from(j))
  <2> SUFFICES ASSUME NEW i \in DOMAIN q, NEW j \in DOMAIN q, i < j
               PROVE  Before(from(i), from(j))
    OBVIOUS
  <2> HIDE DEF from
  <2> QED
    BY <1>2, <1>3 DEF Before
<1>5. last \in Stamps /\ last.key = k /\ last.n = 0
  BY DEF Stamps, Envelope
<1> HIDE DEF Stamps, from, last, q
<1>6. body \in Seq(Stamps) /\ Len(body) = Len(q) /\ DOMAIN body = DOMAIN q
      /\ \A i \in DOMAIN q : body[i] = from(i)
  BY <1>1, <1>3
<1> HIDE DEF body
<1>7. CASE ~keyOnly[k]
  <2>1. all = body
    BY <1>6, <1>7
  <2>2. Envelopes(k) = body
    BY <2>1 DEF Envelopes, all, tail, body, from, last, q
  <2>3. Lined(body)
    BY <1>4, <1>6 DEF Lined
  <2>4. \A e \in Values(body) : e.key = k /\ (e.n = 0 \/ e.n \in Values(unread[k]))
    BY <1>3, <1>6 DEF Values, q
  <2> QED
    BY <1>6, <2>2, <2>3, <2>4
<1>8. CASE keyOnly[k]
  <2>1. Envelopes(k) = body \o <<last>>
    BY <1>8 DEF Envelopes, body, from, last, q
  <2>2. body \o <<last>> = Append(body, last)
    BY <1>5, <1>6
  <2>3. Lined(body)
    BY <1>4, <1>6 DEF Lined
  <2>4. \A f \in Values(body) : Before(f, last)
    BY <1>5 DEF Before
  <2>5. /\ Append(body, last) \in Seq(Stamps) /\ Lined(Append(body, last))
        /\ Values(Append(body, last)) = Values(body) \cup {last}
    BY <1>5, <1>6, <2>3, <2>4, LinedAppend
  <2>6. \A e \in Values(body) : e.key = k /\ (e.n = 0 \/ e.n \in Values(unread[k]))
    BY <1>3, <1>6 DEF Values, q
  <2>7. \A e \in Values(body) \cup {last} :
            e.key = k /\ (e.n = 0 \/ e.n \in Values(unread[k]))
    BY <1>5, <2>6
  <2>8. Envelopes(k) = Append(body, last)
    BY <2>1, <2>2
  <2> QED
    BY <2>5, <2>7, <2>8
<1> QED
  BY <1>7, <1>8

LEMMA TakeBatchFits == ASSUME ReaderFits, TakeBatch PROVE ReaderFits'
<1>1. /\ use' = use /\ filtered' = filtered /\ written' = written /\ overrun' = overrun
      /\ ring' = ring /\ backed' = backed /\ asked' = asked /\ answers' = answers
      /\ pushing' = pushing /\ Buffered /\ \A l \in Instances : batch[l] = <<>>
      /\ batch' = [k \in Instances |-> Envelopes(k)]
      /\ unread' = [k \in Instances |-> <<>>] /\ keyOnly' = [k \in Instances |-> FALSE]
  BY DEF TakeBatch, useVars
<1>2. ReaderTypes /\ InLine /\ use # "read"
  BY <1>1 DEF ReaderFits, Buffered
<1>3. \A k \in Instances :
          /\ Envelopes(k) \in Seq(Stamps) /\ Lined(Envelopes(k))
          /\ \A e \in Values(Envelopes(k)) :
                 e.key = k /\ (e.n = 0 \/ e.n \in Values(unread[k]))
  BY <1>2, EnvelopesFit
<1>4. \A k \in Instances : batch'[k] = Envelopes(k) /\ unread'[k] = <<>>
  BY <1>1
<1>5. InLine'
  <2> SUFFICES ASSUME NEW k \in Instances
      PROVE  /\ Rising(answers'[k].data) /\ Rising(unread'[k])
             /\ \A n \in Values(unread'[k]) : n \in 1 .. written'
             /\ \A d \in Values(answers'[k].data) : d \in 1 .. written'
             /\ \A f \in HeldBy(k)' : f.n <= written'
             /\ \A d \in Values(answers'[k].data), f \in HeldBy(k)' :
                    f.key = k /\ f.n # 0 => d < f.n
             /\ \A d \in Values(answers'[k].data), n \in Values(unread'[k]) : d < n
             /\ \A f \in HeldBy(k)', n \in Values(unread'[k]) : f.key = k => f.n < n
             /\ Lined(batch'[k]) /\ \A f \in Values(batch'[k]) : f.key = k
             /\ \A f \in Values(ring') \cup backed', g \in Values(batch'[k]) : Before(f, g)
    BY DEF InLine, Values, Rising, Lined, HeldBy
  <2>1. HeldBy(k)' = Values(ring) \cup backed \cup Values(Envelopes(k))
    BY <1>1, <1>4 DEF HeldBy, Values
  <2>2. Values(ring) \cup backed \subseteq HeldBy(k)
    BY DEF HeldBy
  <2>3. Values(unread'[k]) = {} /\ Rising(unread'[k])
    BY <1>4, NoValues
  <2>4. /\ Rising(answers[k].data)
        /\ \A d \in Values(answers[k].data) : d \in 1 .. written
        /\ \A n \in Values(unread[k]) : n \in 1 .. written
        /\ \A f \in HeldBy(k) : f.n <= written
        /\ \A d \in Values(answers[k].data), f \in HeldBy(k) : f.key = k /\ f.n # 0 => d < f.n
        /\ \A d \in Values(answers[k].data), n \in Values(unread[k]) : d < n
        /\ \A f \in HeldBy(k), n \in Values(unread[k]) : f.key = k => f.n < n
    BY <1>2 DEF InLine
  <2>5. written \in Nat
    BY <1>2 DEF ReaderTypes
  <2>6. \A f \in Values(Envelopes(k)) :
           /\ f.key = k /\ f.n <= written
           /\ \A d \in Values(answers[k].data) : f.n # 0 => d < f.n
           /\ \A g \in Values(ring) \cup backed : Before(g, f)
    <3> SUFFICES ASSUME NEW f \in Values(Envelopes(k))
                 PROVE  /\ f.key = k /\ f.n <= written
                        /\ \A d \in Values(answers[k].data) : f.n # 0 => d < f.n
                        /\ \A g \in Values(ring) \cup backed : Before(g, f)
      OBVIOUS
    <3>1. f.key = k /\ (f.n = 0 \/ f.n \in Values(unread[k]))
      BY <1>3
    <3>2. CASE f.n = 0
      BY <3>1, <3>2, <2>5 DEF Before
    <3>3. CASE f.n \in Values(unread[k])
      BY <3>1, <3>3, <2>2, <2>4, <2>5 DEF Before
    <3> QED
      BY <3>1, <3>2, <3>3
  <2>7. \A f \in HeldBy(k)' :
            f.n <= written /\ \A d \in Values(answers[k].data) : f.key = k /\ f.n # 0 => d < f.n
    BY <2>1, <2>2, <2>4, <2>6
  <2> QED
    BY <1>1, <1>3, <1>4, <2>3, <2>4, <2>6, <2>7
<1>6. batch' \in [Instances -> Seq(Stamps)] /\ unread' \in [Instances -> Seq(Nat)]
      /\ keyOnly' \in [Instances -> BOOLEAN]
  <2> HIDE DEF Stamps
  <2> QED
    BY <1>1, <1>3
<1>7. Asking'
  BY <1>1, <1>2, <1>6 DEF Asking, ReaderTypes, Buffered
<1>8. ReaderTypes'
  BY <1>1, <1>2, <1>6, <1>7, Zenon DEF ReaderTypes, Asking
<1>9. NothingSkipped'
  BY <1>1, <1>2 DEF NothingSkipped
<1> QED
  BY <1>1, <1>5, <1>8, <1>9 DEF ReaderFits, Lined

\* The ring buffer as a queue: an item is added, the oldest may be gone.
LEMMA PushedFits ==
    ASSUME ring \in Seq(Stamps), Lined(ring), NEW e \in Stamps,
           \A f \in Values(ring) : Before(f, e)
    PROVE  /\ Pushed(ring, e) \in Seq(Stamps) /\ Lined(Pushed(ring, e))
           /\ Values(Pushed(ring, e)) \subseteq Values(ring) \cup {e}
<1> DEFINE base == IF Len(ring) = BufferSize THEN Tail(ring) ELSE ring
<1>1. base \in Seq(Stamps) /\ Lined(base) /\ Values(base) \subseteq Values(ring)
  <2>1. CASE Len(ring) = BufferSize
    <3>1. BufferSize # 0
      BY ReaderAssumption
    <3>2. Len(<<>>) = 0
      OBVIOUS
    <3>3. ring # <<>>
      BY <2>1, <3>1, <3>2
    <3>4. Tail(ring) \in Seq(Stamps) /\ Lined(Tail(ring)) /\ Values(Tail(ring)) \subseteq Values(ring)
      BY <3>3, LinedTail
    <3> QED
      BY <2>1, <3>4
  <2>2. CASE Len(ring) # BufferSize
    BY <2>2
  <2> QED
    BY <2>1, <2>2
<1>2. Pushed(ring, e) = Append(base, e)
  BY DEF Pushed
<1> HIDE DEF base, Stamps
<1>3. \A f \in Values(base) : Before(f, e)
  BY <1>1
<1>4. /\ Append(base, e) \in Seq(Stamps) /\ Lined(Append(base, e))
      /\ Values(Append(base, e)) = Values(base) \cup {e}
  BY <1>1, <1>3, LinedAppend
<1> QED
  BY <1>1, <1>2, <1>4

LEMMA PushOneFits == ASSUME ReaderFits, PushOne PROVE ReaderFits'
<1>0. PICK k \in Instances :
          /\ batch[k] # <<>>
          /\ ring' = Pushed(ring, Head(batch[k]))
          /\ batch' = Taken(batch, k)
          /\ pushing' = k
  BY DEF PushOne
<1> DEFINE e == Head(batch[k])
<1>1. /\ use' = use /\ filtered' = filtered /\ written' = written /\ overrun' = overrun
      /\ backed' = backed /\ asked' = asked /\ answers' = answers /\ unread' = unread
      /\ keyOnly' = keyOnly
  BY DEF PushOne, useVars, ddsVars
<1>2. /\ ReaderTypes /\ InLine /\ Lined(ring) /\ Buffered /\ use # "read"
      /\ ring \in Seq(Stamps) /\ batch[k] \in Seq(Stamps) /\ Lined(batch[k])
  BY <1>0 DEF ReaderFits, ReaderTypes, InLine, Buffered
<1>3. /\ Tail(batch[k]) \in Seq(Stamps) /\ Lined(Tail(batch[k])) /\ e \in Stamps
      /\ Values(batch[k]) = {e} \cup Values(Tail(batch[k]))
      /\ \A f \in Values(Tail(batch[k])) : Before(e, f)
  BY <1>0, <1>2, LinedTail
<1> HIDE DEF e, Stamps
<1>4. e \in Values(batch[k]) /\ e.key = k /\ e \in HeldBy(k)
  BY <1>2, <1>3 DEF InLine, HeldBy
<1>5. \A f \in Values(ring) \cup backed : Before(f, e)
  BY <1>2, <1>4 DEF InLine
<1>6. ring' \in Seq(Stamps) /\ Lined(ring') /\ Values(ring') \subseteq Values(ring) \cup {e}
  <2>1. \A f \in Values(ring) : Before(f, e)
    BY <1>5
  <2>2. ring' = Pushed(ring, e)
    BY <1>0 DEF e
  <2> QED
    BY <1>2, <1>3, <2>1, <2>2, PushedFits
<1>7. /\ batch' \in [Instances -> Seq(Stamps)] /\ batch'[k] = Tail(batch[k])
      /\ \A l \in Instances : l # k => batch'[l] = batch[l]
  <2>1. batch' = [batch EXCEPT ![k] = Tail(batch[k])]
    BY <1>0, <1>2 DEF Taken, ReaderTypes
  <2> QED
    BY <2>1, <1>2, <1>3 DEF ReaderTypes
<1>8. InLine'
  <2> SUFFICES ASSUME NEW l \in Instances
      PROVE  /\ Rising(answers'[l].data) /\ Rising(unread'[l])
             /\ \A n \in Values(unread'[l]) : n \in 1 .. written'
             /\ \A d \in Values(answers'[l].data) : d \in 1 .. written'
             /\ \A f \in HeldBy(l)' : f.n <= written'
             /\ \A d \in Values(answers'[l].data), f \in HeldBy(l)' :
                    f.key = l /\ f.n # 0 => d < f.n
             /\ \A d \in Values(answers'[l].data), n \in Values(unread'[l]) : d < n
             /\ \A f \in HeldBy(l)', n \in Values(unread'[l]) : f.key = l => f.n < n
             /\ Lined(batch'[l]) /\ \A f \in Values(batch'[l]) : f.key = l
             /\ \A f \in Values(ring') \cup backed', g \in Values(batch'[l]) : Before(f, g)
    BY DEF InLine, Values, Rising, Lined, HeldBy
  <2>1. /\ Rising(answers[l].data) /\ Rising(unread[l])
        /\ \A n \in Values(unread[l]) : n \in 1 .. written
        /\ \A d \in Values(answers[l].data) : d \in 1 .. written
        /\ \A f \in HeldBy(l) : f.n <= written
        /\ \A d \in Values(answers[l].data), f \in HeldBy(l) : f.key = l /\ f.n # 0 => d < f.n
        /\ \A d \in Values(answers[l].data), n \in Values(unread[l]) : d < n
        /\ \A f \in HeldBy(l), n \in Values(unread[l]) : f.key = l => f.n < n
        /\ Lined(batch[l]) /\ \A f \in Values(batch[l]) : f.key = l
        /\ \A f \in Values(ring) \cup backed, g \in Values(batch[l]) : Before(f, g)
    BY <1>2 DEF InLine
  <2>2. Values(batch'[l]) \subseteq Values(batch[l]) /\ Lined(batch'[l])
    BY <1>3, <1>7, <2>1
  <2>3. \A f \in HeldBy(l)' : f \in HeldBy(l) \/ f = e
    BY <1>1, <1>6, <2>2 DEF HeldBy, Values
  <2>4. e.n <= written
    BY <1>2, <1>4 DEF InLine
  <2>5. e.key = l => e \in HeldBy(l)
    BY <1>4
  <2>6. \A g \in Values(batch'[l]) : Before(e, g)
    <3>1. CASE l = k
      BY <3>1, <1>3, <1>7
    <3>2. CASE l # k
      BY <3>2, <1>4, <2>1, <2>2 DEF Before
    <3> QED
      BY <3>1, <3>2
  <2>7. \A f \in HeldBy(l)' : /\ f.n <= written
                              /\ f.key = l => f \in HeldBy(l)
    BY <2>1, <2>3, <2>4, <2>5
  <2>8. \A f \in Values(ring') \cup backed', g \in Values(batch'[l]) : Before(f, g)
    BY <1>1, <1>6, <2>1, <2>2, <2>6
  <2> QED
    BY <1>1, <2>1, <2>2, <2>7, <2>8
<1>9. pushing' \in Instances
  BY <1>0
<1>10. Asking'
  BY <1>1, <1>2, <1>9 DEF Asking, ReaderTypes, Buffered
<1>11. ReaderTypes'
  BY <1>1, <1>2, <1>6, <1>7, <1>10, Zenon DEF ReaderTypes, Asking
<1>12. NothingSkipped'
  BY <1>1, <1>2 DEF NothingSkipped
<1> QED
  BY <1>6, <1>8, <1>11, <1>12 DEF ReaderFits, Lined

LEMMA BufferedReadFits == ASSUME ReaderFits, BufferedRead PROVE ReaderFits'
<1> DEFINE e == Head(ring)
<1>1. /\ use' = use /\ filtered' = filtered /\ written' = written /\ overrun' = overrun
      /\ backed' = backed /\ asked' = asked /\ unread' = unread
      /\ keyOnly' = keyOnly /\ batch' = batch /\ pushing' = pushing
      /\ use = "buffered" /\ ring # <<>> /\ ring' = Tail(ring) /\ Given(e)
  BY DEF BufferedRead, useVars, ddsVars
<1>2. /\ ReaderTypes /\ InLine /\ Lined(ring) /\ Buffered /\ use # "read"
      /\ ring \in Seq(Stamps) /\ backed = {}
  BY <1>1 DEF ReaderFits, ReaderTypes, Buffered
<1>3. /\ Tail(ring) \in Seq(Stamps) /\ Lined(Tail(ring)) /\ e \in Stamps
      /\ Values(ring) = {e} \cup Values(Tail(ring))
      /\ \A f \in Values(Tail(ring)) : Before(e, f)
  BY <1>1, <1>2, LinedTail
<1> HIDE DEF e
<1>4. e.key \in Instances
  BY <1>3 DEF Stamps
<1> HIDE DEF Stamps
<1>5. e \in HeldBy(e.key)
  BY <1>3 DEF HeldBy
<1>6. /\ e.n <= written
      /\ \A d \in Values(answers[e.key].data) : e.n # 0 => d < e.n
      /\ \A n \in Values(unread[e.key]) : e.n < n
      /\ \A g \in Values(batch[e.key]) : Before(e, g)
  BY <1>2, <1>3, <1>4, <1>5 DEF InLine
<1>7. /\ answers' \in [Instances -> [status : {"none", "SUCCESS", "DISPOSED", "INVALID_DATA"},
                                     data : Seq(Nat)]]
      /\ \A l \in Instances : Rising(answers'[l].data)
      /\ \A l \in Instances : \A d \in Values(answers'[l].data) :
             d \in Values(answers[l].data) \/ (l = e.key /\ d = e.n /\ e.n # 0)
  BY <1>1, <1>2, <1>3, <1>6, GivenFacts
<1>8. InLine'
  <2>1. Values(ring') \cup backed' \subseteq Values(ring) \cup backed
    BY <1>1, <1>3
  <2>2. \A l \in Instances :
           /\ Values(batch'[l]) \subseteq Values(batch[l]) /\ Lined(batch'[l])
           /\ Values(unread'[l]) \subseteq Values(unread[l]) /\ Rising(unread'[l])
    BY <1>1, <1>2 DEF InLine
  <2>3. \A f \in Values(ring') \cup backed' \cup Values(batch'[e.key]) : Before(e, f)
    BY <1>1, <1>2, <1>3, <1>6
  <2>4. e.n # 0 =>
            /\ e.n <= written
            /\ \A f \in Values(ring') \cup backed' \cup Values(batch'[e.key]) :
                   f.key = e.key /\ f.n # 0 => e.n < f.n
            /\ \A n \in Values(unread'[e.key]) : e.n < n
    BY <1>1, <1>6, <2>3 DEF Before
  <2> QED
    BY <1>1, <1>2, <1>3, <1>7, <2>1, <2>2, <2>4, InLineStep
<1>9. Asking'
  BY <1>1, <1>2 DEF Asking, ReaderTypes, Buffered
<1>10. ReaderTypes'
  BY <1>1, <1>2, <1>3, <1>7, <1>9, Zenon DEF ReaderTypes, Asking
<1>11. NothingSkipped'
  BY <1>1, <1>2 DEF NothingSkipped
<1>12. Lined(ring')
  BY <1>1, <1>3
<1> QED
  BY <1>8, <1>10, <1>11, <1>12 DEF ReaderFits, Lined

LEMMA BufferedBackFits == ASSUME ReaderFits, BufferedBack PROVE ReaderFits'
<1> DEFINE e == ring[Len(ring)]
<1>1. /\ use' = use /\ filtered' = filtered /\ written' = written /\ overrun' = overrun
      /\ ring' = ring /\ asked' = asked /\ unread' = unread /\ answers' = answers
      /\ keyOnly' = keyOnly /\ batch' = batch /\ pushing' = pushing
      /\ use = "buffered latest" /\ ring # <<>> /\ backed' = {e}
  BY DEF BufferedBack, useVars, ddsVars
<1>2. /\ ReaderTypes /\ InLine /\ Lined(ring) /\ Buffered /\ use # "read"
      /\ ring \in Seq(Stamps)
  BY <1>1 DEF ReaderFits, ReaderTypes, Buffered
<1>3. e \in Values(ring) /\ e \in Stamps
  <2> HIDE DEF Stamps
  <2>1. Len(ring) \in DOMAIN ring
    <3>1. ring \in Seq(Stamps) /\ ring # <<>>
      BY <1>1, <1>2
    <3> QED
      BY <3>1
  <2> QED
    BY <2>1, <1>2 DEF Values
<1> HIDE DEF e, Stamps
<1>4. Values(ring') \cup backed' \subseteq Values(ring) \cup backed
  BY <1>1, <1>3
<1>5. \A l \in Instances : HeldBy(l)' \subseteq HeldBy(l)
  BY <1>1, <1>4 DEF HeldBy, Values
<1>6. InLine'
  <2>1. Own \in Instances /\ Envelope(Own, "SUCCESS", 0) \in Stamps
        /\ Envelope(Own, "SUCCESS", 0).n = 0
    BY ReaderAssumption DEF Stamps, Envelope
  <2>2. \A l \in Instances :
           /\ Values(batch'[l]) \subseteq Values(batch[l]) /\ Lined(batch'[l])
           /\ Values(unread'[l]) \subseteq Values(unread[l]) /\ Rising(unread'[l])
           /\ Rising(answers'[l].data)
    BY <1>1, <1>2 DEF InLine
  <2>3. PICK z \in Stamps : z.n = 0
    BY <2>1
  <2> QED
    BY <1>1, <1>2, <1>4, <2>2, <2>3, InLineStep
<1>7. backed' \subseteq Stamps
  BY <1>1, <1>3
<1>8. Asking'
  BY <1>1, <1>2 DEF Asking, ReaderTypes, Buffered
<1>9. ReaderTypes'
  BY <1>1, <1>2, <1>7, <1>8, Zenon DEF ReaderTypes, Asking
<1>10. NothingSkipped'
  BY <1>1, <1>2 DEF NothingSkipped
<1> QED
  BY <1>1, <1>2, <1>6, <1>9, <1>10 DEF ReaderFits, Lined

LEMMA BufferedClearFits == ASSUME ReaderFits, BufferedClear PROVE ReaderFits'
<1>1. /\ use' = use /\ filtered' = filtered /\ written' = written /\ overrun' = overrun
      /\ asked' = asked /\ unread' = unread
      /\ keyOnly' = keyOnly /\ batch' = batch /\ pushing' = pushing
      /\ backed' = {} /\ ring' = <<>>
  BY DEF BufferedClear, useVars, ddsVars
<1>2. PICK e \in backed : Given(e)
  BY DEF BufferedClear
<1>3. ReaderTypes /\ InLine /\ Buffered /\ use # "read" /\ e \in Stamps
  BY <1>2 DEF ReaderFits, ReaderTypes, Buffered
<1>4. e.key \in Instances
  BY <1>3 DEF Stamps
<1> HIDE DEF Stamps
<1>5. e \in HeldBy(e.key)
  BY <1>2 DEF HeldBy
<1>6. /\ e.n <= written
      /\ \A d \in Values(answers[e.key].data) : e.n # 0 => d < e.n
      /\ \A n \in Values(unread[e.key]) : e.n < n
      /\ \A g \in Values(batch[e.key]) : Before(e, g)
  BY <1>2, <1>3, <1>4, <1>5 DEF InLine
<1>7. /\ answers' \in [Instances -> [status : {"none", "SUCCESS", "DISPOSED", "INVALID_DATA"},
                                     data : Seq(Nat)]]
      /\ \A l \in Instances : Rising(answers'[l].data)
      /\ \A l \in Instances : \A d \in Values(answers'[l].data) :
             d \in Values(answers[l].data) \/ (l = e.key /\ d = e.n /\ e.n # 0)
  BY <1>2, <1>3, <1>6, GivenFacts
<1>8. InLine'
  <2>1. Values(ring') \cup backed' = {}
    BY <1>1, NoValues
  <2>2. \A l \in Instances :
           /\ Values(batch'[l]) \subseteq Values(batch[l]) /\ Lined(batch'[l])
           /\ Values(unread'[l]) \subseteq Values(unread[l]) /\ Rising(unread'[l])
    BY <1>1, <1>3 DEF InLine
  <2>3. Values(ring') \cup backed' \subseteq Values(ring) \cup backed
    BY <2>1
  <2>4. e.n # 0 =>
            /\ e.n <= written
            /\ \A f \in Values(ring') \cup backed' \cup Values(batch'[e.key]) :
                   f.key = e.key /\ f.n # 0 => e.n < f.n
            /\ \A n \in Values(unread'[e.key]) : e.n < n
    BY <1>1, <1>6, <2>1 DEF Before
  <2> QED
    BY <1>1, <1>3, <1>7, <2>2, <2>3, <2>4, InLineStep
<1>9. Asking'
  BY <1>1, <1>3 DEF Asking, ReaderTypes, Buffered
<1>10. ring' \in Seq(Stamps) /\ backed' \subseteq Stamps
  BY <1>1
<1>11. ReaderTypes'
  BY <1>1, <1>3, <1>7, <1>9, <1>10, Zenon DEF ReaderTypes, Asking
<1>12. NothingSkipped'
  BY <1>1, <1>3 DEF NothingSkipped
<1>13. Lined(ring')
  BY <1>1, NoValues
<1> QED
  BY <1>8, <1>11, <1>12, <1>13 DEF ReaderFits, Lined

LEMMA ReaderStarts == InitReader => ReaderFits
<1> SUFFICES ASSUME InitReader PROVE ReaderFits
  OBVIOUS
<1>1. /\ written = 0 /\ unread = [k \in Instances |-> <<>>]
      /\ keyOnly = [k \in Instances |-> FALSE] /\ asked = "no"
      /\ batch = [k \in Instances |-> <<>>] /\ pushing = Own /\ Own \in Instances
      /\ ring = <<>> /\ backed = {}
      /\ answers = [k \in Instances |-> [status |-> "none", data |-> <<>>]]
  BY ReaderAssumption DEF InitReader
<1>2. \A k \in Instances :
          unread[k] = <<>> /\ batch[k] = <<>> /\ answers[k].data = <<>> /\ HeldBy(k) = {}
  BY <1>1, NoValues DEF HeldBy
<1>3. ReaderTypes
  <2> HIDE DEF Stamps
  <2>1. <<>> \in Seq(Nat) /\ <<>> \in Seq(Stamps)
    OBVIOUS
  <2> QED
    BY <1>1, <1>2, <2>1 DEF ReaderTypes
<1>4. InLine
  BY <1>1, <1>2, NoValues DEF InLine
<1>5. NothingSkipped
  <2>1. /\ 1 .. written = {}
        /\ UNION {Delivered(k) : k \in Instances} = {}
    BY <1>1, <1>2 DEF Delivered
  <2> QED
    BY <2>1 DEF NothingSkipped
<1> QED
  BY <1>1, <1>3, <1>4, <1>5, NoValues DEF ReaderFits

\* Whatever the number of instances, the depth of the history and the capacity of the
\* ring buffer, an application is given the samples of an instance in the order they
\* were written in, none twice, and read() skips nothing the filter lets pass: the
\* loop of CycloneReader::read() and the thread of CycloneBufferedReader.
THEOREM SamplesInOrder == SpecReader => []NothingLost
<1>1. ASSUME ReaderFits, [NextReader]_readerVars
      PROVE  ReaderFits'
  <2>1. CASE \E k \in Instances : Write(k)
    BY <1>1, <2>1, WriteFits
  <2>2. CASE \E k \in Instances : Dispose(k) \/ LoseWriter(k)
    BY <1>1, <2>2, EndsFits DEF Dispose, LoseWriter
  <2>3. CASE (\E what \in Instances \cup {"any"} : Ask(what)) \/ NoData \/ ReadFails
    BY <1>1, <2>3, AskingFits
  <2>4. CASE Take
    BY <1>1, <2>4, TakeDataFits, TakeKeyFits DEF Take
  <2>5. CASE ReadLatest
    BY <1>1, <2>5, ReadLatestFits
  <2>6. CASE TakeBatch \/ PushOne
    BY <1>1, <2>6, TakeBatchFits, PushOneFits
  <2>7. CASE BufferedRead \/ BufferedBack \/ BufferedClear
    BY <1>1, <2>7, BufferedReadFits, BufferedBackFits, BufferedClearFits
  <2>8. CASE UNCHANGED readerVars
    <3>1. /\ UNCHANGED <<use, filtered, written, unread, overrun, batch, ring, backed, answers>>
          /\ UNCHANGED <<keyOnly, pushing, asked>>
      BY <2>8 DEF readerVars, useVars, ddsVars, bufferVars
    <3>2. Asking'
      BY <1>1, <3>1 DEF Asking, ReaderFits, ReaderTypes, Buffered
    <3> QED
      BY <1>1, <3>1, <3>2, StillFits
  <2> QED
    BY <1>1, <2>1, <2>2, <2>3, <2>4, <2>5, <2>6, <2>7, <2>8 DEF NextReader
<1>2. ReaderFits => NothingLost
  BY DEF ReaderFits, InLine, NothingLost, InOrder, Rising
<1> QED
  BY ReaderStarts, <1>1, <1>2, PTL DEF SpecReader
=============================================================================
