--------------------------- MODULE ConditionalProofs ---------------------------
(***************************************************************************)
(* createConditionals() refuses exactly the sets with a circular           *)
(* dependency, for any number of conditionals: the recursion of            *)
(* hasConflict() finds a circle when it meets a mark, because the marked   *)
(* conditionals are those on its stack, and misses none, because a call    *)
(* that returns false has seen that none of its dependencies leads into a  *)
(* circle.                                                                 *)
(*                                                                         *)
(* Without a circle the evaluation of a conditional ends, and with at most *)
(* one timed conditional it is what the readings say: the conditionals     *)
(* below the timed one do not see the timer, it finds the timer as it left *)
(* it, and those over it see its answer only.                              *)
(***************************************************************************)
EXTENDS ConditionalEvaluation, FiniteSetTheorems, WellFoundedInduction, TLAPS

Frames == [node : Conds, marks : SUBSET Conds, next : 1 .. 3, found : BOOLEAN]

\* The conditionals that are in a circle or lead into one.
Endangered == UNION {some \in SUBSET Conds : Circular(some)}

\* Each call was made for the dependency its caller looks at.
Chained ==
    \A i \in 1 .. Len(stack) - 1 :
        /\ stack[i].next \in DOMAIN deps[stack[i].node]
        /\ stack[i + 1].node = deps[stack[i].node][stack[i].next]

\* The marked conditionals are those of calls that have not returned.
MarksOnStack == \A c \in lookup : \E i \in DOMAIN stack : stack[i].node = c

\* A call has found a circle only where there is one ...
FoundIsTrue == \A i \in DOMAIN stack : stack[i].found => Cyclic

\* ... and what it looked at and found nothing in leads to none.
NothingMissed ==
    \A i \in DOMAIN stack :
        ~stack[i].found =>
            \A k \in DOMAIN deps[stack[i].node] :
                k < stack[i].next => deps[stack[i].node][k] \notin Endangered

\* Neither do the conditionals that were checked.
CheckedAreSafe ==
    pc \in {"check", "created"} =>
        \A c \in Deferred :
            \/ c \in todo
            \/ stack # <<>> /\ c = stack[1].node
            \/ c \notin Endangered

Phases ==
    /\ pc \in {"link", "missing", "created", "refused"} => stack = <<>>
    /\ pc = "created" => todo = {}
    /\ \A c \in Conds \ present : deps[c] = <<>>

IInv ==
    /\ FactoryTypeOK /\ Phases /\ Chained /\ MarksOnStack /\ FoundIsTrue
    /\ NothingMissed /\ CheckedAreSafe /\ RefusedIfCyclic

-----------------------------------------------------------------------------
(* Sequences, dependencies and circles.                                    *)

LEMMA NonEmptyFacts ==
    ASSUME NEW s \in Seq(Frames), s # <<>>
    PROVE  /\ Len(s) \in Nat \ {0} /\ DOMAIN s = 1 .. Len(s)
           /\ \A j \in 1 .. Len(s) : s[j] \in Frames
  OBVIOUS

\* What Append(SubSeq(s, 1, n - 1), x) is for n of a sequence's indices.
LEMMA ReplaceFrom ==
    ASSUME NEW s \in Seq(Frames), NEW n \in 1 .. Len(s), NEW x \in Frames
    PROVE  /\ Append(SubSeq(s, 1, n - 1), x) \in Seq(Frames)
           /\ Len(Append(SubSeq(s, 1, n - 1), x)) = n
           /\ \A i \in 1 .. n - 1 : Append(SubSeq(s, 1, n - 1), x)[i] = s[i]
           /\ Append(SubSeq(s, 1, n - 1), x)[n] = x
<1> DEFINE front == SubSeq(s, 1, n - 1)
<1>1. /\ front \in Seq(Frames) /\ Len(front) = n - 1
      /\ \A i \in 1 .. n - 1 : front[i] = s[i]
  OBVIOUS
<1> HIDE DEF front
<1>2. /\ Append(front, x) \in Seq(Frames) /\ Len(Append(front, x)) = n
      /\ \A i \in 1 .. n - 1 : Append(front, x)[i] = front[i]
      /\ Append(front, x)[n] = x
  BY <1>1
<1> QED
  BY <1>1, <1>2 DEF front

LEMMA PushFacts ==
    ASSUME NEW s \in Seq(Frames), NEW x \in Frames
    PROVE  /\ s \o <<x>> \in Seq(Frames)
           /\ Len(s \o <<x>>) = Len(s) + 1
           /\ \A i \in 1 .. Len(s) : (s \o <<x>>)[i] = s[i]
           /\ (s \o <<x>>)[Len(s) + 1] = x
  OBVIOUS

LEMMA NotTheLast ==
    ASSUME NEW n \in Nat, NEW i \in 1 .. n, i # n
    PROVE  i \in 1 .. n - 1 /\ i + 1 \in 1 .. n /\ i \in 1 .. n + 1
  OBVIOUS

\* A conditional has at most two dependencies.
LEMMA DependencyFacts ==
    ASSUME deps \in [Conds -> Dependencies], NEW c \in Conds
    PROVE  /\ DOMAIN deps[c] \subseteq 1 .. 2
           /\ \A i \in DOMAIN deps[c] : deps[c][i] \in Conds
           /\ \A n \in 1 .. 3 : n \notin DOMAIN deps[c] =>
                  \A k \in DOMAIN deps[c] : k < n
<1>1. deps[c] \in Dependencies
  OBVIOUS
<1>2. CASE deps[c] = <<>>
  BY <1>2
<1>3. ASSUME NEW a \in Conds, deps[c] = <<a>> PROVE DOMAIN deps[c] = {1} /\ deps[c][1] = a
  BY <1>3
<1>4. ASSUME NEW a \in Conds, NEW b \in Conds, deps[c] = <<a, b>>
      PROVE  DOMAIN deps[c] = 1 .. 2 /\ deps[c][1] = a /\ deps[c][2] = b
  BY <1>4
<1>5. CASE \E a \in Conds : deps[c] = <<a>>
  BY <1>3, <1>5
<1>6. CASE \E a, b \in Conds : deps[c] = <<a, b>>
  BY <1>4, <1>6
<1> QED
  BY <1>1, <1>2, <1>5, <1>6 DEF Dependencies

\* A conditional none of whose dependencies is endangered is not.
LEMMA SafeIfDependenciesAre ==
    ASSUME deps \in [Conds -> Dependencies], NEW c \in Conds,
           \A k \in DOMAIN deps[c] : deps[c][k] \notin Endangered
    PROVE  c \notin Endangered
<1> SUFFICES ASSUME NEW some \in SUBSET Conds, Circular(some), c \in some
             PROVE  FALSE
  BY DEF Endangered
<1>1. PICK i \in DOMAIN deps[c] : deps[c][i] \in some
  BY DEF Circular
<1> QED
  BY <1>1 DEF Endangered

\* With the dependencies the circles stay.
LEMMA CirclesStay ==
    ASSUME deps' = deps
    PROVE  Endangered' = Endangered /\ (Cyclic' <=> Cyclic)
  BY DEF Endangered, Cyclic, Circular

\* The frames of the calls that have not returned.
LEMMA StackFacts ==
    ASSUME FactoryTypeOK
    PROVE  /\ stack \in Seq(Frames)
           /\ stack # <<>> =>
                 /\ Len(stack) \in Nat \ {0} /\ DOMAIN stack = 1 .. Len(stack)
                 /\ \A j \in 1 .. Len(stack) : stack[j] \in Frames
                 /\ Top = stack[Len(stack)]
<1>1. stack \in Seq(Frames)
  BY DEF FactoryTypeOK, Frames
<1> QED
  BY <1>1, NonEmptyFacts DEF Top

\* The calls from the one that made a mark on are those of a circle.
LEMMA MarkClosesCircle ==
    ASSUME FactoryTypeOK, Chained, MarksOnStack, stack # <<>>,
           Top.next \in DOMAIN deps[Top.node],
           deps[Top.node][Top.next] \in lookup
    PROVE  Cyclic
<1> DEFINE n == Len(stack)
<1>1. /\ n \in Nat \ {0}
      /\ \A j \in 1 .. n : stack[j] \in Frames
      /\ Top = stack[n]
  BY StackFacts
<1>2. PICK i \in DOMAIN stack : stack[i].node = deps[Top.node][Top.next]
  BY DEF MarksOnStack
<1>3. i \in 1 .. n
  BY DEF FactoryTypeOK
<1> DEFINE some == {stack[j].node : j \in i .. n}
<1>4. some \in (SUBSET Conds) \ {{}}
  <2>1. stack[i].node \in some
    BY <1>1, <1>3
  <2>2. ASSUME NEW j \in i .. n PROVE stack[j].node \in Conds
    BY <1>1, <1>3 DEF Frames
  <2>3. some \subseteq Conds
    BY <2>2
  <2>4. some # {}
    BY <2>1
  <2> QED
    BY <2>3, <2>4
<1>5. ASSUME NEW j \in i .. n
      PROVE  \E k \in DOMAIN deps[stack[j].node] : deps[stack[j].node][k] \in some
  <2>1. CASE j = n
    BY <2>1, <1>1, <1>2, <1>3
  <2>2. CASE j # n
    <3>1. j \in 1 .. n - 1 /\ j + 1 \in i .. n
      BY <2>2, <1>1, <1>3
    <3>2. stack[j].next \in DOMAIN deps[stack[j].node]
          /\ stack[j + 1].node = deps[stack[j].node][stack[j].next]
      BY <3>1 DEF Chained
    <3> QED
      BY <3>1, <3>2
  <2> QED
    BY <2>1, <2>2
<1>6. Circular(some)
  BY <1>5 DEF Circular
<1> QED
  BY <1>4, <1>6 DEF Cyclic

\* A call that returns false has the conditional it was made for cleared.
LEMMA ReturnedFalse ==
    ASSUME FactoryTypeOK, NothingMissed, stack # <<>>, ~Top.found,
           Top.next \notin DOMAIN deps[Top.node]
    PROVE  Top.node \notin Endangered
<1>1. Len(stack) \in DOMAIN stack /\ Top = stack[Len(stack)] /\ Top \in Frames
  BY StackFacts
<1>2. /\ deps \in [Conds -> Dependencies]
      /\ Top.node \in Conds /\ Top.next \in 1 .. 3
  BY <1>1 DEF FactoryTypeOK, Frames
<1>3. \A k \in DOMAIN deps[Top.node] : k < Top.next
  BY <1>2, DependencyFacts
<1>4. \A k \in DOMAIN deps[Top.node] : deps[Top.node][k] \notin Endangered
  BY <1>1, <1>3 DEF NothingMissed
<1> QED
  BY <1>2, <1>4, SafeIfDependenciesAre

-----------------------------------------------------------------------------
(* The invariant.                                                          *)

LEMMA InitIInv == InitFactory => IInv
<1> SUFFICES ASSUME InitFactory PROVE IInv
  OBVIOUS
<1>1. FactoryTypeOK /\ Phases
  BY DEF InitFactory, FactoryTypeOK, Phases
<1>2. Chained /\ MarksOnStack /\ FoundIsTrue /\ NothingMissed
  BY DEF InitFactory, Chained, MarksOnStack, FoundIsTrue, NothingMissed
<1>3. CheckedAreSafe /\ RefusedIfCyclic
  BY DEF InitFactory, CheckedAreSafe, RefusedIfCyclic
<1> QED
  BY <1>1, <1>2, <1>3 DEF IInv

LEMMA LinkIInv == IInv /\ Link => IInv'
<1> SUFFICES ASSUME IInv, Link PROVE IInv'
  OBVIOUS
<1> USE DEF IInv
<1>1. FactoryTypeOK' /\ Phases'
  BY DEF Link, FactoryTypeOK, Phases, Deferred
<1>2. Chained' /\ MarksOnStack' /\ NothingMissed' /\ FoundIsTrue'
  BY CirclesStay DEF Link, Chained, MarksOnStack, NothingMissed, FoundIsTrue
<1>3. CheckedAreSafe' /\ RefusedIfCyclic'
  BY DEF Link, CheckedAreSafe, RefusedIfCyclic, Deferred
<1> QED
  BY <1>1, <1>2, <1>3

LEMMA CheckNextIInv == IInv /\ CheckNext => IInv'
<1> SUFFICES ASSUME IInv, CheckNext PROVE IInv'
  OBVIOUS
<1> USE DEF IInv
<1>1. PICK c \in todo : /\ todo' = todo \ {c}
                        /\ stack' = <<Frame(c)>> /\ lookup' = lookup \cup {c}
  BY DEF CheckNext
<1>2. /\ pc = "check" /\ pc' = pc /\ present' = present /\ deps' = deps
      /\ stack = <<>>
  BY DEF CheckNext
<1>3. c \in Conds /\ lookup \subseteq Conds /\ deps \in [Conds -> Dependencies]
  BY DEF FactoryTypeOK
<1>4. /\ Frame(c) \in Frames /\ Frame(c).node = c /\ Frame(c).next = 1
      /\ Frame(c).found = FALSE
  BY <1>3 DEF Frame, Frames
<1>5. /\ stack' \in Seq(Frames) /\ Len(stack') = 1 /\ DOMAIN stack' = {1}
      /\ stack'[1] = Frame(c) /\ stack' # <<>>
  BY <1>1, <1>4
<1>6. FactoryTypeOK' /\ Phases'
  BY <1>1, <1>2, <1>3, <1>5 DEF FactoryTypeOK, Phases, Frames
<1>7. Chained'
  BY <1>5 DEF Chained
<1>8. MarksOnStack'
  BY <1>1, <1>2, <1>4, <1>5 DEF MarksOnStack
<1>9. FoundIsTrue'
  BY <1>4, <1>5 DEF FoundIsTrue
<1>10. NothingMissed'
  <2>1. DOMAIN deps[c] \subseteq 1 .. 2
    BY <1>3, DependencyFacts
  <2> QED
    BY <2>1, <1>2, <1>4, <1>5 DEF NothingMissed
<1>11. CheckedAreSafe'
  BY <1>1, <1>2, <1>4, <1>5, CirclesStay DEF CheckedAreSafe, Deferred
<1>12. RefusedIfCyclic'
  BY <1>2 DEF RefusedIfCyclic
<1> QED
  BY <1>6, <1>7, <1>8, <1>9, <1>10, <1>11, <1>12

LEMMA CreatedIInv == IInv /\ (Created \/ Overflow) => IInv'
<1> SUFFICES ASSUME IInv, Created \/ Overflow PROVE IInv'
  OBVIOUS
<1> USE DEF IInv, Created, Overflow
<1>1. FactoryTypeOK' /\ Phases'
  BY DEF FactoryTypeOK, Phases
<1>2. Chained' /\ MarksOnStack' /\ NothingMissed' /\ FoundIsTrue'
  BY CirclesStay DEF Chained, MarksOnStack, NothingMissed, FoundIsTrue
<1>3. CheckedAreSafe' /\ RefusedIfCyclic'
  BY CirclesStay DEF CheckedAreSafe, RefusedIfCyclic, Deferred
<1> QED
  BY <1>1, <1>2, <1>3

\* What a step of hasConflict() leaves alone.
LEMMA RunningFacts ==
    ASSUME IInv, Running
    PROVE  /\ pc = "check" /\ deps \in [Conds -> Dependencies]
           /\ lookup \subseteq Conds /\ stack # <<>>
           /\ Top \in Frames /\ Top.node \in Conds
           /\ Top.next \in 1 .. 3 /\ Top.found \in BOOLEAN
<1>1. FactoryTypeOK /\ stack # <<>>
  BY DEF IInv, Running
<1>2. Top \in Frames
  BY <1>1, StackFacts
<1> QED
  BY <1>1, <1>2 DEF Running, FactoryTypeOK, Frames

\* A frame that has looked at one more dependency.
LEMMA FrameUpdate ==
    ASSUME NEW t \in Frames, NEW b \in BOOLEAN, t.next \in 1 .. 2
    PROVE  /\ [t EXCEPT !.next = t.next + 1, !.found = b] \in Frames
           /\ [t EXCEPT !.next = t.next + 1, !.found = b].node = t.node
           /\ [t EXCEPT !.next = t.next + 1, !.found = b].next = t.next + 1
           /\ [t EXCEPT !.next = t.next + 1, !.found = b].found = b
<1> DEFINE x == [node |-> t.node, marks |-> t.marks, next |-> t.next + 1,
                 found |-> b]
<1>1. /\ t.node \in Conds /\ t.marks \in SUBSET Conds
      /\ t = [node |-> t.node, marks |-> t.marks, next |-> t.next,
              found |-> t.found]
  BY DEF Frames
<1>2. [t EXCEPT !.next = t.next + 1, !.found = b] = x
  <2> DEFINE u == [t EXCEPT !.next = t.next + 1]
  <2>1. u = [node |-> t.node, marks |-> t.marks, next |-> t.next + 1,
             found |-> t.found]
    BY <1>1
  <2> HIDE DEF u
  <2>2. [u EXCEPT !.found = b] = x
    BY <2>1
  <2> QED
    BY <2>2 DEF u
<1>3. x \in Frames
  <2>1. t.next + 1 \in 1 .. 3
    OBVIOUS
  <2> QED
    BY <1>1, <2>1 DEF Frames
<1> QED
  BY <1>2, <1>3

\* A frame is replaced by one of the same conditional, those above it return.
LEMMA Replaced ==
    ASSUME IInv, stack # <<>>, NEW n \in 1 .. Len(stack), NEW x \in Frames,
           x.node = stack[n].node, deps' = deps,
           stack' = Append(SubSeq(stack, 1, n - 1), x)
    PROVE  /\ stack' \in Seq(Frames) /\ Len(stack') = n /\ DOMAIN stack' = 1 .. n
           /\ stack' # <<>> /\ stack'[n] = x
           /\ \A i \in 1 .. n - 1 : stack'[i] = stack[i]
           /\ \A i \in 1 .. n : stack'[i].node = stack[i].node
           /\ Chained'
<1> DEFINE new == Append(SubSeq(stack, 1, n - 1), x)
<1>1. stack \in Seq(Frames) /\ Len(stack) \in Nat \ {0}
  BY StackFacts DEF IInv
<1>2. /\ new \in Seq(Frames) /\ Len(new) = n /\ new[n] = x
      /\ \A i \in 1 .. n - 1 : new[i] = stack[i]
  BY <1>1, ReplaceFrom
<1> HIDE DEF new
<1>3. stack' = new
  BY DEF new
<1>4. /\ DOMAIN new = 1 .. n /\ new # <<>>
      /\ \A i \in 1 .. n : new[i].node = stack[i].node
  BY <1>1, <1>2
<1>5. ASSUME NEW i \in 1 .. n - 1
      PROVE  /\ new[i].next \in DOMAIN deps[new[i].node]
             /\ new[i + 1].node = deps[new[i].node][new[i].next]
  <2>1. /\ new[i] = stack[i] /\ new[i + 1].node = stack[i + 1].node
        /\ i \in 1 .. Len(stack) - 1
    BY <1>1, <1>2, <1>4
  <2> QED
    BY <2>1 DEF IInv, Chained
<1>6. Chained'
  BY <1>2, <1>3, <1>5 DEF Chained
<1> QED
  BY <1>2, <1>3, <1>4, <1>6

\* What a step that stays in the recursion keeps.
LEMMA StaysSafe ==
    ASSUME IInv, pc = "check", pc' = pc, present' = present, deps' = deps,
           todo' = todo, stack # <<>>, stack' # <<>>,
           stack'[1].node = stack[1].node
    PROVE  Phases' /\ CheckedAreSafe' /\ RefusedIfCyclic'
<1>1. Phases' /\ RefusedIfCyclic'
  BY DEF IInv, Phases, RefusedIfCyclic
<1>2. Deferred' = Deferred /\ Endangered' = Endangered
  BY CirclesStay DEF Deferred
<1>3. CheckedAreSafe'
  BY <1>2 DEF IInv, CheckedAreSafe
<1> QED
  BY <1>1, <1>3

LEMMA CallMarkedIInv == IInv /\ CallMarked => IInv'
<1> SUFFICES ASSUME IInv, CallMarked PROVE IInv'
  OBVIOUS
<1> DEFINE n == Len(stack)
           x == [Top EXCEPT !.next = Top.next + 1, !.found = TRUE]
<1>1. /\ Running /\ Top.next \in DOMAIN deps[Top.node]
      /\ deps[Top.node][Top.next] \in lookup
      /\ lookup' = lookup \ {deps[Top.node][Top.next]}
      /\ stack' = Append(SubSeq(stack, 1, n - 1), x)
      /\ present' = present /\ deps' = deps /\ pc' = pc /\ todo' = todo
  BY DEF CallMarked, Callers
<1>2. /\ pc = "check" /\ deps \in [Conds -> Dependencies] /\ stack # <<>>
      /\ Top \in Frames /\ Top.node \in Conds
  BY <1>1, RunningFacts
<1>3. /\ n \in Nat \ {0} /\ n \in 1 .. Len(stack) /\ DOMAIN stack = 1 .. n
      /\ Top = stack[n]
  BY <1>2, StackFacts DEF IInv
<1>4. x \in Frames /\ x.node = Top.node /\ x.found = TRUE
  <2>1. Top.next \in 1 .. 2
    BY <1>1, <1>2, DependencyFacts
  <2> QED
    BY <2>1, <1>2, FrameUpdate
<1> HIDE DEF x
<1>5. /\ stack' \in Seq(Frames) /\ Len(stack') = n /\ DOMAIN stack' = 1 .. n
      /\ stack' # <<>> /\ stack'[n] = x
      /\ \A i \in 1 .. n - 1 : stack'[i] = stack[i]
      /\ \A i \in 1 .. n : stack'[i].node = stack[i].node
      /\ Chained'
  BY <1>1, <1>2, <1>3, <1>4, Replaced
<1>6. Cyclic'
  BY <1>1, <1>2, MarkClosesCircle, CirclesStay DEF IInv
<1>7. FactoryTypeOK'
  BY <1>1, <1>5 DEF IInv, FactoryTypeOK, Frames
<1>8. MarksOnStack'
  <2>1. ASSUME NEW c \in lookup PROVE \E i \in 1 .. n : stack'[i].node = c
    <3>1. PICK i \in 1 .. n : stack[i].node = c
      BY <1>3 DEF IInv, MarksOnStack
    <3> QED
      BY <3>1, <1>5
  <2> QED
    BY <2>1, <1>1, <1>5 DEF MarksOnStack
<1>9. FoundIsTrue'
  BY <1>6 DEF FoundIsTrue
<1>10. NothingMissed'
  <2>1. ASSUME NEW i \in 1 .. n, ~stack'[i].found PROVE stack'[i] = stack[i]
    BY <2>1, <1>3, <1>4, <1>5
  <2>2. deps' = deps /\ Endangered' = Endangered
    BY <1>1, CirclesStay
  <2> QED
    BY <2>1, <2>2, <1>3, <1>5 DEF IInv, NothingMissed
<1>11. Phases' /\ CheckedAreSafe' /\ RefusedIfCyclic'
  <2>1. stack'[1].node = stack[1].node
    BY <1>3, <1>5
  <2> QED
    BY <2>1, <1>1, <1>2, <1>5, StaysSafe
<1> QED
  BY <1>5, <1>7, <1>8, <1>9, <1>10, <1>11 DEF IInv

LEMMA CallUnmarkedIInv == IInv /\ CallUnmarked => IInv'
<1> SUFFICES ASSUME IInv, CallUnmarked PROVE IInv'
  OBVIOUS
<1> DEFINE n == Len(stack)
           c == deps[Top.node][Top.next]
           x == Frame(c)
<1>1. /\ Running /\ Top.next \in DOMAIN deps[Top.node]
      /\ lookup' = lookup \cup {c} /\ stack' = stack \o <<x>>
      /\ present' = present /\ deps' = deps /\ pc' = pc /\ todo' = todo
  BY DEF CallUnmarked
<1>2. /\ pc = "check" /\ deps \in [Conds -> Dependencies] /\ stack # <<>>
      /\ Top \in Frames /\ Top.node \in Conds /\ lookup \subseteq Conds
  BY <1>1, RunningFacts
<1>3. /\ n \in Nat \ {0} /\ DOMAIN stack = 1 .. n /\ stack \in Seq(Frames)
      /\ Top = stack[n]
  BY <1>2, StackFacts DEF IInv
<1>4. c \in Conds /\ DOMAIN deps[c] \subseteq 1 .. 2
  BY <1>1, <1>2, DependencyFacts
<1>5. x \in Frames /\ x.node = c /\ x.next = 1 /\ x.found = FALSE
  BY <1>2, <1>4 DEF Frame, Frames
<1>6. /\ stack' \in Seq(Frames) /\ Len(stack') = n + 1
      /\ stack'[n + 1] = x /\ \A i \in 1 .. n : stack'[i] = stack[i]
  BY <1>1, <1>3, <1>5, PushFacts
<1> HIDE DEF x
<1>7. DOMAIN stack' = 1 .. n + 1 /\ stack' # <<>>
  BY <1>3, <1>6
<1>8. FactoryTypeOK'
  BY <1>1, <1>4, <1>6 DEF IInv, FactoryTypeOK, Frames
<1>9. Chained'
  <2>1. ASSUME NEW i \in 1 .. n
        PROVE  /\ stack'[i].next \in DOMAIN deps[stack'[i].node]
               /\ stack'[i + 1].node = deps[stack'[i].node][stack'[i].next]
    <3>1. CASE i = n
      BY <3>1, <1>1, <1>3, <1>5, <1>6
    <3>2. CASE i # n
      <4>1. i \in 1 .. n - 1 /\ i + 1 \in 1 .. n
        BY <3>2, <1>3, NotTheLast
      <4>2. stack'[i] = stack[i] /\ stack'[i + 1] = stack[i + 1]
        BY <4>1, <1>6
      <4> QED
        BY <4>1, <4>2 DEF IInv, Chained
    <3> QED
      BY <3>1, <3>2
  <2>2. Len(stack') - 1 = n
    BY <1>3, <1>6
  <2> QED
    BY <2>1, <2>2, <1>1 DEF Chained
<1>10. MarksOnStack'
  <2>1. \A i \in 1 .. n : i \in 1 .. n + 1
    BY <1>3
  <2>2. n + 1 \in 1 .. n + 1
    BY <1>3
  <2> QED
    BY <2>1, <2>2, <1>1, <1>3, <1>5, <1>6, <1>7 DEF IInv, MarksOnStack
<1>11. FoundIsTrue'
  BY <1>1, <1>3, <1>5, <1>6, <1>7, CirclesStay DEF IInv, FoundIsTrue
<1>12. NothingMissed'
  <2>1. deps' = deps /\ Endangered' = Endangered
    BY <1>1, CirclesStay
  <2>2. ASSUME NEW i \in 1 .. n + 1, ~stack'[i].found,
               NEW k \in DOMAIN deps[stack'[i].node], k < stack'[i].next
        PROVE  deps[stack'[i].node][k] \notin Endangered
    <3>1. CASE i = n + 1
      <4>1. k \in 1 .. 2 /\ k < 1
        BY <3>1, <2>2, <1>4, <1>5, <1>6
      <4> QED
        BY <4>1
    <3>2. CASE i # n + 1
      <4>1. i \in 1 .. n /\ stack'[i] = stack[i]
        BY <3>2, <1>3, <1>6
      <4> QED
        BY <4>1, <2>2, <1>3 DEF IInv, NothingMissed
    <3> QED
      BY <3>1, <3>2
  <2> QED
    BY <2>1, <2>2, <1>7 DEF NothingMissed
<1>13. Phases' /\ CheckedAreSafe' /\ RefusedIfCyclic'
  <2>1. stack'[1].node = stack[1].node
    BY <1>3, <1>6
  <2> QED
    BY <2>1, <1>1, <1>2, <1>7, StaysSafe
<1> QED
  BY <1>8, <1>9, <1>10, <1>11, <1>12, <1>13 DEF IInv

LEMMA ReturnToCallerIInv == IInv /\ ReturnToCaller => IInv'
<1> SUFFICES ASSUME IInv, ReturnToCaller PROVE IInv'
  OBVIOUS
<1> DEFINE n == Len(stack)
           m == n - 1
           caller == stack[m]
           x == [caller EXCEPT !.next = caller.next + 1,
                               !.found = caller.found \/ Top.found]
<1>1. /\ Running /\ Top.next \notin DOMAIN deps[Top.node] /\ n > 1
      /\ lookup' = lookup \ {Top.node}
      /\ stack' = Append(SubSeq(stack, 1, n - 2), x)
      /\ present' = present /\ deps' = deps /\ pc' = pc /\ todo' = todo
  BY DEF ReturnToCaller, Unmark
<1>2. /\ pc = "check" /\ deps \in [Conds -> Dependencies] /\ stack # <<>>
      /\ Top \in Frames /\ Top.node \in Conds /\ Top.found \in BOOLEAN
  BY <1>1, RunningFacts
<1>3. /\ n \in Nat /\ DOMAIN stack = 1 .. n /\ m \in 1 .. n /\ m + 1 = n
      /\ m \in 1 .. n - 1 /\ m - 1 = n - 2 /\ m \in Nat
      /\ Top = stack[n] /\ caller \in Frames
  BY <1>1, <1>2, StackFacts DEF IInv
<1> HIDE DEF m
<1>4. /\ caller.next \in DOMAIN deps[caller.node]
      /\ Top.node = deps[caller.node][caller.next]
      /\ caller.node \in Conds /\ caller.found \in BOOLEAN
      /\ caller.next \in 1 .. 2
  <2>1. /\ caller.next \in DOMAIN deps[caller.node]
        /\ Top.node = deps[caller.node][caller.next]
    BY <1>3 DEF IInv, Chained
  <2>2. caller.node \in Conds /\ caller.found \in BOOLEAN
    BY <1>3 DEF Frames
  <2> QED
    BY <2>1, <2>2, <1>2, DependencyFacts
<1>5. /\ x \in Frames /\ x.node = caller.node /\ x.next = caller.next + 1
      /\ x.found = (caller.found \/ Top.found)
  <2>1. (caller.found \/ Top.found) \in BOOLEAN
    OBVIOUS
  <2> QED
    BY <2>1, <1>3, <1>4, FrameUpdate
<1> HIDE DEF x
<1>6. /\ stack' \in Seq(Frames) /\ Len(stack') = m /\ DOMAIN stack' = 1 .. m
      /\ stack' # <<>> /\ stack'[m] = x
      /\ \A i \in 1 .. m - 1 : stack'[i] = stack[i]
      /\ \A i \in 1 .. m : stack'[i].node = stack[i].node
      /\ Chained'
  <2>1. stack' = Append(SubSeq(stack, 1, m - 1), x)
    BY <1>1, <1>3
  <2>2. m \in 1 .. Len(stack) /\ x.node = stack[m].node
    BY <1>3, <1>5
  <2> QED
    BY <2>1, <2>2, <1>1, <1>2, <1>5, Replaced
<1>7. FactoryTypeOK'
  BY <1>1, <1>6 DEF IInv, FactoryTypeOK, Frames
<1>8. MarksOnStack'
  <2>1. ASSUME NEW c \in lookup, c # Top.node
        PROVE  \E i \in 1 .. m : stack'[i].node = c
    <3>1. PICK i \in 1 .. n : stack[i].node = c
      BY <1>3 DEF IInv, MarksOnStack
    <3>2. i \in 1 .. m
      BY <3>1, <2>1, <1>3
    <3> QED
      BY <3>1, <3>2, <1>6
  <2> QED
    BY <2>1, <1>1, <1>6 DEF MarksOnStack
<1>9. FoundIsTrue'
  <2>1. ASSUME NEW i \in 1 .. m, stack'[i].found PROVE Cyclic
    <3>1. CASE i = m
      <4>1. caller.found \/ Top.found
        BY <3>1, <2>1, <1>5, <1>6
      <4>2. m \in DOMAIN stack /\ n \in DOMAIN stack
        BY <1>3
      <4> QED
        BY <4>1, <4>2, <1>3 DEF IInv, FoundIsTrue
    <3>2. CASE i # m
      <4>1. i \in 1 .. n /\ i \in 1 .. m - 1
        BY <3>2, <1>3, NotTheLast
      <4>2. stack'[i] = stack[i]
        BY <4>1, <1>6
      <4> QED
        BY <4>1, <4>2, <2>1, <1>3 DEF IInv, FoundIsTrue
    <3> QED
      BY <3>1, <3>2
  <2> QED
    BY <2>1, <1>1, <1>6, CirclesStay DEF FoundIsTrue
<1>10. NothingMissed'
  <2>1. deps' = deps /\ Endangered' = Endangered
    BY <1>1, CirclesStay
  <2>2. ASSUME NEW i \in 1 .. m, ~stack'[i].found,
               NEW k \in DOMAIN deps[stack'[i].node], k < stack'[i].next
        PROVE  deps[stack'[i].node][k] \notin Endangered
    <3>1. CASE i = m
      <4>1. ~caller.found /\ ~Top.found /\ k < caller.next + 1
            /\ stack'[i].node = caller.node
        BY <3>1, <2>2, <1>5, <1>6
      <4>2. Top.node \notin Endangered
        BY <4>1, <1>1, <1>2, ReturnedFalse DEF IInv
      <4>3. k \in 1 .. 2
        BY <4>1, <1>2, <1>4, DependencyFacts
      <4>4. CASE k = caller.next
        BY <4>1, <4>2, <4>4, <1>4
      <4>5. CASE k < caller.next
        BY <4>1, <4>5, <2>2, <1>3 DEF IInv, NothingMissed
      <4> QED
        BY <4>1, <4>3, <4>4, <4>5, <1>4
    <3>2. CASE i # m
      <4>1. i \in 1 .. n /\ i \in 1 .. m - 1
        BY <3>2, <1>3, NotTheLast
      <4>2. stack'[i] = stack[i]
        BY <4>1, <1>6
      <4> QED
        BY <4>1, <4>2, <2>2, <1>3 DEF IInv, NothingMissed
    <3> QED
      BY <3>1, <3>2
  <2> QED
    BY <2>1, <2>2, <1>6 DEF NothingMissed
<1>11. Phases' /\ CheckedAreSafe' /\ RefusedIfCyclic'
  <2>1. stack'[1].node = stack[1].node
    BY <1>3, <1>6
  <2> QED
    BY <2>1, <1>1, <1>2, <1>6, StaysSafe
<1> QED
  BY <1>6, <1>7, <1>8, <1>9, <1>10, <1>11 DEF IInv

LEMMA ReturnToFactoryIInv == IInv /\ ReturnToFactory => IInv'
<1> SUFFICES ASSUME IInv, ReturnToFactory PROVE IInv'
  OBVIOUS
<1>1. /\ Running /\ Top.next \notin DOMAIN deps[Top.node] /\ Len(stack) = 1
      /\ lookup' = lookup \ {Top.node} /\ stack' = <<>>
      /\ pc' = IF Top.found THEN "refused" ELSE "check"
      /\ present' = present /\ deps' = deps /\ todo' = todo
  BY DEF ReturnToFactory, Unmark
<1>2. pc = "check" /\ stack # <<>>
  BY <1>1, RunningFacts
<1>3. DOMAIN stack = {1} /\ Top = stack[1]
  BY <1>1, <1>2, StackFacts DEF IInv
<1>4. lookup' = {}
  BY <1>1, <1>3 DEF IInv, MarksOnStack
<1>5. FactoryTypeOK' /\ Phases'
  BY <1>1, <1>4 DEF IInv, FactoryTypeOK, Phases
<1>6. Chained' /\ MarksOnStack' /\ FoundIsTrue' /\ NothingMissed'
  BY <1>1, <1>4 DEF Chained, MarksOnStack, FoundIsTrue, NothingMissed
<1>7. RefusedIfCyclic'
  BY <1>1, <1>3, CirclesStay DEF IInv, FoundIsTrue, RefusedIfCyclic
<1>8. CheckedAreSafe'
  <2>1. CASE Top.found
    BY <2>1, <1>1 DEF CheckedAreSafe
  <2>2. CASE ~Top.found
    <3>1. Top.node \notin Endangered
      BY <2>2, <1>1, <1>2, ReturnedFalse DEF IInv
    <3>2. Deferred' = Deferred /\ Endangered' = Endangered
      BY <1>1, CirclesStay DEF Deferred
    <3> QED
      BY <3>1, <3>2, <1>1, <1>2, <1>3 DEF IInv, CheckedAreSafe
  <2> QED
    BY <2>1, <2>2
<1> QED
  BY <1>5, <1>6, <1>7, <1>8 DEF IInv

LEMMA NextIInv == IInv /\ [CreateConditionals]_factoryVars => IInv'
<1>1. ASSUME IInv, UNCHANGED factoryVars PROVE IInv'
  <2>1. FactoryTypeOK' /\ Phases' /\ Chained' /\ MarksOnStack'
    BY <1>1 DEF IInv, factoryVars, FactoryTypeOK, Phases, Chained, MarksOnStack
  <2>2. FoundIsTrue' /\ NothingMissed' /\ CheckedAreSafe' /\ RefusedIfCyclic'
    BY <1>1, CirclesStay DEF IInv, factoryVars, FoundIsTrue, NothingMissed,
       CheckedAreSafe, RefusedIfCyclic, Deferred
  <2> QED
    BY <2>1, <2>2 DEF IInv
<1> QED
  BY <1>1, LinkIInv, CheckNextIInv, CreatedIInv, CallMarkedIInv,
     CallUnmarkedIInv, ReturnToCallerIInv, ReturnToFactoryIInv
     DEF CreateConditionals, HasConflict

-----------------------------------------------------------------------------
(* What it implies.                                                        *)

LEMMA IInvAlways == SpecFactory => []IInv
<1>1. InitFactory => IInv
  BY InitIInv
<1>2. IInv /\ [CreateConditionals]_factoryVars => IInv'
  BY NextIInv
<1> QED
  BY <1>1, <1>2, PTL DEF SpecFactory

\* hasConflict() leaves the static map empty when it has returned, and
\* refuses a set of conditionals only if it has a circular dependency.
THEOREM FactoryInvHolds == SpecFactory => []FactoryInv
<1>1. IInv => FactoryInv
  BY DEF IInv, FactoryInv, MapEmptied, MarksOnStack, FactoryTypeOK
<1> QED
  BY <1>1, IInvAlways, PTL

LEMMA CreatedIsAcyclic == IInv => AcceptedIfAcyclic
<1> SUFFICES ASSUME IInv, pc = "created",
                    NEW some \in SUBSET Conds, some # {}, Circular(some)
             PROVE  FALSE
  BY DEF AcceptedIfAcyclic, Cyclic
<1>1. PICK c \in some : c \in Conds
  OBVIOUS
<1>2. PICK i \in DOMAIN deps[c] : deps[c][i] \in some
  BY <1>1 DEF Circular
<1>3. deps[c] # <<>>
  BY <1>2
<1>4. c \in Deferred
  BY <1>1, <1>3 DEF IInv, Phases, Deferred
<1>5. c \in Endangered
  BY <1>1 DEF Endangered
<1> QED
  BY <1>4, <1>5 DEF IInv, Phases, CheckedAreSafe

\* A set of conditionals with a circular dependency is never accepted.
THEOREM CircularIsRefused == SpecFactory => []AcceptedIfAcyclic
BY CreatedIsAcyclic, IInvAlways, PTL

-----------------------------------------------------------------------------
(* Recursion over a finite set without circles.                            *)

\* The value in V of an element of S is computed, by H, from the values of the
\* elements it depends on, D.
Recursive(S, V, D, H) ==
    /\ IsFiniteSet(S) /\ V # {}
    /\ D \in [S -> SUBSET S] /\ H \in [S -> [[S -> V] -> V]]
    /\ \A some \in (SUBSET S) \ {{}} : \E c \in some : D[c] \cap some = {}
    /\ \A c \in S : \A g, h \in [S -> V] :
           (\A d \in D[c] : g[d] = h[d]) => H[c][g] = H[c][h]

LEMMA Recursion ==
    ASSUME NEW S, NEW V, NEW D, NEW H, Recursive(S, V, D, H)
    PROVE  \E g \in [S -> V] : \A c \in S : g[c] = H[c][g]
<1> USE DEF Recursive
<1> DEFINE Solves(g, some) == \A c \in some : D[c] \subseteq some /\ g[c] = H[c][g]
           Solved(some) == \E g \in [S -> V] : Solves(g, some)
           Open == {rest \in SUBSET S : Solved(S \ rest)}
<1>1. S \in Open
  <2>1. PICK v \in V : TRUE
    OBVIOUS
  <2>2. [c \in S |-> v] \in [S -> V]
    OBVIOUS
  <2>3. S \ S = {}
    OBVIOUS
  <2> QED
    BY <2>2, <2>3
<1>2. Open \subseteq FiniteSubsetsOf(S)
  BY FS_Subset DEF FiniteSubsetsOf
<1>3. PICK rest \in Open : \A other \in Open :
          ~ (<<other, rest>> \in StrictSubsetOrdering(S))
  <2> HIDE DEF Open
  <2> QED
    BY <1>1, <1>2, FS_StrictSubsetOrderingWellFounded, WFMin
<1>4. PICK g \in [S -> V] : Solves(g, S \ rest)
  OBVIOUS
<1>5. ASSUME rest # {} PROVE FALSE
  <2>1. PICK c \in rest : D[c] \cap rest = {}
    BY <1>5
  <2> DEFINE v == H[c][g]
             f == [g EXCEPT ![c] = v]
  <2>2. c \in S /\ D[c] \subseteq S \ rest
    BY <2>1
  <2>3. v \in V
    BY <2>2
  <2>4. f \in [S -> V] /\ f[c] = v /\ \A d \in S \ {c} : f[d] = g[d]
    BY <2>2, <2>3
  <2> HIDE DEF f, v
  <2>5. ASSUME NEW d \in S \ (rest \ {c})
        PROVE  D[d] \subseteq S \ rest /\ f[d] = H[d][f]
    <3>1. D[d] \subseteq S \ rest
      BY <1>4, <2>2
    <3>2. \A e \in D[d] : f[e] = g[e]
      BY <2>1, <2>4, <3>1
    <3>3. H[d][f] = H[d][g]
      <4>1. d \in S /\ f \in [S -> V] /\ g \in [S -> V]
        BY <2>4
      <4>2. \A a, b \in [S -> V] : (\A e \in D[d] : a[e] = b[e]) => H[d][a] = H[d][b]
        BY <4>1
      <4> QED
        BY <3>2, <4>1, <4>2
    <3>4. f[d] = H[d][g]
      <4>1. CASE d = c
        BY <2>4, <4>1 DEF v
      <4>2. CASE d # c
        BY <1>4, <2>4, <4>2
      <4> QED
        BY <4>1, <4>2
    <3> QED
      BY <3>1, <3>3, <3>4
  <2>6. Solves(f, S \ (rest \ {c}))
    BY <2>5
  <2>7. rest \ {c} \in Open
    BY <2>4, <2>6
  <2>8. <<rest \ {c}, rest>> \in StrictSubsetOrdering(S)
    BY <2>1 DEF StrictSubsetOrdering
  <2> QED
    BY <1>3, <2>7, <2>8
<1> QED
  BY <1>4, <1>5


-----------------------------------------------------------------------------
(* What an evaluation is.                                                  *)

\* The conditionals of the set are linked without a circle, and have meanings.
Objects ==
    /\ present \subseteq Conds /\ deps \in [Conds -> Dependencies]
    /\ \A c \in present : \A i \in DOMAIN deps[c] : deps[c][i] \in present
    /\ ~Cyclic
    /\ \A c \in present : meaning[c] \in Meanings(c)
    /\ clock \in Nat /\ clock # 0

\* Some of a set of conditionals depends on none of the set.
LEMMA Descent ==
    ASSUME Objects, NEW some \in SUBSET present, some # {}
    PROVE  \E c \in some : \A i \in DOMAIN deps[c] : deps[c][i] \notin some
BY DEF Objects, Cyclic, Circular

LEMMA SaysTruth == \A b : Says(b) \in {"true", "false"}
BY DEF Says

LEMMA WithinTruth == \A el, up : Within(el, up) \in Truth
BY SaysTruth DEF Within, Truth, Unknown

LEMMA LeafTruth == ASSUME NEW m, m.kind \in LeafKinds PROVE Leaf(m) \in Truth
<1>1. \A f : Compared(f, m) \in Truth
  BY SaysTruth DEF Compared, Truth, Unknown
<1>2. TimeConditional(m) \in Truth /\ HeadingSectorConditional(m) \in Truth
  BY DEF TimeConditional, HeadingSectorConditional, Truth, Unknown, Says
<1>3. WaterZoneConditional(m) \in Truth
  BY DEF WaterZoneConditional, Truth, Unknown, Says
<1> QED
  BY <1>1, <1>2, <1>3 DEF Leaf, LeafKinds, DepthConditional, DepthRateConditional,
     PitchRateConditional, RollRateConditional, YawRateConditional, SpeedConditional,
     RelativeSpeedConditional

LEMMA LogicTruth ==
    \A v, w : LogicalNOT(v) \in Truth /\ LogicalAND(v, w) \in Truth /\ LogicalOR(v, w) \in Truth
BY SaysTruth DEF LogicalNOT, LogicalAND, LogicalOR, Truth, Unknown

Joined(c, v, w) ==
    IF meaning[c].kind = "LogicalAND" THEN LogicalAND(v, w) ELSE LogicalOR(v, w)

\* A conditional looks at reports, negates, watches or joins others.
LEMMA EvaluationIs ==
    ASSUME Objects, NEW c \in present
    PROVE  \/ /\ deps[c] = <<>> /\ ~Timed(meaning[c]) /\ Leaf(meaning[c]) \in Truth
              /\ \A e, s : Evaluation(e, c, s) = Answer(c, Leaf(meaning[c]), s)
           \/ \E a \in present :
                 /\ deps[c] = <<a>> /\ ~Timed(meaning[c])
                 /\ \A e, s : Evaluation(e, c, s) =
                        Answer(c, LogicalNOT(e[a][s].answers[a]), e[a][s])
           \/ \E a \in present :
                 /\ deps[c] = <<a>> /\ Timed(meaning[c])
                 /\ meaning[c].duration \in Durations \ {NoDuration}
                 /\ \A e, s : Evaluation(e, c, s) =
                        ConstraintViolated(c, meaning[c].duration,
                                           e[a][s].answers[a], e[a][s])
           \/ \E a, b \in present :
                 /\ deps[c] = <<a, b>> /\ ~Timed(meaning[c])
                 /\ \A e, s : Evaluation(e, c, s) =
                        Answer(c, Joined(c, e[a][s].answers[a], e[b][e[a][s]].answers[b]),
                               e[b][e[a][s]])
<1>1. /\ c \in Conds /\ deps[c] \in Dependencies /\ meaning[c] \in Meanings(c)
      /\ \A i \in DOMAIN deps[c] : deps[c][i] \in present
  BY DEF Objects
<1>2. CASE deps[c] = <<>>
  <2>1. Len(deps[c]) = 0
    BY <1>2
  <2>2. meaning[c] \in Leaves /\ meaning[c].kind \in LeafKinds
    BY <1>1, <2>1, ConditionalEvaluationAssumption DEF Meanings
  <2>3. \A e, s : Evaluation(e, c, s) = Answer(c, Leaf(meaning[c]), s)
    BY <1>2, <2>2 DEF Evaluation, LeafKinds
  <2> QED
    BY <1>2, <2>2, <2>3, LeafTruth DEF Timed, LeafKinds
<1>3. ASSUME NEW a \in Conds, deps[c] = <<a>>
      PROVE  a \in present /\
             \/ /\ ~Timed(meaning[c])
                /\ \A e, s : Evaluation(e, c, s) =
                       Answer(c, LogicalNOT(e[a][s].answers[a]), e[a][s])
             \/ /\ Timed(meaning[c])
                /\ meaning[c].duration \in Durations \ {NoDuration}
                /\ \A e, s : Evaluation(e, c, s) =
                       ConstraintViolated(c, meaning[c].duration,
                                          e[a][s].answers[a], e[a][s])
  <2>1. Len(deps[c]) = 1 /\ deps[c] # <<>> /\ deps[c][1] = a /\ a \in present
    BY <1>1, <1>3
  <2>2. \/ meaning[c].kind = "LogicalNOT"
        \/ meaning[c].kind = "ConstraintViolated" /\ meaning[c].duration \in Durations
    BY <1>1, <2>1 DEF Meanings
  <2>3. CASE meaning[c].kind = "LogicalNOT"
    BY <2>1, <2>3 DEF Evaluation, Timed
  <2>4. CASE meaning[c].kind = "ConstraintViolated"
    <3>1. \A e, s : Evaluation(e, c, s) =
              ConstraintViolated(c, meaning[c].duration, e[a][s].answers[a], e[a][s])
      BY <2>1, <2>4 DEF Evaluation
    <3>2. CASE meaning[c].duration = NoDuration
      <4>1. \A v, s : ConstraintViolated(c, NoDuration, v, s) = Answer(c, LogicalNOT(v), s)
        BY DEF ConstraintViolated
      <4> QED
        BY <2>1, <3>1, <3>2, <4>1 DEF Timed
    <3> QED
      BY <2>1, <2>2, <2>4, <3>1, <3>2 DEF Timed
  <2> QED
    BY <2>2, <2>3, <2>4
<1>4. ASSUME NEW a \in Conds, NEW b \in Conds, deps[c] = <<a, b>>
      PROVE  /\ a \in present /\ b \in present /\ ~Timed(meaning[c])
             /\ \A e, s : Evaluation(e, c, s) =
                    Answer(c, Joined(c, e[a][s].answers[a], e[b][e[a][s]].answers[b]),
                           e[b][e[a][s]])
  <2>1. /\ Len(deps[c]) = 2 /\ deps[c] # <<>> /\ deps[c][1] = a /\ deps[c][2] = b
        /\ a \in present /\ b \in present
    BY <1>1, <1>4
  <2>2. meaning[c].kind \in {"LogicalAND", "LogicalOR"}
    BY <1>1, <2>1 DEF Meanings
  <2> QED
    BY <2>1, <2>2 DEF Evaluation, Joined, Timed
<1> QED
  BY <1>1, <1>2, <1>3, <1>4 DEF Dependencies

LEMMA AnswerFacts ==
    ASSUME NEW c \in Conds, NEW v, NEW s \in States
    PROVE  /\ Answer(c, v, s).timer = s.timer /\ Answer(c, v, s).since = s.since
           /\ Answer(c, v, s).answers[c] = v
           /\ \A d \in Conds \ {c} : Answer(c, v, s).answers[d] = s.answers[d]
           /\ v \in Truth => Answer(c, v, s) \in States
BY DEF Answer, States

\* A constraint is known to be false for a first time or for longer, or it is true.
LEMMA ViolatedFacts ==
    ASSUME Objects, NEW c \in Conds, NEW x \in Conds, deps[c] = <<x>>, NEW n \in Nat,
           NEW v \in Truth, NEW s \in States
    PROVE  LET r == ConstraintViolated(c, n, v, s)
           IN  /\ r \in States
               /\ \A d \in Conds \ {c} : r.answers[d] = s.answers[d]
               /\ \A d \in Conds \ {x} : r.since[d] = s.since[d]
               /\ v = Unknown => /\ r.timer = s.timer /\ r.since = s.since
                                 /\ r.answers[c] = Unknown
               /\ v = "true" => /\ r.timer = Never /\ r.since[x] = Never
                                /\ r.answers[c] = "false"
               /\ v = "false" =>
                    /\ r.timer = IF s.timer = Never THEN clock ELSE s.timer
                    /\ r.since[x] = IF s.since[x] = Never THEN clock ELSE s.since[x]
                    /\ r.answers[c] = IF s.timer = Never THEN "false"
                                      ELSE Says(clock - s.timer >= n)
<1>1. n # NoDuration /\ deps[c][1] = x /\ clock \in Nat
  BY DEF NoDuration, Objects
<1> DEFINE h == [s EXCEPT !.since[x] =
                    CASE v = "true" -> Never
                      [] v = "false" -> IF @ = Never THEN clock ELSE @
                      [] OTHER -> @]
<1>2. /\ h \in States /\ h.timer = s.timer /\ h.answers = s.answers
      /\ \A d \in Conds \ {x} : h.since[d] = s.since[d]
      /\ v = "true" => h.since[x] = Never
      /\ v = "false" => h.since[x] = IF s.since[x] = Never THEN clock ELSE s.since[x]
  BY <1>1 DEF States, Never
<1> HIDE DEF h
<1>3. CASE v = Unknown
  <2>1. ConstraintViolated(c, n, v, s) = Answer(c, Unknown, s)
    BY <1>3 DEF ConstraintViolated, LogicalNOT
  <2> QED
    BY <1>3, <2>1, AnswerFacts DEF Truth, Unknown
<1>4. CASE v = "true"
  <2>1. ConstraintViolated(c, n, v, s) = Answer(c, "false", Achieved(h))
    BY <1>1, <1>4 DEF ConstraintViolated, Unknown, h
  <2>2. /\ Achieved(h) \in States /\ Achieved(h).timer = Never
        /\ Achieved(h).since = h.since /\ Achieved(h).answers = h.answers
    BY <1>2 DEF Achieved, States, Never
  <2> QED
    BY <1>2, <1>4, <2>1, <2>2, AnswerFacts DEF Truth, Unknown
<1>5. CASE v = "false"
  <2>1. ConstraintViolated(c, n, v, s) = Failing(c, n, h)
    BY <1>1, <1>5 DEF ConstraintViolated, Unknown, h
  <2>2. CASE s.timer = Never
    <3> DEFINE t == [h EXCEPT !.timer = clock]
    <3>1. /\ t \in States /\ t.timer = clock
          /\ t.since = h.since /\ t.answers = h.answers
      BY <1>1, <1>2 DEF States
    <3>2. Failing(c, n, h) = Answer(c, "false", t)
      BY <1>2, <2>2 DEF Failing
    <3> HIDE DEF t
    <3> QED
      BY <1>2, <1>5, <2>1, <2>2, <3>1, <3>2, AnswerFacts DEF Truth, Unknown
  <2>3. CASE s.timer # Never
    <3>1. Failing(c, n, h) = Answer(c, Says(clock - s.timer >= n), h)
      BY <1>2, <2>3 DEF Failing
    <3> QED
      BY <1>2, <1>5, <2>1, <2>3, <3>1, AnswerFacts, SaysTruth DEF Truth, Unknown
  <2> QED
    BY <2>2, <2>3
<1> QED
  BY <1>3, <1>4, <1>5 DEF Truth

-----------------------------------------------------------------------------
(* The recursive functions are what their definitions say.                 *)

Evaluators == [present -> [States -> States]]

LEMMA StatesFacts ==
    /\ Asked = [timer |-> timer, since |-> since, answers |-> NoAnswers]
    /\ NoAnswers \in [Conds -> Truth]
    /\ \A s \in States : /\ s.timer \in Nat /\ s.since \in [Conds -> Nat]
                         /\ s.answers \in [Conds -> Truth]
    /\ \E s : s \in States
<1>1. [timer |-> 0, since |-> [c \in Conds |-> 0], answers |-> NoAnswers] \in States
  BY DEF States, NoAnswers, Truth
<1> QED
  BY <1>1 DEF Asked, NoAnswers, Truth, States

\* An evaluation looks only at the dependencies, and gives a state.
LEMMA EvaluationType ==
    ASSUME Objects, NEW c \in present, NEW e, NEW s \in States,
           \A i \in DOMAIN deps[c] : e[deps[c][i]] \in [States -> States]
    PROVE  Evaluation(e, c, s) \in States
<1>1. c \in Conds /\ present \subseteq Conds
  BY DEF Objects
<1>2. ASSUME NEW a \in present, e[a] \in [States -> States], NEW t \in States
      PROVE  e[a][t] \in States /\ e[a][t].answers[a] \in Truth
  BY <1>1, <1>2, StatesFacts
<1>3. CASE Evaluation(e, c, s) = Answer(c, Leaf(meaning[c]), s) /\ Leaf(meaning[c]) \in Truth
  BY <1>1, <1>3, AnswerFacts
<1>4. ASSUME NEW a \in present, deps[c] = <<a>>,
             Evaluation(e, c, s) = Answer(c, LogicalNOT(e[a][s].answers[a]), e[a][s])
      PROVE  Evaluation(e, c, s) \in States
  <2>1. 1 \in DOMAIN deps[c] /\ deps[c][1] = a
    BY <1>4
  <2>2. e[a][s] \in States
    BY <1>2, <2>1
  <2> QED
    BY <1>1, <1>4, <2>2, AnswerFacts, LogicTruth
<1>5. ASSUME NEW a \in present, deps[c] = <<a>>,
             meaning[c].duration \in Durations \ {NoDuration},
             Evaluation(e, c, s) =
                 ConstraintViolated(c, meaning[c].duration, e[a][s].answers[a], e[a][s])
      PROVE  Evaluation(e, c, s) \in States
  <2>1. 1 \in DOMAIN deps[c] /\ deps[c][1] = a
    BY <1>5
  <2>2. e[a][s] \in States /\ e[a][s].answers[a] \in Truth
    BY <1>2, <2>1
  <2>3. meaning[c].duration \in Nat /\ a \in Conds
    BY <1>1, <1>5, ConditionalEvaluationAssumption
  <2> QED
    BY <1>1, <1>5, <2>2, <2>3, ViolatedFacts
<1>6. ASSUME NEW a \in present, NEW b \in present, deps[c] = <<a, b>>,
             Evaluation(e, c, s) =
                 Answer(c, Joined(c, e[a][s].answers[a], e[b][e[a][s]].answers[b]),
                        e[b][e[a][s]])
      PROVE  Evaluation(e, c, s) \in States
  <2>1. 1 \in DOMAIN deps[c] /\ deps[c][1] = a /\ 2 \in DOMAIN deps[c] /\ deps[c][2] = b
    BY <1>6
  <2>2. e[a][s] \in States
    BY <1>2, <2>1
  <2>3. e[b][e[a][s]] \in States
    BY <1>2, <2>1, <2>2
  <2> QED
    BY <1>1, <1>6, <2>3, AnswerFacts, LogicTruth DEF Joined
<1> QED
  BY <1>3, <1>4, <1>5, <1>6, EvaluationIs

LEMMA EvaluationLocal ==
    ASSUME Objects, NEW c \in present, NEW e, NEW f,
           \A i \in DOMAIN deps[c] : e[deps[c][i]] = f[deps[c][i]]
    PROVE  \A s : Evaluation(e, c, s) = Evaluation(f, c, s)
<1>1. ASSUME NEW a \in present, deps[c] = <<a>> PROVE e[a] = f[a]
  <2>1. 1 \in DOMAIN deps[c] /\ deps[c][1] = a
    BY <1>1
  <2> QED
    BY <2>1
<1>2. ASSUME NEW a \in present, NEW b \in present, deps[c] = <<a, b>>
      PROVE  e[a] = f[a] /\ e[b] = f[b]
  <2>1. 1 \in DOMAIN deps[c] /\ deps[c][1] = a /\ 2 \in DOMAIN deps[c] /\ deps[c][2] = b
    BY <1>2
  <2> QED
    BY <2>1
<1> QED
  BY <1>1, <1>2, EvaluationIs

LEMMA EvaluatedIs ==
    ASSUME Objects
    PROVE  /\ Evaluated \in Evaluators
           /\ \A c \in present : \A s \in States :
                  Evaluated[c][s] = Evaluation(Evaluated, c, s)
<1> DEFINE Of(g) == [c \in present |-> [s \in States |-> Evaluation(g, c, s)]]
           D == [c \in present |-> {deps[c][i] : i \in DOMAIN deps[c]}]
           H == [c \in present |-> [g \in Evaluators |->
                    [s \in States |-> Evaluation(g, c, s)]]]
<1>1. /\ IsFiniteSet(present) /\ D \in [present -> SUBSET present]
      /\ \E v : v \in [States -> States]
  <2>1. IsFiniteSet(1 .. MaxConds)
    BY MaxCondsAssumption, FS_Interval
  <2>2. IsFiniteSet(present)
    BY <2>1, FS_Subset DEF Objects, Conds
  <2>3. [s \in States |-> s] \in [States -> States]
    OBVIOUS
  <2> QED
    BY <2>2, <2>3 DEF Objects
<1>2. H \in [present -> [Evaluators -> [States -> States]]]
  <2>1. ASSUME NEW c \in present, NEW g \in Evaluators, NEW s \in States
        PROVE  Evaluation(g, c, s) \in States
    BY <2>1, EvaluationType DEF Evaluators, Objects
  <2> QED
    BY <2>1
<1>3. \A some \in (SUBSET present) \ {{}} : \E c \in some : D[c] \cap some = {}
  <2> SUFFICES ASSUME NEW some \in SUBSET present, some # {}
               PROVE  \E c \in some : D[c] \cap some = {}
    OBVIOUS
  <2>1. PICK c \in some : \A i \in DOMAIN deps[c] : deps[c][i] \notin some
    BY Descent
  <2> QED
    BY <2>1
<1>4. \A c \in present : \A g, h \in Evaluators :
          (\A d \in D[c] : g[d] = h[d]) => H[c][g] = H[c][h]
  <2> SUFFICES ASSUME NEW c \in present, NEW g \in Evaluators, NEW h \in Evaluators,
                      \A d \in D[c] : g[d] = h[d]
               PROVE  H[c][g] = H[c][h]
    OBVIOUS
  <2>1. \A s : Evaluation(g, c, s) = Evaluation(h, c, s)
    <3>1. \A i \in DOMAIN deps[c] : g[deps[c][i]] = h[deps[c][i]]
      OBVIOUS
    <3> QED
      BY <3>1, EvaluationLocal
  <2> QED
    BY <2>1
<1>5. \E g \in Evaluators : \A c \in present : g[c] = H[c][g]
  <2> DEFINE V == [States -> States]
  <2>1. /\ V # {} /\ Evaluators = [present -> V]
        /\ H \in [present -> [[present -> V] -> V]]
    BY <1>1, <1>2 DEF Evaluators
  <2>2. \A c \in present : \A g, h \in [present -> V] :
            (\A d \in D[c] : g[d] = h[d]) => H[c][g] = H[c][h]
    BY <1>4, <2>1
  <2> HIDE DEF D, H, V
  <2>3. Recursive(present, V, D, H)
    BY <1>1, <1>3, <2>1, <2>2 DEF Recursive
  <2> QED
    BY <2>1, <2>3, Recursion
<1>6. \E g : g = Of(g)
  <2>1. PICK g \in Evaluators : \A c \in present : g[c] = H[c][g]
    BY <1>5
  <2>2. \A c \in present : g[c] = [s \in States |-> Evaluation(g, c, s)]
    BY <2>1
  <2>3. g = Of(g)
    BY <2>2 DEF Evaluators
  <2> QED
    BY <2>3
<1>7. Evaluated = Of(Evaluated)
  <2>1. Evaluated = CHOOSE g : g = Of(g)
    BY DEF Evaluated
  <2> QED
    BY <1>6, <2>1
<1>8. \A c \in present : Evaluated[c] = [s \in States |-> Evaluation(Evaluated, c, s)]
  BY <1>7
<1> DEFINE Bad == {c \in present : Evaluated[c] \notin [States -> States]}
<1>9. ASSUME Bad # {} PROVE FALSE
  <2>1. PICK c \in Bad : \A i \in DOMAIN deps[c] : deps[c][i] \notin Bad
    BY <1>9, Descent
  <2>2. \A i \in DOMAIN deps[c] : Evaluated[deps[c][i]] \in [States -> States]
    BY <2>1 DEF Objects
  <2>3. \A s \in States : Evaluation(Evaluated, c, s) \in States
    BY <2>2, EvaluationType
  <2> QED
    BY <1>8, <2>3
<1>10. Evaluated \in Evaluators
  BY <1>7, <1>9 DEF Evaluators
<1> QED
  BY <1>8, <1>10

-----------------------------------------------------------------------------
(* What conditionals answer.                                               *)

Needs(c) == {deps[c][i] : i \in DOMAIN deps[c]}

Looks(c) ==
    /\ ~Timed(meaning[c]) /\ Leaf(meaning[c]) \in Truth
    /\ \A s \in States : Evaluated[c][s] = Answer(c, Leaf(meaning[c]), s)

Negates(c, a) ==
    /\ ~Timed(meaning[c])
    /\ \A s \in States : Evaluated[c][s] =
           Answer(c, LogicalNOT(Evaluated[a][s].answers[a]), Evaluated[a][s])

Watches(c, a) ==
    /\ deps[c] = <<a>> /\ Timed(meaning[c]) /\ meaning[c].duration \in Nat
    /\ \A s \in States : Evaluated[c][s] =
           ConstraintViolated(c, meaning[c].duration,
                              Evaluated[a][s].answers[a], Evaluated[a][s])

Joins(c, a, b) ==
    /\ ~Timed(meaning[c])
    /\ \A s \in States : Evaluated[c][s] =
           Answer(c, Joined(c, Evaluated[a][s].answers[a],
                            Evaluated[b][Evaluated[a][s]].answers[b]),
                  Evaluated[b][Evaluated[a][s]])

LEMMA Kinds ==
    ASSUME Objects, NEW c \in present
    PROVE  /\ Needs(c) \subseteq present
           /\ \/ Looks(c)
              \/ \E a \in Needs(c) : Negates(c, a) \/ Watches(c, a)
              \/ \E a, b \in Needs(c) : Joins(c, a, b)
<1>1. Needs(c) \subseteq present
  BY DEF Needs, Objects
<1>2. \A s \in States : Evaluated[c][s] = Evaluation(Evaluated, c, s)
  BY EvaluatedIs
<1>3. ASSUME NEW a, deps[c] = <<a>> PROVE a \in Needs(c)
  <2>1. 1 \in DOMAIN deps[c] /\ deps[c][1] = a
    BY <1>3
  <2> QED
    BY <2>1 DEF Needs
<1>4. ASSUME NEW a, NEW b, deps[c] = <<a, b>> PROVE a \in Needs(c) /\ b \in Needs(c)
  <2>1. 1 \in DOMAIN deps[c] /\ deps[c][1] = a /\ 2 \in DOMAIN deps[c] /\ deps[c][2] = b
    BY <1>4
  <2> QED
    BY <2>1 DEF Needs
<1>5. CASE /\ deps[c] = <<>> /\ ~Timed(meaning[c]) /\ Leaf(meaning[c]) \in Truth
           /\ \A e, s : Evaluation(e, c, s) = Answer(c, Leaf(meaning[c]), s)
  BY <1>1, <1>2, <1>5 DEF Looks
<1>6. ASSUME NEW a \in present, deps[c] = <<a>>, ~Timed(meaning[c]),
             \A e, s : Evaluation(e, c, s) =
                 Answer(c, LogicalNOT(e[a][s].answers[a]), e[a][s])
      PROVE  a \in Needs(c) /\ Negates(c, a)
  BY <1>2, <1>3, <1>6 DEF Negates
<1>7. ASSUME NEW a \in present, deps[c] = <<a>>, Timed(meaning[c]),
             meaning[c].duration \in Durations \ {NoDuration},
             \A e, s : Evaluation(e, c, s) =
                 ConstraintViolated(c, meaning[c].duration, e[a][s].answers[a], e[a][s])
      PROVE  a \in Needs(c) /\ Watches(c, a)
  <2>1. meaning[c].duration \in Nat
    BY <1>7, ConditionalEvaluationAssumption
  <2> QED
    BY <1>2, <1>3, <1>7, <2>1 DEF Watches
<1>8. ASSUME NEW a \in present, NEW b \in present, deps[c] = <<a, b>>, ~Timed(meaning[c]),
             \A e, s : Evaluation(e, c, s) =
                 Answer(c, Joined(c, e[a][s].answers[a], e[b][e[a][s]].answers[b]),
                        e[b][e[a][s]])
      PROVE  a \in Needs(c) /\ b \in Needs(c) /\ Joins(c, a, b)
  BY <1>2, <1>4, <1>8 DEF Joins
<1> QED
  BY <1>1, <1>5, <1>6, <1>7, <1>8, EvaluationIs

LEMMA EvaluatedState ==
    ASSUME Objects, NEW c \in present, NEW s \in States
    PROVE  Evaluated[c][s] \in States /\ Evaluated[c][s].answers[c] \in Truth
BY EvaluatedIs, StatesFacts DEF Evaluators, Objects

\* What holds of a conditional if it holds of those it depends on holds of all.
LEMMA AllOf ==
    ASSUME Objects, NEW good, NEW part \in SUBSET present,
           \A c \in part : Needs(c) \cap part \subseteq good => c \in good
    PROVE  part \subseteq good
<1> SUFFICES ASSUME part \ good # {} PROVE FALSE
  OBVIOUS
<1>1. PICK c \in part \ good : \A i \in DOMAIN deps[c] : deps[c][i] \notin part \ good
  BY Descent
<1> QED
  BY <1>1 DEF Needs

-----------------------------------------------------------------------------
(* Conditionals over which there is no timed one.                          *)

\* At most one conditional is timed, and takes some time.
OneTimed ==
    /\ \A c, d \in present : Timed(meaning[c]) /\ Timed(meaning[d]) => c = d
    /\ \A c \in present : Timed(meaning[c]) => meaning[c].duration # 0

\* Those that depend on no timed conditional.
Pure == UNION {some \in SUBSET present :
                  \A c \in some : ~Timed(meaning[c]) /\ Needs(c) \subseteq some}

LEMMA PureFacts ==
    /\ Pure \subseteq present
    /\ \A c \in Pure : ~Timed(meaning[c]) /\ Needs(c) \subseteq Pure
    /\ \A c \in present : ~Timed(meaning[c]) /\ Needs(c) \subseteq Pure => c \in Pure
<1>1. /\ Pure \subseteq present
      /\ \A c \in Pure : ~Timed(meaning[c]) /\ Needs(c) \subseteq Pure
  BY DEF Pure
<1>2. ASSUME NEW c \in present, ~Timed(meaning[c]), Needs(c) \subseteq Pure
      PROVE  c \in Pure
  <2>1. Pure \cup {c} \in SUBSET present
    BY <1>1
  <2>2. \A d \in Pure \cup {c} : ~Timed(meaning[d]) /\ Needs(d) \subseteq Pure \cup {c}
    BY <1>1, <1>2
  <2> QED
    BY <2>1, <2>2 DEF Pure
<1> QED
  BY <1>1, <1>2

LEMMA WatchedIsPure ==
    ASSUME Objects, OneTimed, NEW w \in present, Timed(meaning[w])
    PROVE  Needs(w) \subseteq Pure
<1> SUFFICES ASSUME ~(Needs(w) \subseteq Pure) PROVE FALSE
  OBVIOUS
<1>1. PICK x \in Needs(w) : x \in present \ Pure
  BY Kinds
<1>2. PICK c \in present \ Pure : \A i \in DOMAIN deps[c] : deps[c][i] \notin present \ Pure
  BY <1>1, Descent
<1>3. Needs(c) \subseteq Pure
  BY <1>2, Kinds DEF Needs
<1>4. c # w
  BY <1>1, <1>3
<1>5. ~Timed(meaning[c])
  BY <1>4 DEF OneTimed
<1> QED
  BY <1>2, <1>3, <1>5, PureFacts

\* They leave the timer alone and answer alike in any state.
Clean == {c \in present :
    \A s \in States :
        /\ Evaluated[c][s].timer = s.timer /\ Evaluated[c][s].since = s.since
        /\ \A u \in States : Evaluated[c][s].answers[c] = Evaluated[c][u].answers[c]}

LEMMA PureIsClean == ASSUME Objects PROVE Pure \subseteq Clean
<1> SUFFICES ASSUME NEW c \in Pure, Needs(c) \cap Pure \subseteq Clean PROVE c \in Clean
  BY AllOf, PureFacts
<1>1. c \in present /\ c \in Conds /\ ~Timed(meaning[c]) /\ Needs(c) \subseteq Clean
  BY PureFacts DEF Objects
<1>2. ASSUME NEW a \in Needs(c), NEW s \in States, NEW u \in States
      PROVE  /\ Evaluated[a][s] \in States /\ Evaluated[a][s].timer = s.timer
             /\ Evaluated[a][s].since = s.since
             /\ Evaluated[a][s].answers[a] = Evaluated[a][u].answers[a]
  BY <1>1, EvaluatedState DEF Clean
<1>3. CASE Looks(c)
  BY <1>1, <1>3, AnswerFacts DEF Looks, Clean
<1>4. ASSUME NEW a \in Needs(c), Negates(c, a) PROVE c \in Clean
  <2> SUFFICES ASSUME NEW s \in States, NEW u \in States
               PROVE  /\ Evaluated[c][s].timer = s.timer /\ Evaluated[c][s].since = s.since
                      /\ Evaluated[c][s].answers[c] = Evaluated[c][u].answers[c]
    BY <1>1 DEF Clean
  <2> QED
    BY <1>1, <1>2, <1>4, AnswerFacts DEF Negates
<1>5. ASSUME NEW a \in Needs(c), NEW b \in Needs(c), Joins(c, a, b) PROVE c \in Clean
  <2> SUFFICES ASSUME NEW s \in States, NEW u \in States
               PROVE  /\ Evaluated[c][s].timer = s.timer /\ Evaluated[c][s].since = s.since
                      /\ Evaluated[c][s].answers[c] = Evaluated[c][u].answers[c]
    BY <1>1 DEF Clean
  <2>1. /\ Evaluated[a][s] \in States /\ Evaluated[a][u] \in States
        /\ Evaluated[a][s].timer = s.timer /\ Evaluated[a][s].since = s.since
        /\ Evaluated[a][s].answers[a] = Evaluated[a][u].answers[a]
    BY <1>2
  <2>2. /\ Evaluated[b][Evaluated[a][s]] \in States /\ Evaluated[b][Evaluated[a][u]] \in States
        /\ Evaluated[b][Evaluated[a][s]].timer = s.timer
        /\ Evaluated[b][Evaluated[a][s]].since = s.since
        /\ Evaluated[b][Evaluated[a][s]].answers[b] = Evaluated[b][Evaluated[a][u]].answers[b]
    BY <1>2, <2>1
  <2> QED
    BY <1>1, <1>5, <2>1, <2>2, AnswerFacts DEF Joins
<1>6. ASSUME NEW a \in Needs(c), Watches(c, a) PROVE FALSE
  BY <1>1, <1>6 DEF Watches
<1> QED
  BY <1>1, <1>3, <1>4, <1>5, <1>6, Kinds

-----------------------------------------------------------------------------
(* What the timed conditional answers depends on the timer alone, and an   *)
(* evaluation leaves the timer so that the answer stays.                   *)

\* The state after the timed conditional w, if its constraint is known to be v.
LEMMA WatchedValue ==
    ASSUME Objects, OneTimed, NEW w \in present, NEW x \in Needs(w), Watches(w, x)
    PROVE  \E v \in Truth : \A s \in States :
               /\ Evaluated[w][s] \in States
               /\ v = Unknown => /\ Evaluated[w][s].timer = s.timer
                                 /\ Evaluated[w][s].answers[w] = Unknown
               /\ v = "true" => /\ Evaluated[w][s].timer = Never
                                /\ Evaluated[w][s].answers[w] = "false"
               /\ v = "false" =>
                    /\ Evaluated[w][s].timer = IF s.timer = Never THEN clock ELSE s.timer
                    /\ Evaluated[w][s].answers[w] =
                           IF s.timer = Never THEN "false"
                           ELSE Says(clock - s.timer >= meaning[w].duration)
<1>1. /\ deps[w] = <<x>> /\ Timed(meaning[w]) /\ meaning[w].duration \in Nat
      /\ w \in Conds /\ x \in present /\ x \in Conds
  BY Kinds DEF Watches, Objects
<1>2. x \in Clean
  BY <1>1, WatchedIsPure, PureIsClean
<1>3. PICK t \in States : TRUE
  BY StatesFacts
<1> DEFINE v == Evaluated[x][t].answers[x]
<1>4. v \in Truth /\ \A s \in States : /\ Evaluated[x][s] \in States
                                       /\ Evaluated[x][s].timer = s.timer
                                       /\ Evaluated[x][s].answers[x] = v
  BY <1>1, <1>2, <1>3, EvaluatedState DEF Clean
<1> HIDE DEF v
<1>5. ASSUME NEW s \in States
      PROVE  /\ Evaluated[w][s] \in States
             /\ v = Unknown => /\ Evaluated[w][s].timer = s.timer
                               /\ Evaluated[w][s].answers[w] = Unknown
             /\ v = "true" => /\ Evaluated[w][s].timer = Never
                              /\ Evaluated[w][s].answers[w] = "false"
             /\ v = "false" =>
                  /\ Evaluated[w][s].timer = IF s.timer = Never THEN clock ELSE s.timer
                  /\ Evaluated[w][s].answers[w] =
                         IF s.timer = Never THEN "false"
                         ELSE Says(clock - s.timer >= meaning[w].duration)
  <2>1. /\ Evaluated[x][s] \in States /\ Evaluated[x][s].timer = s.timer
        /\ Evaluated[w][s] = ConstraintViolated(w, meaning[w].duration, v, Evaluated[x][s])
    BY <1>4 DEF Watches
  <2> QED
    BY <1>1, <1>4, <2>1, ViolatedFacts
<1> QED
  BY <1>4, <1>5

\* The timed conditional w answers alike.
Alike(w, s, u) == Evaluated[w][s].answers[w] = Evaluated[w][u].answers[w]

LEMMA AlikeFacts ==
    ASSUME Objects, OneTimed, NEW w \in present, NEW x \in Needs(w), Watches(w, x),
           NEW s \in States
    PROVE  /\ \A u \in States : u.timer = s.timer => Alike(w, u, s)
           /\ Alike(w, Evaluated[w][s], s)
<1>1. PICK v \in Truth : \A u \in States :
               /\ Evaluated[w][u] \in States
               /\ v = Unknown => /\ Evaluated[w][u].timer = u.timer
                                 /\ Evaluated[w][u].answers[w] = Unknown
               /\ v = "true" => /\ Evaluated[w][u].timer = Never
                                /\ Evaluated[w][u].answers[w] = "false"
               /\ v = "false" =>
                    /\ Evaluated[w][u].timer = IF u.timer = Never THEN clock ELSE u.timer
                    /\ Evaluated[w][u].answers[w] =
                           IF u.timer = Never THEN "false"
                           ELSE Says(clock - u.timer >= meaning[w].duration)
  BY WatchedValue
<1>2. v = Unknown \/ v = "true" \/ v = "false"
  BY DEF Truth
<1>3. \A u \in States : u.timer = s.timer => Alike(w, u, s)
  BY <1>1, <1>2 DEF Alike
<1>4. Alike(w, Evaluated[w][s], s)
  <2>1. CASE v # "false"
    BY <1>1, <1>2, <2>1 DEF Alike
  <2>2. CASE v = "false"
    <3> DEFINE r == Evaluated[w][s]
    <3>1. /\ r \in States /\ r.timer = IF s.timer = Never THEN clock ELSE s.timer
          /\ r.answers[w] = IF s.timer = Never THEN "false"
                            ELSE Says(clock - s.timer >= meaning[w].duration)
          /\ Evaluated[w][r].answers[w] =
                 IF r.timer = Never THEN "false"
                 ELSE Says(clock - r.timer >= meaning[w].duration)
      BY <1>1, <2>2
    <3>2. /\ clock \in Nat /\ clock # Never /\ meaning[w].duration \in Nat
          /\ meaning[w].duration # 0
      BY DEF Objects, Never, Watches, OneTimed
    <3>3. ~(clock - clock >= meaning[w].duration)
      BY <3>2
    <3>4. Says(clock - clock >= meaning[w].duration) = "false"
      BY <3>3 DEF Says
    <3> HIDE DEF r
    <3>5. Evaluated[w][r].answers[w] = r.answers[w]
      BY <3>1, <3>2, <3>4
    <3> QED
      BY <3>5 DEF Alike, r
  <2> QED
    BY <2>1, <2>2
<1> QED
  BY <1>3, <1>4

\* Others leave it alike, and answer alike in states in which it does.
Steady(w) == {c \in present :
    \A s \in States :
        /\ Alike(w, Evaluated[c][s], s)
        /\ \A u \in States :
               Alike(w, s, u) => Evaluated[c][s].answers[c] = Evaluated[c][u].answers[c]}

LEMMA AllSteady ==
    ASSUME Objects, OneTimed, NEW w \in present, NEW x \in Needs(w), Watches(w, x)
    PROVE  present \subseteq Steady(w)
<1> SUFFICES ASSUME NEW c \in present, Needs(c) \cap present \subseteq Steady(w)
             PROVE  c \in Steady(w)
  BY AllOf
<1>1. c \in Conds /\ Needs(c) \subseteq Steady(w) /\ Needs(c) \subseteq present
  BY Kinds DEF Objects
<1> SUFFICES ASSUME NEW s \in States
             PROVE  /\ Alike(w, Evaluated[c][s], s)
                    /\ \A u \in States : Alike(w, s, u) =>
                           Evaluated[c][s].answers[c] = Evaluated[c][u].answers[c]
  BY DEF Steady
<1>2. CASE c = w
  BY <1>2, AlikeFacts DEF Alike
<1>3. CASE Looks(c)
  BY <1>1, <1>3, AnswerFacts, AlikeFacts DEF Looks
<1>4. ASSUME NEW a \in Needs(c), Negates(c, a)
      PROVE  /\ Alike(w, Evaluated[c][s], s)
             /\ \A u \in States : Alike(w, s, u) =>
                    Evaluated[c][s].answers[c] = Evaluated[c][u].answers[c]
  <2>1. ASSUME NEW u \in States
        PROVE  /\ Evaluated[a][u] \in States
               /\ Evaluated[c][u].answers[c] = LogicalNOT(Evaluated[a][u].answers[a])
               /\ Evaluated[c][u] \in States
               /\ Evaluated[c][u].timer = Evaluated[a][u].timer
    BY <1>1, <1>4, EvaluatedState, AnswerFacts DEF Negates
  <2>2. Alike(w, Evaluated[c][s], Evaluated[a][s])
    BY <2>1, AlikeFacts
  <2>3. Alike(w, Evaluated[a][s], s)
    BY <1>1 DEF Steady
  <2>4. Alike(w, Evaluated[c][s], s)
    BY <2>2, <2>3 DEF Alike
  <2>5. \A u \in States : Alike(w, s, u) =>
            Evaluated[a][s].answers[a] = Evaluated[a][u].answers[a]
    BY <1>1 DEF Steady
  <2> QED
    BY <2>1, <2>4, <2>5
<1>5. ASSUME NEW a \in Needs(c), NEW b \in Needs(c), Joins(c, a, b)
      PROVE  /\ Alike(w, Evaluated[c][s], s)
             /\ \A u \in States : Alike(w, s, u) =>
                    Evaluated[c][s].answers[c] = Evaluated[c][u].answers[c]
  <2>1. ASSUME NEW u \in States
        PROVE  /\ Evaluated[a][u] \in States /\ Evaluated[b][Evaluated[a][u]] \in States
               /\ Evaluated[c][u].answers[c] =
                      Joined(c, Evaluated[a][u].answers[a],
                             Evaluated[b][Evaluated[a][u]].answers[b])
               /\ Evaluated[c][u] \in States
               /\ Evaluated[c][u].timer = Evaluated[b][Evaluated[a][u]].timer
               /\ Alike(w, Evaluated[a][u], u)
               /\ Alike(w, Evaluated[b][Evaluated[a][u]], Evaluated[a][u])
    <3>1. Evaluated[a][u] \in States
      BY <1>1, EvaluatedState
    <3>2. Evaluated[b][Evaluated[a][u]] \in States
      BY <1>1, <3>1, EvaluatedState
    <3>3. /\ Alike(w, Evaluated[a][u], u)
          /\ Alike(w, Evaluated[b][Evaluated[a][u]], Evaluated[a][u])
      BY <1>1, <3>1 DEF Steady
    <3> QED
      BY <1>1, <1>5, <3>1, <3>2, <3>3, EvaluatedState, AnswerFacts DEF Joins
  <2>2. Alike(w, Evaluated[c][s], Evaluated[b][Evaluated[a][s]])
    BY <2>1, AlikeFacts
  <2>3. Alike(w, Evaluated[c][s], s)
    BY <2>1, <2>2 DEF Alike
  <2>4. ASSUME NEW u \in States, Alike(w, s, u)
        PROVE  /\ Evaluated[a][s].answers[a] = Evaluated[a][u].answers[a]
               /\ Evaluated[b][Evaluated[a][s]].answers[b] =
                      Evaluated[b][Evaluated[a][u]].answers[b]
    <3>1. Alike(w, Evaluated[a][s], Evaluated[a][u])
      BY <2>1, <2>4 DEF Alike
    <3> QED
      BY <1>1, <2>1, <2>4, <3>1 DEF Steady
  <2> QED
    BY <2>1, <2>3, <2>4
<1>6. ASSUME NEW a \in Needs(c), Watches(c, a) PROVE c = w
  BY <1>6 DEF OneTimed, Watches
<1> QED
  BY <1>2, <1>3, <1>4, <1>5, <1>6, Kinds

\* What a conditional answers does not depend on those evaluated before it.
LEMMA EvaluationsIndependent ==
    ASSUME Objects, OneTimed, NEW c \in present, NEW d \in present, NEW s \in States
    PROVE  Evaluated[c][Evaluated[d][s]].answers[c] = Evaluated[c][s].answers[c]
<1>1. Evaluated[d][s] \in States
  BY EvaluatedState
<1>2. CASE \E w \in present : \E x \in Needs(w) : Watches(w, x)
  <2>1. PICK w \in present : \E x \in Needs(w) : Watches(w, x)
    BY <1>2
  <2>2. c \in Steady(w) /\ d \in Steady(w)
    BY <2>1, AllSteady
  <2> QED
    BY <1>1, <2>2 DEF Steady
<1>3. CASE ~ \E w \in present : \E x \in Needs(w) : Watches(w, x)
  <2>1. \A e \in present : ~Timed(meaning[e])
    BY <1>3, Kinds DEF Looks, Negates, Joins
  <2>2. present \subseteq Pure
    BY <2>1, Kinds, PureFacts, AllOf
  <2> QED
    BY <1>1, <2>2, PureIsClean DEF Clean
<1> QED
  BY <1>2, <1>3

-----------------------------------------------------------------------------
(* The timer shows since when the constraint is false.                     *)

\* With tm the timer, sn the history and an the answers at the time t.
Shown(t, tm, sn, an) ==
    /\ tm \in 0 .. t /\ sn \in [Conds -> 0 .. t] /\ an \in [Conds -> Truth]
    /\ \A w \in present : \A x \in Needs(w) : Timed(meaning[w]) =>
           /\ tm = sn[x]
           /\ an[w] = "true" => sn[x] # Never /\ t - sn[x] >= meaning[w].duration

Fair == {s \in States : Shown(clock, s.timer, s.since, s.answers)}

LEMMA FairAnswer ==
    ASSUME Objects, NEW c \in present, ~Timed(meaning[c]), NEW v \in Truth, NEW s \in Fair
    PROVE  Answer(c, v, s) \in Fair
<1>1. c \in Conds /\ present \subseteq Conds /\ s \in States
  BY DEF Objects, Fair
<1> DEFINE r == Answer(c, v, s)
<1>2. /\ r \in States /\ r.timer = s.timer /\ r.since = s.since
      /\ \A d \in Conds \ {c} : r.answers[d] = s.answers[d]
  BY <1>1, AnswerFacts
<1>3. r.answers \in [Conds -> Truth]
  BY <1>2, StatesFacts
<1> HIDE DEF r
<1>4. r \in Fair
  BY <1>1, <1>2, <1>3 DEF Fair, Shown
<1> QED
  BY <1>4 DEF r

LEMMA WatchedSince ==
    ASSUME Objects, OneTimed, NEW w \in present, NEW x, Watches(w, x),
           NEW v \in Truth, NEW s \in Fair
    PROVE  ConstraintViolated(w, meaning[w].duration, v, s) \in Fair
<1> DEFINE n == meaning[w].duration
           r == ConstraintViolated(w, n, v, s)
<1>1. /\ deps[w] = <<x>> /\ Timed(meaning[w]) /\ n \in Nat /\ clock \in Nat /\ clock # 0
      /\ w \in Conds /\ present \subseteq Conds /\ s \in States
  BY DEF Watches, Objects, Fair
<1>2. Needs(w) = {x} /\ x \in Conds
  <2>1. DOMAIN deps[w] = {1} /\ deps[w][1] = x
    BY <1>1
  <2> QED
    BY <1>1, <2>1, Kinds DEF Needs
<1>3. /\ s.timer \in 0 .. clock /\ s.since \in [Conds -> 0 .. clock]
      /\ s.timer = s.since[x]
  BY <1>1, <1>2 DEF Fair, Shown
<1>4. /\ r \in States
      /\ \A d \in Conds \ {w} : r.answers[d] = s.answers[d]
      /\ \A d \in Conds \ {x} : r.since[d] = s.since[d]
      /\ v = Unknown => /\ r.timer = s.timer /\ r.since = s.since
                        /\ r.answers[w] = Unknown
      /\ v = "true" => /\ r.timer = Never /\ r.since[x] = Never
                       /\ r.answers[w] = "false"
      /\ v = "false" =>
           /\ r.timer = IF s.timer = Never THEN clock ELSE s.timer
           /\ r.since[x] = IF s.since[x] = Never THEN clock ELSE s.since[x]
           /\ r.answers[w] = IF s.timer = Never THEN "false"
                             ELSE Says(clock - s.timer >= n)
  BY <1>1, <1>2, ViolatedFacts
<1> HIDE DEF r
<1>5. r.since \in [Conds -> Nat] /\ r.answers \in [Conds -> Truth]
  BY <1>4, StatesFacts
<1>6. v = Unknown \/ v = "true" \/ v = "false"
  BY DEF Truth
<1>7. /\ r.timer \in 0 .. clock /\ r.timer = r.since[x]
      /\ r.answers[w] = "true" => r.since[x] # Never /\ clock - r.since[x] >= n
  <2>1. CASE v = Unknown
    BY <1>3, <1>4, <2>1 DEF Unknown
  <2>2. CASE v = "true"
    BY <1>1, <1>4, <2>2 DEF Never
  <2>3. CASE v = "false"
    <3>1. CASE s.timer = Never
      BY <1>1, <1>3, <1>4, <2>3, <3>1
    <3>2. CASE s.timer # Never
      BY <1>1, <1>3, <1>4, <2>3, <3>2 DEF Says
    <3> QED
      BY <3>1, <3>2
  <2> QED
    BY <1>6, <2>1, <2>2, <2>3
<1>8. r.since \in [Conds -> 0 .. clock]
  <2>1. \A d \in Conds : r.since[d] \in 0 .. clock
    BY <1>3, <1>4, <1>7
  <2> QED
    BY <1>5, <2>1
<1>9. \A c \in present : Timed(meaning[c]) => c = w
  BY <1>1 DEF OneTimed
<1>10. r \in Fair
  BY <1>2, <1>4, <1>5, <1>7, <1>8, <1>9 DEF Fair, Shown
<1> QED
  BY <1>10 DEF r

FairlyEvaluated == {c \in present : \A s \in Fair : Evaluated[c][s] \in Fair}

LEMMA AllFairlyEvaluated == ASSUME Objects, OneTimed PROVE present \subseteq FairlyEvaluated
<1> SUFFICES ASSUME NEW c \in present, Needs(c) \cap present \subseteq FairlyEvaluated
             PROVE  c \in FairlyEvaluated
  BY AllOf
<1>1. Needs(c) \subseteq FairlyEvaluated /\ Needs(c) \subseteq present
  BY Kinds
<1> SUFFICES ASSUME NEW s \in Fair PROVE Evaluated[c][s] \in Fair
  BY DEF FairlyEvaluated
<1>2. \A a \in Needs(c) : \A u \in Fair :
          /\ Evaluated[a][u] \in Fair /\ u \in States
          /\ Evaluated[a][u].answers[a] \in Truth
  BY <1>1, EvaluatedState DEF FairlyEvaluated, Fair
<1>3. s \in States
  BY DEF Fair
<1>4. CASE Looks(c)
  BY <1>3, <1>4, FairAnswer DEF Looks
<1>5. ASSUME NEW a \in Needs(c), Negates(c, a) PROVE Evaluated[c][s] \in Fair
  BY <1>2, <1>3, <1>5, FairAnswer, LogicTruth DEF Negates
<1>6. ASSUME NEW a \in Needs(c), NEW b \in Needs(c), Joins(c, a, b)
      PROVE  Evaluated[c][s] \in Fair
  <2>1. Evaluated[b][Evaluated[a][s]] \in Fair
    BY <1>2
  <2> QED
    BY <1>3, <1>6, <2>1, FairAnswer, LogicTruth DEF Joins, Joined
<1>7. ASSUME NEW a \in Needs(c), Watches(c, a) PROVE Evaluated[c][s] \in Fair
  <2>1. Evaluated[c][s] = ConstraintViolated(c, meaning[c].duration,
                              Evaluated[a][s].answers[a], Evaluated[a][s])
    BY <1>3, <1>7 DEF Watches
  <2> QED
    BY <1>2, <1>7, <2>1, WatchedSince
<1> QED
  BY <1>4, <1>5, <1>6, <1>7, Kinds

-----------------------------------------------------------------------------
(* The constraints of an objective.                                        *)

Verdicts == [SUBSET present -> [state : States, failed : BOOLEAN]]

LEMMA LeastNatural ==
    ASSUME NEW T, T \subseteq Nat, T # {}
    PROVE  \E x \in T : \A y \in T : x <= y
<1> DEFINE Below == {0 .. x - 1 : x \in T}
<1>1. Below # {} /\ Below \subseteq FiniteSubsetsOf(Nat)
  <2> SUFFICES ASSUME NEW x \in T
               PROVE  IsFiniteSet(0 .. x - 1) /\ 0 .. x - 1 \in SUBSET Nat
    BY DEF FiniteSubsetsOf
  <2> QED
    BY FS_Interval
<1>2. PICK b \in Below : \A c \in Below : ~ (<<c, b>> \in StrictSubsetOrdering(Nat))
  BY <1>1, FS_StrictSubsetOrderingWellFounded, WFMin
<1>3. PICK x \in T : b = 0 .. x - 1
  OBVIOUS
<1>4. ASSUME NEW y \in T, y < x PROVE FALSE
  <2>1. /\ 0 .. y - 1 \in Below /\ y \in b /\ y \notin 0 .. y - 1
        /\ 0 .. y - 1 \subseteq b
    BY <1>3, <1>4
  <2> HIDE DEF Below
  <2>2. <<0 .. y - 1, b>> \in StrictSubsetOrdering(Nat)
    <3>1. <<0 .. y - 1, b>> \in (SUBSET Nat) \X (SUBSET Nat)
      BY <1>3, SMT
    <3>2. 0 .. y - 1 # b
      BY <2>1
    <3> QED
      BY <3>1, <3>2, <2>1, Zenon DEF StrictSubsetOrdering
  <2> QED
    BY <2>1, <2>2, <1>2
<1> QED
  BY <1>4

\* The verdict on the constraints up to n, where e gives those on fewer.
Verdict(e, n, cs) ==
    IF n = 0 THEN [state |-> Asked, failed |-> FALSE]
    ELSE LET u == e[n - 1][cs]
             t == Evaluated[n][u.state]
         IN  IF u.failed \/ n \notin cs THEN u
             ELSE [state |-> t, failed |-> t.answers[n] = "false"]

LEMMA VerdictType ==
    ASSUME Objects, Asked \in States, NEW n \in 0 .. MaxConds, NEW e, NEW cs \in SUBSET present,
           n # 0 => e[n - 1][cs] \in [state : States, failed : BOOLEAN]
    PROVE  Verdict(e, n, cs) \in [state : States, failed : BOOLEAN]
<1>1. CASE n = 0
  BY <1>1 DEF Verdict
<1>2. CASE n # 0
  <2> DEFINE u == e[n - 1][cs]
  <2>1. u \in [state : States, failed : BOOLEAN]
    BY <1>2
  <2>2. n \in cs => Evaluated[n][u.state] \in States
    BY <2>1, EvaluatedState
  <2>3. Verdict(e, n, cs) =
            IF u.failed \/ n \notin cs THEN u
            ELSE [state |-> Evaluated[n][u.state],
                  failed |-> Evaluated[n][u.state].answers[n] = "false"]
    BY <1>2 DEF Verdict
  <2> HIDE DEF u
  <2> QED
    BY <2>1, <2>2, <2>3
<1> QED
  BY <1>1, <1>2

LEMMA AnyFalseIs ==
    ASSUME Objects, Asked \in States
    PROVE  \A n \in 0 .. MaxConds : \A cs \in SUBSET present :
               AnyFalse[n][cs] = Verdict(AnyFalse, n, cs)
<1> DEFINE S == 0 .. MaxConds
           Of(g) == [n \in S |-> [cs \in SUBSET present |-> Verdict(g, n, cs)]]
           D == [n \in S |-> {n - 1} \cap S]
           H == [n \in S |-> [g \in [S -> Verdicts] |->
                    [cs \in SUBSET present |-> Verdict(g, n, cs)]]]
<1>1. IsFiniteSet(S) /\ D \in [S -> SUBSET S] /\ Verdicts # {}
  <2>1. IsFiniteSet(S)
    BY MaxCondsAssumption, FS_Interval
  <2>2. [cs \in SUBSET present |-> [state |-> Asked, failed |-> FALSE]] \in Verdicts
    BY DEF Verdicts
  <2> QED
    BY <2>1, <2>2
<1>2. H \in [S -> [[S -> Verdicts] -> Verdicts]]
  <2>1. ASSUME NEW n \in S, NEW g \in [S -> Verdicts], NEW cs \in SUBSET present
        PROVE  Verdict(g, n, cs) \in [state : States, failed : BOOLEAN]
    <3>1. n # 0 => n - 1 \in S
      BY MaxCondsAssumption
    <3>2. n # 0 => g[n - 1][cs] \in [state : States, failed : BOOLEAN]
      BY <3>1 DEF Verdicts
    <3> QED
      BY <3>2, VerdictType
  <2> QED
    BY <2>1 DEF Verdicts
<1>3. \A some \in (SUBSET S) \ {{}} : \E n \in some : D[n] \cap some = {}
  <2> SUFFICES ASSUME NEW some \in SUBSET S, some # {}
               PROVE  \E n \in some : D[n] \cap some = {}
    OBVIOUS
  <2>1. PICK n \in some : \A k \in some : n <= k
    <3>1. some \subseteq Nat
      BY MaxCondsAssumption
    <3> HIDE DEF S
    <3> QED
      BY <3>1, LeastNatural
  <2>2. n - 1 \notin some
    BY <2>1, MaxCondsAssumption
  <2> QED
    BY <2>2
<1>4. \A n \in S : \A g, h \in [S -> Verdicts] :
          (\A d \in D[n] : g[d] = h[d]) => H[n][g] = H[n][h]
  <2> SUFFICES ASSUME NEW n \in S, NEW g \in [S -> Verdicts], NEW h \in [S -> Verdicts],
                      \A d \in D[n] : g[d] = h[d]
               PROVE  H[n][g] = H[n][h]
    OBVIOUS
  <2>1. n # 0 => n - 1 \in D[n]
    BY MaxCondsAssumption
  <2>2. \A cs \in SUBSET present : Verdict(g, n, cs) = Verdict(h, n, cs)
    BY <2>1 DEF Verdict
  <2> QED
    BY <2>2
<1>5. \E g \in [S -> Verdicts] : \A n \in S : g[n] = H[n][g]
  <2> HIDE DEF S, D, H
  <2>1. Recursive(S, Verdicts, D, H)
    BY <1>1, <1>2, <1>3, <1>4 DEF Recursive
  <2> QED
    BY <2>1, Recursion
<1>6. \E g : g = Of(g)
  <2>1. PICK g \in [S -> Verdicts] : \A n \in S : g[n] = H[n][g]
    BY <1>5
  <2>2. \A n \in S : g[n] = [cs \in SUBSET present |-> Verdict(g, n, cs)]
    BY <2>1
  <2>3. g = Of(g)
    BY <2>2
  <2> QED
    BY <2>3
<1>7. AnyFalse = Of(AnyFalse)
  <2>1. AnyFalse = CHOOSE g : g = Of(g)
    BY DEF AnyFalse, Verdict
  <2> QED
    BY <1>6, <2>1
<1>8. \A n \in S : AnyFalse[n] = [cs \in SUBSET present |-> Verdict(AnyFalse, n, cs)]
  <2> SUFFICES ASSUME NEW n \in S
               PROVE  AnyFalse[n] = [cs \in SUBSET present |-> Verdict(AnyFalse, n, cs)]
    OBVIOUS
  <2>1. Of(AnyFalse)[n] = [cs \in SUBSET present |-> Verdict(AnyFalse, n, cs)]
    OBVIOUS
  <2> HIDE DEF Of
  <2> QED
    BY <1>7, <2>1
<1> QED
  BY <1>8

LEMMA ConstraintsFair ==
    ASSUME Objects, OneTimed, Asked \in Fair, NEW cs \in SUBSET present
    PROVE  Constraints(cs) \in Fair
<1> DEFINE Fit(n) == AnyFalse[n][cs].state \in Fair
           Bad == {n \in 0 .. MaxConds : ~Fit(n)}
<1>1. Asked \in States
  BY DEF Fair
<1>2. ASSUME Bad # {} PROVE FALSE
  <2>1. PICK n \in Bad : \A k \in Bad : n <= k
    <3>1. Bad \subseteq Nat
      BY MaxCondsAssumption
    <3> HIDE DEF Bad
    <3> QED
      BY <1>2, <3>1, LeastNatural
  <2>2. AnyFalse[n][cs] = Verdict(AnyFalse, n, cs)
    BY <1>1, AnyFalseIs
  <2>3. CASE n = 0
    BY <2>1, <2>2, <2>3 DEF Verdict
  <2>4. CASE n # 0
    <3>1. n - 1 \in 0 .. MaxConds /\ n - 1 \notin Bad
      BY <2>1, <2>4, MaxCondsAssumption
    <3> DEFINE u == AnyFalse[n - 1][cs]
    <3>2. u.state \in Fair
      BY <3>1
    <3>3. n \in cs => Evaluated[n][u.state] \in Fair
      BY <3>2, AllFairlyEvaluated DEF FairlyEvaluated
    <3>4. AnyFalse[n][cs] = IF u.failed \/ n \notin cs THEN u
                            ELSE [state |-> Evaluated[n][u.state],
                                  failed |-> Evaluated[n][u.state].answers[n] = "false"]
      BY <2>2, <2>4 DEF Verdict
    <3> HIDE DEF u
    <3> QED
      BY <2>1, <3>2, <3>3, <3>4
  <2> QED
    BY <2>3, <2>4
<1> QED
  BY <1>2, MaxCondsAssumption DEF Constraints

-----------------------------------------------------------------------------
(* The objects and their evaluations.                                      *)

\* Time goes on behind an evaluation.
Told == Shown(clock - 1, timer, since, answers)

Nothing == timer = Never /\ since = [c \in Conds |-> Never] /\ answers = NoAnswers

EvalInv ==
    /\ IInv /\ (pc \notin {"link", "missing"} => Linked)
    /\ clock \in Nat \ {0}
    /\ IF meaning = <<>> THEN Nothing
       ELSE /\ pc = "created" /\ OneTimed /\ Told
            /\ \A c \in present : meaning[c] \in Meanings(c)

LEMMA InitEvalInv == Init => EvalInv
BY InitIInv DEF Init, InitFactory, EvalInv, Nothing

LEMMA EvalInvObjects == EvalInv /\ meaning # <<>> => Objects
<1> SUFFICES ASSUME EvalInv, meaning # <<>> PROVE Objects
  OBVIOUS
<1>1. present \subseteq Conds /\ deps \in [Conds -> Dependencies] /\ pc = "created"
  BY DEF EvalInv, IInv, FactoryTypeOK
<1>2. ASSUME NEW c \in present, NEW i \in DOMAIN deps[c] PROVE deps[c][i] \in present
  <2>1. deps[c] # <<>>
    BY <1>2
  <2> QED
    BY <1>1, <2>1 DEF EvalInv, Linked, Deferred
<1>3. ~Cyclic
  BY <1>1, CreatedIsAcyclic DEF EvalInv, AcceptedIfAcyclic
<1> QED
  BY <1>1, <1>2, <1>3 DEF EvalInv, Objects

LEMMA CreateEvalInv == EvalInv /\ Create => EvalInv'
<1> SUFFICES ASSUME EvalInv, Create PROVE EvalInv'
  OBVIOUS
<1>1. /\ CreateConditionals /\ meaning' = meaning /\ clock' = clock /\ timer' = timer
      /\ since' = since /\ answers' = answers
  BY DEF Create, evaluationVars
<1>2. IInv'
  BY <1>1, NextIInv DEF EvalInv
<1>3. present' = present /\ deps' = deps
  BY <1>1 DEF CreateConditionals, Link, CheckNext, Created, HasConflict, CallMarked,
     CallUnmarked, ReturnToCaller, ReturnToFactory, Overflow
<1>4. pc # "created"
  BY <1>1, RunningFacts DEF EvalInv, CreateConditionals, Link, CheckNext, Created,
     HasConflict, CallMarked, CallUnmarked, ReturnToCaller, ReturnToFactory, Overflow, Running
<1>5. (pc \notin {"link", "missing"} => Linked)'
  BY <1>1, <1>3 DEF EvalInv, Linked, Deferred, CreateConditionals, Link, CheckNext, Created,
     HasConflict, CallMarked, CallUnmarked, ReturnToCaller, ReturnToFactory, Overflow, Running
<1> QED
  BY <1>1, <1>2, <1>4, <1>5 DEF EvalInv, Nothing

LEMMA SameFactory == EvalInv /\ UNCHANGED factoryVars =>
                         IInv' /\ (pc \notin {"link", "missing"} => Linked)'
<1> SUFFICES ASSUME EvalInv, UNCHANGED factoryVars
             PROVE  IInv' /\ (pc \notin {"link", "missing"} => Linked)'
  OBVIOUS
<1>1. IInv'
  BY NextIInv DEF EvalInv
<1> QED
  BY <1>1 DEF EvalInv, factoryVars, Linked, Deferred

LEMMA ReadEvalInv ==
    ASSUME MaxViolated <= 1, 0 \notin Durations, EvalInv, Read
    PROVE  EvalInv'
<1>1. /\ pc = "created" /\ meaning = <<>> /\ UNCHANGED factoryVars
      /\ pc' = pc /\ present' = present /\ deps' = deps /\ clock' = clock
      /\ timer' = timer /\ since' = since /\ answers' = answers
      /\ \A c \in present : meaning'[c] \in Meanings(c)
      /\ Cardinality({c \in present : Timed(meaning'[c])}) <= MaxViolated
  BY DEF Read, factoryVars
<1>2. IInv' /\ (pc \notin {"link", "missing"} => Linked)'
  BY <1>1, SameFactory
<1>3. \A c, d \in present : Timed(meaning'[c]) /\ Timed(meaning'[d]) => c = d
  <2> DEFINE timed == {c \in present : Timed(meaning'[c])}
  <2>1. IsFiniteSet(timed)
    <3>1. IsFiniteSet(1 .. MaxConds)
      BY MaxCondsAssumption, FS_Interval
    <3> QED
      BY <3>1, FS_Subset DEF EvalInv, IInv, FactoryTypeOK, Conds
  <2>2. Cardinality(timed) \in Nat /\ Cardinality(timed) <= 1
    <3>1. Cardinality(timed) \in Nat
      BY <2>1, FS_CardinalityType
    <3>2. MaxViolated \in Nat /\ Cardinality(timed) <= MaxViolated
      BY <1>1, ConditionalEvaluationAssumption
    <3> HIDE DEF timed
    <3> QED
      BY <3>1, <3>2
  <2> HIDE DEF timed
  <2>3. timed = {} \/ \E x : timed = {x}
    BY <2>1, <2>2, FS_EmptySet, FS_Singleton
  <2> QED
    BY <2>3 DEF timed
<1>4. ASSUME NEW c \in present, Timed(meaning'[c]) PROVE meaning'[c].duration # 0
  <2>1. meaning'[c].kind = "ConstraintViolated" /\ meaning'[c] \in Meanings(c)
    BY <1>1, <1>4 DEF Timed
  <2>2. Len(deps[c]) = 0 \/ Len(deps[c]) = 1 \/ Len(deps[c]) = 2
    <3>1. deps[c] \in Dependencies
      BY DEF EvalInv, IInv, FactoryTypeOK
    <3> QED
      BY <3>1 DEF Dependencies
  <2>3. CASE Len(deps[c]) = 0
    BY <2>1, <2>3, ConditionalEvaluationAssumption DEF Meanings, LeafKinds
  <2>4. CASE Len(deps[c]) = 1
    BY <2>1, <2>4 DEF Meanings
  <2>5. CASE Len(deps[c]) = 2
    BY <2>1, <2>5 DEF Meanings
  <2> QED
    BY <2>2, <2>3, <2>4, <2>5
<1>5. OneTimed'
  BY <1>1, <1>3, <1>4 DEF OneTimed
<1>6. (\A c \in present : meaning[c] \in Meanings(c))'
  BY <1>1 DEF Meanings
<1>7. Nothing /\ Nothing'
  BY <1>1 DEF EvalInv, Nothing
<1>8. Told'
  <2>1. \A w \in present' : Needs(w)' \subseteq Conds
    <3>1. present \subseteq Conds /\ deps \in [Conds -> Dependencies]
      BY DEF EvalInv, IInv, FactoryTypeOK
    <3> QED
      BY <1>1, <3>1, DependencyFacts DEF Needs
  <2>2. /\ clock' - 1 \in Nat /\ timer' = 0 /\ since' = [c \in Conds |-> 0]
        /\ answers' \in [Conds -> Truth] /\ \A c \in present' : answers'[c] # "true"
    <3>1. answers' = [c \in Conds |-> "unknown"] /\ present' \subseteq Conds
      BY <1>1, <1>7 DEF Nothing, NoAnswers, Unknown, EvalInv, IInv, FactoryTypeOK
    <3> QED
      BY <1>1, <1>7, <3>1 DEF EvalInv, Nothing, Truth, Unknown, Never
  <2> QED
    BY <2>1, <2>2 DEF Told, Shown
<1> QED
  BY <1>1, <1>2, <1>5, <1>6, <1>7, <1>8 DEF EvalInv

LEMMA SameEvalInv ==
    ASSUME EvalInv, UNCHANGED <<factoryVars, meaning, clock, timer, since, answers>>
    PROVE  EvalInv'
<1>1. /\ UNCHANGED factoryVars /\ pc' = pc /\ present' = present /\ deps' = deps
      /\ meaning' = meaning /\ clock' = clock /\ timer' = timer /\ since' = since
      /\ answers' = answers
  BY DEF factoryVars
<1>2. IInv' /\ (pc \notin {"link", "missing"} => Linked)'
  BY <1>1, SameFactory
<1>3. CASE meaning = <<>>
  BY <1>1, <1>2, <1>3 DEF EvalInv, Nothing
<1>4. CASE meaning # <<>>
  <2>1. OneTimed' /\ Told'
    BY <1>1, <1>4 DEF EvalInv, OneTimed, Told, Shown, Needs
  <2>2. (\A c \in present : meaning[c] \in Meanings(c))'
    BY <1>1, <1>4 DEF EvalInv, Meanings
  <2> QED
    BY <1>1, <1>2, <1>4, <2>1, <2>2 DEF EvalInv
<1> QED
  BY <1>3, <1>4

LEMMA UpdateEvalInv == ASSUME EvalInv, NEW r, Update(r) PROVE EvalInv'
BY SameEvalInv DEF Update

LEMMA AskedFair == EvalInv /\ meaning # <<>> => Asked \in Fair
<1> SUFFICES ASSUME EvalInv, meaning # <<>> PROVE Asked \in Fair
  OBVIOUS
<1>1. /\ timer \in 0 .. clock - 1 /\ since \in [Conds -> 0 .. clock - 1] /\ clock \in Nat
      /\ \A w \in present : \A x \in Needs(w) : Timed(meaning[w]) => timer = since[x]
  BY DEF EvalInv, Told, Shown
<1>2. /\ Asked.timer = timer /\ Asked.since = since /\ Asked.answers = NoAnswers
      /\ NoAnswers \in [Conds -> Truth]
      /\ Asked = [timer |-> timer, since |-> since, answers |-> NoAnswers]
  BY StatesFacts
<1>3. timer \in 0 .. clock /\ since \in [Conds -> 0 .. clock] /\ since \in [Conds -> Nat]
  BY <1>1
<1>4. present \subseteq Conds /\ \A c \in Conds : NoAnswers[c] # "true"
  BY DEF EvalInv, IInv, FactoryTypeOK, NoAnswers, Unknown
<1>5. Asked \in States
  BY <1>2, <1>3 DEF States
<1> QED
  BY <1>1, <1>2, <1>3, <1>4, <1>5 DEF Fair, Shown

LEMMA EvaluateEvalInv ==
    ASSUME EvalInv, NEW cs \in SUBSET present, Evaluate(cs)
    PROVE  EvalInv'
<1>1. /\ UNCHANGED factoryVars /\ pc' = pc /\ present' = present /\ deps' = deps
      /\ meaning' = meaning /\ meaning # <<>> /\ clock' = clock + 1
      /\ timer' = Constraints(cs).timer /\ since' = Constraints(cs).since
      /\ answers' = Constraints(cs).answers
  BY DEF Evaluate, factoryVars
<1>2. IInv' /\ (pc \notin {"link", "missing"} => Linked)'
  BY <1>1, SameFactory
<1>3. Constraints(cs) \in Fair
  BY <1>1, EvalInvObjects, AskedFair, ConstraintsFair DEF EvalInv
<1>4. clock \in Nat \ {0} /\ clock' \in Nat \ {0} /\ clock' - 1 = clock
  BY <1>1 DEF EvalInv
<1>5. Shown(clock, timer', since', answers')
  BY <1>1, <1>3 DEF Fair
<1>6. Told'
  BY <1>1, <1>4, <1>5 DEF Told, Shown, Needs
<1> QED
  BY <1>1, <1>2, <1>4, <1>6 DEF EvalInv, OneTimed, Meanings

LEMMA NextEvalInv ==
    ASSUME MaxViolated <= 1, 0 \notin Durations, EvalInv, [Next]_vars
    PROVE  EvalInv'
<1>1. CASE Create
  BY <1>1, CreateEvalInv
<1>2. CASE Read
  BY <1>2, ReadEvalInv
<1>3. ASSUME NEW r \in Readings, Update(r) PROVE EvalInv'
  BY <1>3, UpdateEvalInv
<1>4. ASSUME NEW cs \in (SUBSET present) \ {{}}, Evaluate(cs) PROVE EvalInv'
  BY <1>4, EvaluateEvalInv
<1>5. CASE UNCHANGED vars
  BY <1>5, SameEvalInv DEF vars, evaluationVars
<1> QED
  BY <1>1, <1>2, <1>3, <1>4, <1>5 DEF Next

LEMMA EvalInvImplies == EvalInv => EvaluationInv
<1> SUFFICES ASSUME EvalInv PROVE EvaluationInv
  OBVIOUS
<1>1. TypeOK
  <2>1. FactoryTypeOK /\ clock \in Nat \ {0}
    BY DEF EvalInv, IInv
  <2>2. /\ timer \in 0 .. clock /\ since \in [Conds -> 0 .. clock]
        /\ answers \in [Conds -> Truth]
    <3>1. CASE meaning = <<>>
      BY <2>1, <3>1 DEF EvalInv, Nothing, NoAnswers, Never, Truth, Unknown
    <3>2. CASE meaning # <<>>
      BY <2>1, <3>2 DEF EvalInv, Told, Shown
    <3> QED
      BY <3>1, <3>2
  <2> QED
    BY <2>1, <2>2 DEF TypeOK
<1>2. ViolatedForDuration
  <2> SUFFICES ASSUME NEW c \in present, meaning # <<>>, Timed(meaning[c]),
                      answers[c] = "true"
               PROVE  /\ since[deps[c][1]] # Never
                      /\ clock - 1 - since[deps[c][1]] >= meaning[c].duration
    BY DEF ViolatedForDuration
  <2>1. PICK x \in Needs(c) : Watches(c, x)
    BY EvalInvObjects, Kinds DEF Looks, Negates, Joins
  <2>2. deps[c][1] = x
    BY <2>1 DEF Watches
  <2> QED
    BY <2>1, <2>2 DEF EvalInv, Told, Shown
<1>3. Independent
  <2> SUFFICES ASSUME meaning # <<>>, NEW c \in present, NEW d \in present
               PROVE  Evaluated[c][Evaluated[d][Asked]].answers[c]
                          = Evaluated[c][Asked].answers[c]
    BY DEF Independent
  <2>1. Asked \in States
    BY AskedFair DEF Fair
  <2> QED
    BY <2>1, EvalInvObjects, EvaluationsIndependent DEF EvalInv
<1> QED
  BY <1>1, <1>2, <1>3 DEF EvaluationInv

\* With at most one timed conditional, and that for some time, no conditional says
\* its constraint is violated for a duration unless it was false all that time, and
\* what a conditional answers does not depend on those evaluated before it.
THEOREM EvaluationsAreReal ==
    ASSUME MaxViolated <= 1, 0 \notin Durations
    PROVE  Spec => []EvaluationInv
<1>1. Init => EvalInv
  BY InitEvalInv
<1>2. EvalInv /\ [Next]_vars => EvalInv'
  BY NextEvalInv
<1>3. EvalInv => EvaluationInv
  BY EvalInvImplies
<1> QED
  BY <1>1, <1>2, <1>3, PTL DEF Spec

=============================================================================
