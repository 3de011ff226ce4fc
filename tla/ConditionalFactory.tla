-------------------------- MODULE ConditionalFactory --------------------------
(***************************************************************************)
(* ConditionalFactory::createConditionals(): objects are made of the       *)
(* conditionals of a report, those that depend on others are linked to     *)
(* them, and a set with a circular dependency is refused.                  *)
(*                                                                         *)
(* hasConflict() is a recursion that marks the conditionals on its way in  *)
(* a static map and erases a mark that it meets; here it is one step per   *)
(* call and return, with the frames of its calls as a stack.  What a call  *)
(* does depends only on the conditional and on the map, so a call that is  *)
(* made again, with the same map, by a call it is part of never returns.   *)
(*                                                                         *)
(* The conditionals are numbered as the report and the maps order them.    *)
(* The factory looks only at what getDependencies() returns.               *)
(***************************************************************************)
EXTENDS Naturals, Sequences, FiniteSets

CONSTANT MaxConds  \* how many conditionals there may be

ASSUME MaxCondsAssumption == MaxConds \in Nat

Conds == 1 .. MaxConds

VARIABLES
    present,  \* the conditionals of the report
    deps,     \* getDependencies(): at most two
    pc,       \* where createConditionals() is
    todo,     \* conditionals of deferred that are to be checked
    stack,    \* the calls of hasConflict(), the latest last
    lookup    \* its static map

factoryVars == <<present, deps, pc, todo, stack, lookup>>

Dependencies == {<<>>} \cup {<<a>> : a \in Conds} \cup {<<a, b>> : a, b \in Conds}

\* hasDependencies().
Deferred == {c \in present : deps[c] # <<>>}

InitFactory ==
    /\ present \in SUBSET Conds
    /\ deps \in [Conds -> Dependencies]
    /\ \A c \in Conds \ present : deps[c] = <<>>
    /\ pc = "link" /\ todo = {}
    /\ stack = <<>> /\ lookup = {}

-----------------------------------------------------------------------------
Linked == \A c \in Deferred : \A i \in DOMAIN deps[c] : deps[c][i] \in present

\* The objects are created and linked, or one of those referred to is missing.
Link ==
    /\ pc = "link"
    /\ \/ /\ Linked
          /\ pc' = "check" /\ todo' = Deferred
       \/ /\ ~Linked
          /\ pc' = "missing" /\ UNCHANGED todo
    /\ UNCHANGED <<present, deps, stack, lookup>>

Top == stack[Len(stack)]
Callers == SubSeq(stack, 1, Len(stack) - 1)

\* Mutant of Frame: one off at the first dependency.
FrameBefore(c) == [node |-> c, marks |-> lookup, next |-> 0, found |-> FALSE]

\* A frame of hasConflict(): marks is the map it found, next the dependency
\* it looks at next, found what those before it returned.
Frame(c) == [node |-> c, marks |-> lookup, next |-> 1, found |-> FALSE]

\* The call for the next deferred conditional, the map being empty.
CheckNext ==
    /\ pc = "check" /\ stack = <<>> /\ todo # {}
    /\ \E c \in todo :
        /\ \A d \in todo : c <= d
        /\ todo' = todo \ {c}
        /\ stack' = <<Frame(c)>>
        /\ lookup' = lookup \cup {c}
    /\ UNCHANGED <<present, deps, pc>>

\* Every deferred conditional has been checked.
Created ==
    /\ pc = "check" /\ stack = <<>> /\ todo = {}
    /\ pc' = "created"
    /\ UNCHANGED <<present, deps, todo, stack, lookup>>

\* A call that is made by a call just like it.
Endless ==
    \E i \in 1 .. Len(stack) - 1 :
        stack[i].node = Top.node /\ stack[i].marks = Top.marks

Running == pc = "check" /\ stack # <<>> /\ ~Endless

\* Mutant of CallMarked: what is found is not told to the caller.
CallMarkedLost ==
    /\ Running /\ Top.next \in DOMAIN deps[Top.node]
    /\ LET c == deps[Top.node][Top.next]
       IN  /\ c \in lookup
           /\ lookup' = lookup \ {c}
           /\ stack' = Append(Callers, [Top EXCEPT !.next = @ + 1])
    /\ UNCHANGED <<present, deps, pc, todo>>

\* The call for a dependency that is marked erases the mark and returns true.
CallMarked ==
    /\ Running /\ Top.next \in DOMAIN deps[Top.node]
    /\ LET c == deps[Top.node][Top.next]
       IN  /\ c \in lookup
           /\ lookup' = lookup \ {c}
           /\ stack' = Append(Callers, [Top EXCEPT !.next = @ + 1, !.found = TRUE])
    /\ UNCHANGED <<present, deps, pc, todo>>

\* The call for one that is not marks it and looks at its dependencies.
CallUnmarked ==
    /\ Running /\ Top.next \in DOMAIN deps[Top.node]
    /\ LET c == deps[Top.node][Top.next]
       IN  /\ c \notin lookup
           /\ lookup' = lookup \cup {c}
           /\ stack' = stack \o <<Frame(c)>>
    /\ UNCHANGED <<present, deps, pc, todo>>

\* Mutant of Unmark: the mark stays.
UnmarkNot(c) == lookup

\* The mark is erased when the call returns.
Unmark(c) == lookup \ {c}

\* first || second is returned to the caller.
ReturnToCaller ==
    /\ Running /\ Top.next \notin DOMAIN deps[Top.node] /\ Len(stack) > 1
    /\ lookup' = Unmark(Top.node)
    /\ LET caller == stack[Len(stack) - 1]
       IN  stack' = Append(SubSeq(stack, 1, Len(stack) - 2),
                           [caller EXCEPT !.next = @ + 1,
                                          !.found = @ \/ Top.found])
    /\ UNCHANGED <<present, deps, pc, todo>>

\* It is returned to createConditionals().
ReturnToFactory ==
    /\ Running /\ Top.next \notin DOMAIN deps[Top.node] /\ Len(stack) = 1
    /\ lookup' = Unmark(Top.node)
    /\ stack' = <<>>
    /\ pc' = IF Top.found THEN "refused" ELSE "check"
    /\ UNCHANGED <<present, deps, todo>>

\* The endless recursion ends the process.
Overflow ==
    /\ pc = "check" /\ stack # <<>> /\ Endless
    /\ pc' = "overflow"
    /\ UNCHANGED <<present, deps, todo, stack, lookup>>

HasConflict == CallMarked \/ CallUnmarked \/ ReturnToCaller \/ ReturnToFactory

CreateConditionals == Link \/ CheckNext \/ Created \/ HasConflict \/ Overflow

SpecFactory ==
    InitFactory /\ [][CreateConditionals]_factoryVars /\ WF_factoryVars(CreateConditionals)

-----------------------------------------------------------------------------
(* Properties.                                                             *)

FactoryTypeOK ==
    /\ present \subseteq Conds
    /\ deps \in [Conds -> Dependencies]
    /\ pc \in {"link", "missing", "check", "refused", "overflow", "created"}
    /\ todo \subseteq Conds
    /\ stack \in Seq([node : Conds, marks : SUBSET Conds, next : 1 .. 3,
                      found : BOOLEAN])
    /\ lookup \subseteq Conds

\* A circle: some conditionals of which each depends on one of them.
Circular(some) ==
    \A c \in some : \E i \in DOMAIN deps[c] : deps[c][i] \in some

Cyclic == \E some \in (SUBSET Conds) \ {{}} : Circular(some)

\* Marks never outlive the calls that made them: the static map is empty
\* whenever hasConflict() has returned, so that one set of conditionals is
\* not judged by what was left of another.
MapEmptied == stack = <<>> => lookup = {}

\* A set is refused only for a circular dependency (hasConflict()).
RefusedIfCyclic == pc = "refused" => Cyclic

\* hasConflict() leaves its static map as it found it and refuses nothing but
\* circles.
FactoryInv == FactoryTypeOK /\ MapEmptied /\ RefusedIfCyclic

\* And no set with one is accepted: its evaluation would not end ("Make sure
\* there are no circular dependencies").
AcceptedIfAcyclic == pc = "created" => ~Cyclic

\* createConditionals() returns.
Returns == pc # "overflow"
=============================================================================
