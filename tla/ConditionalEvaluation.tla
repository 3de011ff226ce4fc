------------------------- MODULE ConditionalEvaluation -------------------------
(***************************************************************************)
(* evaluateConditional() of the conditionals ConditionalFactory created,   *)
(* and the constraints ObjectiveController evaluates with it.  What a      *)
(* conditional says, its meaning, is part of its payload; the factory does *)
(* not look at it, so it is chosen here when the set has been created.     *)
(*                                                                         *)
(* Reports reach the conditionals as their observers.  Numbers are small   *)
(* integers; the geometry of a water zone's shapes is a set of positions.  *)
(* initialFailureTime is a static variable of evaluateConditional(): there *)
(* is one for all ConstraintViolated conditionals.                         *)
(***************************************************************************)
EXTENDS ConditionalFactory, Integers

CONSTANTS
    Leaves,      \* meanings of conditionals that depend on no other
    Readings,    \* what the reports may say, field by field
    Durations,   \* durations of ConstraintViolated conditionals, NoDuration one of them
    MaxViolated, \* how many ConstraintViolated conditionals with a duration
    MaxTime      \* bound on the clock

Unknown == "unknown"
Truth == {"true", "false", Unknown}
Never == 0
NoDuration == -1
NoReading == -1

LeafKinds == {"Depth", "DepthRate", "HeadingSector", "PitchRate", "RelativeSpeed",
              "RollRate", "Speed", "Time", "WaterZone", "YawRate"}

ASSUME ConditionalEvaluationAssumption ==
    /\ \A m \in Leaves : m.kind \in LeafKinds
    /\ Durations \subseteq Nat \cup {NoDuration}
    /\ MaxViolated \in Nat /\ MaxTime \in Nat

VARIABLES
    meaning,  \* the specialization of each conditional of the set
    data,     \* the latest reports, NoReading where there is none
    clock,    \* RealtimeSystemClock, from 1
    timer,    \* initialFailureTime
    since,    \* history: since when a constraint is false, as the conditionals with a
              \* duration saw it
    answers   \* what the conditionals answered in the last evaluation

evaluationVars == <<meaning, data, clock, timer, since, answers>>
vars == <<factoryVars, evaluationVars>>

Says(b) == IF b THEN "true" ELSE "false"

-----------------------------------------------------------------------------
(* Conditionals that depend on reports.                                    *)

\* compareWithConditionalOp().
Compare(lhs, rhs, op) ==
    CASE op = "GREATER_THAN"             -> lhs > rhs
      [] op = "GREATER_THAN_OR_EQUAL_TO" -> lhs >= rhs
      [] op = "LESS_THAN"                -> lhs < rhs
      [] op = "LESS_THAN_OR_EQUAL_TO"    -> lhs <= rhs

Compared(field, m) ==
    IF data[field] = NoReading THEN Unknown
    ELSE Says(Compare(data[field], m.bound, m.op))

DepthConditional(m) == Compared("depth", m)
DepthRateConditional(m) == Compared("downSpeed", m)
PitchRateConditional(m) == Compared("pitchRate", m)
RollRateConditional(m) == Compared("rollRate", m)
YawRateConditional(m) == Compared("yawRate", m)
SpeedConditional(m) == Compared("speedOverGround", m)
RelativeSpeedConditional(m) == Compared("speedThroughWater", m)
TimeConditional(m) == Says(Compare(clock, m.bound, m.op))

\* Every sector has to be satisfied, its borders belong to it.
HeadingSectorConditional(m) ==
    IF data["yaw"] = NoReading THEN Unknown
    ELSE Says(\A s \in m.sectors :
            IF s.inside THEN data["yaw"] >= s.start /\ data["yaw"] <= s.end
            ELSE ~(data["yaw"] > s.start /\ data["yaw"] < s.end))

\* isWithinElevationRange(): depths grow downwards, altitudes upwards.
Within(elevation, ceiling) ==
    LET above == IF (elevation.of = "depth") = ceiling
                 THEN data[elevation.of] - elevation.at
                 ELSE elevation.at - data[elevation.of]
    IN  IF data[elevation.of] = NoReading THEN Unknown ELSE Says(above >= 0)

WithinElevationRange(m) ==
    LET below == Within(m.ceiling, TRUE)
    IN  IF below # "true" THEN below ELSE Within(m.floor, FALSE)

\* Outside the range of elevations one is outside of all zones.
WaterZoneConditional(m) ==
    LET range  == WithinElevationRange(m)
        at     == data["position"]
    IN  IF data["position"] = NoReading \/ range = Unknown THEN Unknown
        ELSE IF range = "false" THEN Says(~m.inside)
        ELSE IF m.inside THEN Says(\A z \in m.zones : at \in z)
        ELSE Says(\A z \in m.zones : at \notin z)

Leaf(m) ==
    CASE m.kind = "Depth"         -> DepthConditional(m)
      [] m.kind = "DepthRate"     -> DepthRateConditional(m)
      [] m.kind = "HeadingSector" -> HeadingSectorConditional(m)
      [] m.kind = "PitchRate"     -> PitchRateConditional(m)
      [] m.kind = "RelativeSpeed" -> RelativeSpeedConditional(m)
      [] m.kind = "RollRate"      -> RollRateConditional(m)
      [] m.kind = "Speed"         -> SpeedConditional(m)
      [] m.kind = "Time"          -> TimeConditional(m)
      [] m.kind = "WaterZone"     -> WaterZoneConditional(m)
      [] m.kind = "YawRate"       -> YawRateConditional(m)

-----------------------------------------------------------------------------
(* Conditionals that depend on others: an evaluation takes a state, the    *)
(* timer with the history and the answers so far, and gives another.       *)

States == [timer : Nat, since : [Conds -> Nat], answers : [Conds -> Truth]]

NoAnswers == [c \in Conds |-> Unknown]

Answer(c, v, s) == [s EXCEPT !.answers[c] = v]

LogicalNOT(v) == IF v = Unknown THEN Unknown ELSE Says(v # "true")

\* Both are evaluated, and both have to be known.
LogicalAND(v, w) ==
    IF Unknown \in {v, w} THEN Unknown ELSE Says(v = "true" /\ w = "true")

LogicalOR(v, w) ==
    IF Unknown \in {v, w} THEN Unknown ELSE Says(v = "true" \/ w = "true")

\* Mutant of Achieved: the time of the failure stays.
AchievedLate(s) == s

\* The constraint is true: the failure count is reset.
Achieved(s) == [s EXCEPT !.timer = Never]

\* The constraint is false, for the first time or long enough.
Failing(c, duration, s) ==
    IF s.timer = Never THEN Answer(c, "false", [s EXCEPT !.timer = clock])
    ELSE Answer(c, Says(clock - s.timer >= duration), s)

\* The constraint of c is v: c is its negation, or true once it was false for
\* the duration.
ConstraintViolated(c, duration, v, s) ==
    LET x == deps[c][1]
        h == [s EXCEPT !.since[x] =
                CASE v = "true" -> Never
                  [] v = "false" -> IF @ = Never THEN clock ELSE @
                  [] OTHER -> @]
    IN  IF duration = NoDuration \/ v = Unknown THEN Answer(c, LogicalNOT(v), s)
        ELSE IF v = "true" THEN Answer(c, "false", Achieved(h))
        ELSE Failing(c, duration, h)

\* evaluateConditional() of c, where e evaluates those it depends on.
Evaluation(e, c, s) ==
    LET m == meaning[c]
        first  == e[deps[c][1]][s]
        second == e[deps[c][2]][first]
        v == first.answers[deps[c][1]]
        w == second.answers[deps[c][2]]
    IN  CASE deps[c] = <<>> -> Answer(c, Leaf(m), s)
          [] m.kind = "LogicalNOT" -> Answer(c, LogicalNOT(v), first)
          [] m.kind = "ConstraintViolated" ->
                ConstraintViolated(c, m.duration, v, first)
          [] m.kind = "LogicalAND" -> Answer(c, LogicalAND(v, w), second)
          [] m.kind = "LogicalOR" -> Answer(c, LogicalOR(v, w), second)

Evaluated[c \in present] == [s \in States |-> Evaluation(Evaluated, c, s)]

Asked == [timer |-> timer, since |-> since, answers |-> NoAnswers]

\* std::any_of() over the constraints in their order, up to n: those after one
\* that is false are not evaluated.
AnyFalse[n \in 0 .. MaxConds] ==
    [cs \in SUBSET present |->
        IF n = 0 THEN [state |-> Asked, failed |-> FALSE]
        ELSE LET u == AnyFalse[n - 1][cs]
                 t == Evaluated[n][u.state]
             IN  IF u.failed \/ n \notin cs THEN u
                 ELSE [state |-> t, failed |-> t.answers[n] = "false"]]

Constraints(cs) == AnyFalse[MaxConds][cs].state

-----------------------------------------------------------------------------
Meanings(c) ==
    CASE Len(deps[c]) = 0 -> Leaves
      [] Len(deps[c]) = 1 -> {[kind |-> "LogicalNOT"]} \cup
            {[kind |-> "ConstraintViolated", duration |-> d] : d \in Durations}
      [] Len(deps[c]) = 2 -> {[kind |-> "LogicalAND"], [kind |-> "LogicalOR"]}

Timed(m) == m.kind = "ConstraintViolated" /\ m.duration # NoDuration

Fields == {"depth", "altitude", "yaw", "position", "downSpeed", "pitchRate",
           "rollRate", "yawRate", "speedOverGround", "speedThroughWater"}

Init ==
    /\ InitFactory
    /\ meaning = <<>>
    /\ data = [f \in Fields |-> NoReading]
    /\ clock = 1 /\ timer = Never
    /\ since = [c \in Conds |-> Never] /\ answers = NoAnswers

Create == CreateConditionals /\ UNCHANGED evaluationVars

\* The objects say what their payloads say.
Read ==
    /\ pc = "created" /\ meaning = <<>>
    /\ meaning' \in {m \in [present -> UNION {Meanings(c) : c \in present}] :
                        \A c \in present : m[c] \in Meanings(c)}
    /\ Cardinality({c \in present : Timed(meaning'[c])}) <= MaxViolated
    /\ UNCHANGED <<factoryVars, data, clock, timer, since, answers>>

\* Subject::notify() of the report consumers: update() of the conditionals.
Update(r) ==
    /\ meaning # <<>>
    /\ data' = r
    /\ UNCHANGED <<factoryVars, meaning, clock, timer, since, answers>>

\* The objective is executing and its constraints cs are evaluated.
Evaluate(cs) ==
    /\ meaning # <<>> /\ clock < MaxTime
    /\ LET s == Constraints(cs)
       IN  timer' = s.timer /\ since' = s.since /\ answers' = s.answers
    /\ clock' = clock + 1
    /\ UNCHANGED <<factoryVars, meaning, data>>

Next ==
    \/ Create \/ Read
    \/ \E r \in Readings : Update(r)
    \/ \E cs \in (SUBSET present) \ {{}} : Evaluate(cs)

Spec == Init /\ [][Next]_vars

-----------------------------------------------------------------------------
(* Properties.                                                             *)

TypeOK ==
    /\ FactoryTypeOK
    /\ timer \in 0 .. clock /\ answers \in [Conds -> Truth]
    /\ \A c \in Conds : since[c] \in 0 .. clock

\* A conditional that says its constraint is violated for a duration does so
\* only if the constraint was false at every evaluation for that duration:
\* "the duration the constraint needs to be false to be considered violated".
ViolatedForDuration ==
    \A c \in present :
        meaning # <<>> /\ Timed(meaning[c]) /\ answers[c] = "true" =>
            LET false == since[deps[c][1]]
            IN  false # Never /\ clock - 1 - false >= meaning[c].duration

\* What a conditional answers does not depend on the conditionals that were
\* evaluated before it in the same cycle, itself included: an objective that
\* evaluates a constraint once more, or under another, gets the same answer.
Independent ==
    meaning # <<>> =>
        \A c, d \in present :
            Evaluated[c][Evaluated[d][Asked]].answers[c] = Evaluated[c][Asked].answers[c]

\* With at most one timed conditional an answer is what the readings say, over
\* the time they are to be looked at.  (A duration of 0 is not independent of
\* repetition: the first evaluation sets the timer, the next finds it expired.)
EvaluationInv == TypeOK /\ ViolatedForDuration /\ Independent
=============================================================================
