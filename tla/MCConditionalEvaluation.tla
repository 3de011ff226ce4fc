------------------------ MODULE MCConditionalEvaluation ------------------------
(* Meanings of conditionals and readings of reports for TLC. *)
EXTENDS ConditionalEvaluation

Numeric(kind, op) == [kind |-> kind, op |-> op, bound |-> 1]

MCLeaves ==
    {Numeric("Depth", "LESS_THAN_OR_EQUAL_TO"), Numeric("DepthRate", "LESS_THAN"),
     Numeric("PitchRate", "GREATER_THAN"), Numeric("RollRate", "LESS_THAN"),
     Numeric("YawRate", "GREATER_THAN_OR_EQUAL_TO"), Numeric("Speed", "LESS_THAN"),
     Numeric("RelativeSpeed", "GREATER_THAN"),
     [kind |-> "Time", op |-> "GREATER_THAN", bound |-> 2],
     [kind |-> "HeadingSector",
      sectors |-> {[inside |-> TRUE, start |-> 0, end |-> 1],
                   [inside |-> FALSE, start |-> 1, end |-> 3]}],
     [kind |-> "WaterZone", inside |-> TRUE, zones |-> {{0, 1}, {1, 2}},
      ceiling |-> [of |-> "depth", at |-> 1], floor |-> [of |-> "altitude", at |-> 1]],
     [kind |-> "WaterZone", inside |-> FALSE, zones |-> {{0}, {2}},
      ceiling |-> [of |-> "altitude", at |-> 1], floor |-> [of |-> "depth", at |-> 2]]}

\* Every field says the same: what is compared with what differs in the leaves.
MCReadings == {[f \in Fields |-> n] : n \in {0, 2}}

MCDurations == {NoDuration, 2}
=============================================================================
