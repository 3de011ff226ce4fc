SPECIFICATION Spec
CONSTANTS
    MaxConds = 3
    Leaves <- MCLeaves
    Readings <- MCReadings
    Durations <- MCDurations
    MaxViolated = 1
    MaxTime = 4
INVARIANTS FactoryInv AcceptedIfAcyclic 
CHECK_DEADLOCK FALSE
