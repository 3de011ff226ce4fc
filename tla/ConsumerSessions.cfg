SPECIFICATION Spec
CONSTANTS
    MaxSessions = 2
    MaxSends = 3
    KeyOnlyStatus = "CANCELED"
    ConsumerFaults = {"send", "dispose", "setup", "teardown"}
INVARIANTS ConsumerInv EndIsReal OneLiveCommand
CHECK_DEADLOCK FALSE
PROPERTIES EndIsNoticed LeftIsEnded
