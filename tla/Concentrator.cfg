SPECIFICATION Spec
CONSTANTS
    Configurations <- Boards
    MaxFaults = 2
    MaxSends = 2
INVARIANTS McusTookParameters RoundsInStep SendIsHonest
PROPERTY StartEnds
CHECK_DEADLOCK FALSE
