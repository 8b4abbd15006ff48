\* Collections every 3 ticks up to tick 12; up to two terminations.
CONSTANTS
    Interval = 3
    Horizon = 12
    MaxTerminations = 2
    MaxSkippedTicks = 0
    Skew = 0
    NoTermination = NoTermination
SPECIFICATION Spec
INVARIANTS
    TypeOK
    SurfacedAtLeastOnce
\* The model stops at the time horizon.
CHECK_DEADLOCK FALSE
