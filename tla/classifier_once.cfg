\* Spec 4.3/8: a termination is surfaced once; at the equality boundary
\* the code reports it a second time.
CONSTANTS
    Interval = 3
    Horizon = 12
    MaxTerminations = 2
    MaxSkippedTicks = 0
    Skew = 0
    NoTermination = NoTermination
SPECIFICATION Spec
INVARIANT SurfacedAtMostOnce
CHECK_DEADLOCK FALSE
