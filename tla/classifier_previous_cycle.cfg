\* Spec 4.3: a restart within the interval is surfaced. The node's clock,
\* which stamps FinishedAt, runs one tick behind the collector's clock,
\* which stamps batch.Timestamp, and a cycle that overruns makes the ticker
\* drop one tick.
CONSTANTS
    Interval = 3
    Horizon = 12
    MaxTerminations = 2
    MaxSkippedTicks = 1
    Skew = 1
    NoTermination = NoTermination
SPECIFICATION Spec
INVARIANT SurfacedAtLeastOnce
CHECK_DEADLOCK FALSE
