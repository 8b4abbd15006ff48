\* One Process call while the pod and workload informers update their
\* caches once between two iterations of the range loop.
CONSTANTS
    Pods = {p1}
    Containers = {c1, c2, c3}
    Unset = Unset
    NotFound = NotFound
    Workloads <- MCWorkloads
    Phases <- MCPhases
    StatusStates <- MCChurnStatusStates
    MaxCacheUpdates = 1
SPECIFICATION Spec
INVARIANTS
    StatusReportedOnce
    NoScrapedSetReplaced
\* Process returns: the model stops once the batch is merged.
CHECK_DEADLOCK FALSE
