\* Spec 4.2 says the Sets of a Running pod get its start time as create time.
CONSTANTS
    Pods = {p1}
    Containers = {c1, c2}
    Unset = Unset
    NotFound = NotFound
    Workloads <- MCWorkloads
    Phases <- MCPhases
    StatusStates <- MCStatusStates
    MaxCacheUpdates = 0
SPECIFICATION Spec
INVARIANT CreateTimeKnown
CHECK_DEADLOCK FALSE
