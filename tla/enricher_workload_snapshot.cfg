\* Spec 5 says enrichment sees a stable snapshot of the workload cache; the
\* code reads it once per container Set (line 112) and once per pod Set
\* (line 166), so a watch update between the two reads splits the labels.
CONSTANTS
    Pods = {p1}
    Containers = {c1, c2}
    Unset = Unset
    NotFound = NotFound
    Workloads <- MCWorkloads
    Phases <- MCPhases
    StatusStates <- MCStatusStates
    MaxCacheUpdates = 1
SPECIFICATION Spec
INVARIANT WorkloadLabelsAgree
CHECK_DEADLOCK FALSE
