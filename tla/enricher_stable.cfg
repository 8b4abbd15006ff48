\* One Process call over one pod with two containers; the caches do not
\* change during the call.
CONSTANTS
    Pods = {p1}
    Containers = {c1, c2}
    Unset = Unset
    NotFound = NotFound
    Workloads <- MCWorkloads
    Phases <- MCPhases
    StatusStates <- MCStatusStates
    MaxCacheUpdates = 0
SPECIFICATION Spec
INVARIANTS
    TypeOK
    HierarchyComplete
    DeclaredContainersPresent
    NakedPodWorkloadStatus
    WorkloadLabelsAgree
\* Process returns: the model stops once the batch is merged.
CHECK_DEADLOCK FALSE
