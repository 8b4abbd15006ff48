\* Spec 5 says enrichment sees a stable snapshot of the pod cache; the code
\* calls the lister once per Set, so a pod deleted mid-call is seen by one
\* Set of the pod and not by another.
CONSTANTS
    Pods = {p1}
    Containers = {c1, c2}
    Unset = Unset
    NotFound = NotFound
    Workloads <- MCWorkloads
    Phases <- MCPhases
    StatusStates <- MCStatusStates
    MaxCacheUpdates = 1
SPECIFICATION Spec
INVARIANT HierarchyComplete
CHECK_DEADLOCK FALSE
