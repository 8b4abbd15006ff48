-------------------------- MODULE PodBasedEnricher --------------------------
(***************************************************************************)
(* The pod based enricher of the collector's processor chain               *)
(* (collector/plugins/processors/pod_based_enricher.go).                   *)
(*                                                                         *)
(* One call of Process walks the batch's Sets in Go map order (any order), *)
(* enriches every pod and pod-container Set from the pod lister, removes   *)
(* the Set when its pod cannot be found, collects synthesized Sets (stub   *)
(* pods, stub containers, workload-status Sets) in newMs and merges newMs  *)
(* into the batch at the end.  The pod lister and the workload cache are   *)
(* informer-backed caches that a background goroutine may update between   *)
(* two iterations of the loop; each loop iteration is one step.            *)
(*                                                                         *)
(* Data is abstracted to what the properties tell apart: a Set keeps the   *)
(* workload label it carries, whether request/limit metrics were written, *)
(* whether a restart count was written and how many container-status and  *)
(* pod-phase labeled values were appended to it.                           *)
(***************************************************************************)
EXTENDS Naturals, FiniteSets, Functions, TLC

CONSTANTS
    Pods,            \* pods, each a namespace/name pair (model values)
    Containers,      \* container names (model values)
    Workloads,       \* values GetWorkloadForPod can return ("" on a miss included)
    Unset,           \* a label that was never written
    NotFound,        \* the pod lister's not-found error
    Phases,          \* pod phases considered; "Running" is the one enriched
    StatusStates,    \* container statuses considered: [ready, state]
    MaxCacheUpdates  \* bound on informer updates during one Process call

ASSUME /\ "Running" \in Phases
       /\ Unset \notin Workloads
       /\ StatusStates \subseteq [ready: BOOLEAN,
                                  state: {"running", "waiting", "terminated"}]
       /\ MaxCacheUpdates \in Nat

VARIABLES
    podLister,      \* pod -> PodView or NotFound (the informer's cache)
    workloadCache,  \* pod -> workload returned by GetWorkloadForPod
    batch,          \* batch.Sets: ResourceKey -> Set
    newMs,          \* the synthesized Sets of this call: ResourceKey -> Set
    pending,        \* keys of batch.Sets the range loop has not yet produced
    pc,             \* "iterate" (in the range loop), "done" (Process returned)
    cacheUpdates    \* informer updates so far (bounded)

vars == <<podLister, workloadCache, batch, newMs, pending, pc, cacheUpdates>>

-----------------------------------------------------------------------------
(* Resource keys (metrics.PodKey, PodContainerKey, WorkloadStatusPodKey)   *)
(* and the Set type label they stand for.                                  *)

PodKey(p) == <<"pod", p>>
PodContainerKey(p, c) == <<"pod_container", p, c>>
WorkloadStatusPodKey(p) == <<"workload_status", p>>

ScrapedKeys == {PodKey(p) : p \in Pods}
                 \cup {PodContainerKey(p, c) : p \in Pods, c \in Containers}
AllKeys == ScrapedKeys \cup {WorkloadStatusPodKey(p) : p \in Pods}

(* The part of a kube_api.Pod the enricher reads: phase, whether          *)
(* Status.StartTime is set, whether it has an owner reference, the         *)
(* containers of its spec and its container statuses (a status exists     *)
(* only for a container of the spec; a Running pod has a start time).     *)
PodViews ==
    {v \in [phase: Phases, started: BOOLEAN, owned: BOOLEAN,
            spec: SUBSET Containers,
            status: UNION {[S -> StatusStates] : S \in SUBSET Containers}] :
        /\ DOMAIN v.status \subseteq v.spec
        /\ v.phase = "Running" => v.started}

(* A Set of an entity (pod or container) and a workload-status Set.  Its  *)
(* EntityCreateTime and CollectionStartTime are the zero time, the time a *)
(* source wrote, or the pod's start time.                                  *)
Times == {"zero", "scrape", "podStart"}
EntitySets == [workload: Workloads \cup {Unset}, resources: BOOLEAN,
               restartCount: BOOLEAN, containerStatus: Nat, podPhase: Nat,
               createTime: Times, collectionStart: Times]
WorkloadStatusSets == [workload: Workloads \cup {Unset}, available: {0, 1},
                       desired: {1}]

(* A Set as a source scraped it: no Kubernetes metadata yet.               *)
ScrapedSet == [workload |-> Unset, resources |-> FALSE, restartCount |-> FALSE,
               containerStatus |-> 0, podPhase |-> 0,
               createTime |-> "scrape", collectionStart |-> "scrape"]

(* EntityCreateTime = pod.Status.StartTime unless that is the zero time.   *)
SetCreateTime(ms, pod) ==
    IF pod.started THEN [ms EXCEPT !.createTime = "podStart"] ELSE ms

(* The stub pod Set addContainerInfo builds: labels only, no collection    *)
(* start time, the create time taken from the pod.                         *)
StubPod(pod) ==
    SetCreateTime([ScrapedSet EXCEPT !.createTime = "zero",
                                     !.collectionStart = "zero"], pod)

Put(f, k, v) == (k :> v) @@ f

-----------------------------------------------------------------------------
(* Helpers of Process, translated from the Go functions of the same name.  *)

(* The container's requests and limits become cpu/memory/ephemeral-storage *)
(* request and limit metrics (zero where unset).                           *)
updateContainerResourcesAndLimits(ms) == [ms EXCEPT !.resources = TRUE]

(* addLabeledIntMetric: one LabeledValue of the metric is appended to the *)
(* Set's LabeledValues; field counts the values of that metric.           *)
addLabeledIntMetric(ms, field) == [ms EXCEPT ![field] = @ + 1]

(* One container_status labeled value, classified by findContainerState,  *)
(* is appended.                                                            *)
addContainerStatus(ms) == addLabeledIntMetric(ms, "containerStatus")

(* Back-fills container status onto the Sets of `sets` (newMs) whose key   *)
(* is a container of the pod's status list.                               *)
updateContainerStatus(sets, p, pod) ==
    [k \in DOMAIN sets |->
        IF \E c \in DOMAIN pod.status : k = PodContainerKey(p, c)
        THEN addContainerStatus(sets[k])
        ELSE sets[k]]

(* Mutant: the Waiting/Terminated tests are dropped, so a running        *)
(* container that is not ready counts as unavailable.                     *)
addWorkloadStatusMetricOnlyReady(podMs, pod) ==
    [workload  |-> podMs.workload,
     available |-> IF \E c \in DOMAIN pod.status : ~pod.status[c].ready
                   THEN 0 ELSE 1,
     desired   |-> 1]

(* available is 0 when some container is not ready and waiting or         *)
(* terminated, else 1; desired is always 1.                                *)
addWorkloadStatusMetric(podMs, pod) ==
    [workload  |-> podMs.workload,
     available |-> IF \E c \in DOMAIN pod.status :
                        /\ ~pod.status[c].ready
                        /\ pod.status[c].state \in {"waiting", "terminated"}
                   THEN 0 ELSE 1,
     desired   |-> 1]

(* Mutant: the stub container gets no request/limit metrics.             *)
StubContainerWithoutResources(podMs) ==
    [ScrapedSet EXCEPT !.workload = podMs.workload,
                       !.createTime = podMs.collectionStart,
                       !.collectionStart = "zero"]

(* A stub container Set built from the enriched pod Set: its create time  *)
(* is the pod Set's CollectionStartTime.                                   *)
StubContainer(podMs) ==
    updateContainerResourcesAndLimits(
        [ScrapedSet EXCEPT !.workload = podMs.workload,
                           !.createTime = podMs.collectionStart,
                           !.collectionStart = "zero"])

(* The pod's metadata written to its Set: create time, pod_phase value,   *)
(* workload name and kind.                                                 *)
PodInfoLabels(podMs, p, pod) ==
    addLabeledIntMetric(
        [SetCreateTime(podMs, pod) EXCEPT !.workload = workloadCache[p]],
        "podPhase")

(* Mutant: the workload-status Set is stored under the pod's own key.     *)
WithWorkloadStatusUnderPodKey(ms, p, pod, nms) ==
    IF pod.owned THEN nms
    ELSE Put(nms, PodKey(p), addWorkloadStatusMetric(ms, pod))

(* A pod without owner reference gets a workload-status Set in newMs.      *)
WithWorkloadStatus(ms, p, pod, nms) ==
    IF pod.owned THEN nms
    ELSE Put(nms, WorkloadStatusPodKey(p), addWorkloadStatusMetric(ms, pod))

(* Mutant: a container is stubbed unless newMs has it, even when          *)
(* batch.Sets does.                                                        *)
MissingContainersOnlyNewMs(p, pod, keys, nms) ==
    {PodContainerKey(p, c) : c \in pod.spec} \ DOMAIN nms

(* The declared containers with a Set neither in batch.Sets (keys) nor in *)
(* newMs.                                                                  *)
MissingContainers(p, pod, keys, nms) ==
    {PodContainerKey(p, c) : c \in pod.spec} \ (keys \cup DOMAIN nms)

(* A stub container Set, built from the pod Set ms, for every missing one. *)
AddStubContainers(ms, p, pod, keys, nms) ==
    LET missing == MissingContainers(p, pod, keys, nms)
    IN  [k \in DOMAIN nms \cup missing |->
            IF k \in missing THEN StubContainer(ms) ELSE nms[k]]

(* Mutant: the stub containers are built from the pod Set before its      *)
(* workload labels are written.                                            *)
addPodInfoStubsBeforeLabels(podMs, p, pod, keys, nms) ==
    IF pod.phase # "Running" THEN <<podMs, nms>>
    ELSE LET ms == PodInfoLabels(podMs, p, pod)
         IN  <<ms, updateContainerStatus(
                       AddStubContainers(podMs, p, pod, keys,
                                         WithWorkloadStatus(ms, p, pod, nms)),
                       p, pod)>>

(* addPodInfo(podMs, pod, batch, newMs): returns <<podMs', newMs'>>; keys *)
(* is DOMAIN batch.Sets at the time of the call.  Only a Running pod is   *)
(* enriched.                                                               *)
addPodInfo(podMs, p, pod, keys, nms) ==
    IF pod.phase # "Running" THEN <<podMs, nms>>
    ELSE LET ms == PodInfoLabels(podMs, p, pod)
         IN  <<ms, updateContainerStatus(
                       AddStubContainers(ms, p, pod, keys,
                                         WithWorkloadStatus(ms, p, pod, nms)),
                       p, pod)>>

(* The container Set enriched from the pod: requests and limits when the  *)
(* container is in the spec; restart count, create time and status when   *)
(* it has a status; workload labels.                                       *)
ContainerInfo(p, c, containerMs, pod) ==
    LET ms == [containerMs EXCEPT
                  !.resources    = @ \/ c \in pod.spec,
                  !.restartCount = @ \/ c \in DOMAIN pod.status,
                  !.workload     = workloadCache[p],
                  !.createTime   = IF c \in DOMAIN pod.status /\ pod.started
                                   THEN "podStart" ELSE @]
    IN  IF c \in DOMAIN pod.status THEN addContainerStatus(ms) ELSE ms

(* The stub pod Set, enriched by addPodInfo, added to newMs.               *)
WithStubPod(p, pod, keys, nms) ==
    LET stub == addPodInfo(StubPod(pod), p, pod, keys,
                           Put(nms, PodKey(p), StubPod(pod)))
    IN  Put(stub[2], PodKey(p), stub[1])

(* Mutants of addContainerInfo: no stub pod is synthesized; the stub     *)
(* check looks only at batch.Sets, not at this call's newMs.              *)
addContainerInfoNoPodStub(p, c, containerMs, pod, keys, nms) ==
    <<ContainerInfo(p, c, containerMs, pod), nms>>

addContainerInfoStubCheckOnlyBatch(p, c, containerMs, pod, keys, nms) ==
    <<ContainerInfo(p, c, containerMs, pod),
      IF PodKey(p) \in keys THEN nms ELSE WithStubPod(p, pod, keys, nms)>>

(* addContainerInfo(key, containerMs, pod, batch, newMs): returns          *)
(* <<containerMs', newMs'>>.                                               *)
addContainerInfo(p, c, containerMs, pod, keys, nms) ==
    <<ContainerInfo(p, c, containerMs, pod),
      IF PodKey(p) \in keys \cup DOMAIN nms THEN nms
      ELSE WithStubPod(p, pod, keys, nms)>>

-----------------------------------------------------------------------------
(* Process                                                                 *)

Init ==
    /\ podLister \in [Pods -> PodViews \cup {NotFound}]
    /\ workloadCache \in [Pods -> Workloads]
    /\ \E keys \in SUBSET ScrapedKeys : batch = [k \in keys |-> ScrapedSet]
    /\ newMs = <<>>
    /\ pending = DOMAIN batch
    /\ pc = "iterate"
    /\ cacheUpdates = 0

(* getPod: the lister's pod for namespace/name, or NotFound.              *)
getPod(p) == podLister[p]

(* getPod fails: the Set is deleted from batch.Sets.                       *)
DropUnresolved(k) ==
    /\ pc = "iterate"
    /\ k \in pending
    /\ getPod(k[2]) = NotFound
    /\ batch' = Restrict(batch, DOMAIN batch \ {k})
    /\ pending' = pending \ {k}
    /\ UNCHANGED <<podLister, workloadCache, newMs, pc, cacheUpdates>>

(* A pod Set whose pod is found.                                           *)
EnrichPod(k) ==
    /\ pc = "iterate"
    /\ k \in pending
    /\ k[1] = "pod"
    /\ getPod(k[2]) # NotFound
    /\ LET r == addPodInfo(batch[k], k[2], getPod(k[2]), DOMAIN batch, newMs)
       IN  /\ batch' = [batch EXCEPT ![k] = r[1]]
           /\ newMs' = r[2]
    /\ pending' = pending \ {k}
    /\ UNCHANGED <<podLister, workloadCache, pc, cacheUpdates>>

(* A pod-container Set whose pod is found.                                 *)
EnrichPodContainer(k) ==
    /\ pc = "iterate"
    /\ k \in pending
    /\ k[1] = "pod_container"
    /\ getPod(k[2]) # NotFound
    /\ LET r == addContainerInfo(k[2], k[3], batch[k], getPod(k[2]),
                                 DOMAIN batch, newMs)
       IN  /\ batch' = [batch EXCEPT ![k] = r[1]]
           /\ newMs' = r[2]
    /\ pending' = pending \ {k}
    /\ UNCHANGED <<podLister, workloadCache, pc, cacheUpdates>>

(* The range loop is over: every Set of newMs is written into batch.Sets  *)
(* and Process returns.                                                    *)
MergeNewSets ==
    /\ pc = "iterate"
    /\ pending = {}
    /\ batch' = newMs @@ batch
    /\ pc' = "done"
    /\ UNCHANGED <<podLister, workloadCache, newMs, pending, cacheUpdates>>

-----------------------------------------------------------------------------
(* The informers, running concurrently with Process.                       *)

PodInformerUpdate(p) ==
    /\ pc = "iterate"
    /\ cacheUpdates < MaxCacheUpdates
    /\ \E v \in (PodViews \cup {NotFound}) \ {podLister[p]} :
           podLister' = [podLister EXCEPT ![p] = v]
    /\ cacheUpdates' = cacheUpdates + 1
    /\ UNCHANGED <<workloadCache, batch, newMs, pending, pc>>

WorkloadInformerUpdate(p) ==
    /\ pc = "iterate"
    /\ cacheUpdates < MaxCacheUpdates
    /\ \E w \in Workloads \ {workloadCache[p]} :
           workloadCache' = [workloadCache EXCEPT ![p] = w]
    /\ cacheUpdates' = cacheUpdates + 1
    /\ UNCHANGED <<podLister, batch, newMs, pending, pc>>

Next ==
    \/ \E k \in ScrapedKeys : DropUnresolved(k) \/ EnrichPod(k)
                                \/ EnrichPodContainer(k)
    \/ MergeNewSets
    \/ \E p \in Pods : PodInformerUpdate(p) \/ WorkloadInformerUpdate(p)

Spec == Init /\ [][Next]_vars

-----------------------------------------------------------------------------
(* Properties                                                              *)

TypeOK ==
    /\ podLister \in [Pods -> PodViews \cup {NotFound}]
    /\ workloadCache \in [Pods -> Workloads]
    /\ DOMAIN batch \subseteq AllKeys
    /\ DOMAIN newMs \subseteq AllKeys
    /\ \A k \in DOMAIN batch : batch[k] \in
           IF k[1] = "workload_status" THEN WorkloadStatusSets ELSE EntitySets
    /\ \A k \in DOMAIN newMs : newMs[k] \in
           IF k[1] = "workload_status" THEN WorkloadStatusSets ELSE EntitySets
    /\ pending \subseteq DOMAIN batch
    /\ pc \in {"iterate", "done"}
    /\ cacheUpdates \in 0..MaxCacheUpdates

Found(p) == podLister[p] # NotFound
Running(p) == Found(p) /\ podLister[p].phase = "Running"

(* Hierarchy completeness (spec 3, 8): when Process returns, every         *)
(* pod-container Set has the Set of its pod in the batch, scraped or the  *)
(* stub addContainerInfo synthesizes, whatever order the map is walked in.*)
HierarchyComplete ==
    pc = "done" =>
        \A k \in DOMAIN batch :
            k[1] = "pod_container" => PodKey(k[2]) \in DOMAIN batch

(* Every container declared in the spec of a Running pod whose Set is in  *)
(* the batch has a Set with its request and limit metrics, scraped or the *)
(* stub addPodInfo synthesizes (spec 4.2 step 6).                          *)
DeclaredContainersPresent ==
    pc = "done" =>
        \A p \in Pods :
            PodKey(p) \in DOMAIN batch /\ Running(p) =>
                \A c \in podLister[p].spec :
                    /\ PodContainerKey(p, c) \in DOMAIN batch
                    /\ batch[PodContainerKey(p, c)].resources

(* A Running pod without owner reference that is in the batch gets one    *)
(* workload-status Set, available 0 exactly when some container is not   *)
(* ready and waiting or terminated, desired 1, labelled with the pod's    *)
(* workload; no other pod gets one (spec 4.4, 8).                          *)
NakedPodWorkloadStatus ==
    pc = "done" =>
        \A p \in Pods :
            \/ /\ PodKey(p) \in DOMAIN batch
               /\ Running(p) /\ ~podLister[p].owned
               /\ WorkloadStatusPodKey(p) \in DOMAIN batch
               /\ LET w == batch[WorkloadStatusPodKey(p)]
                      st == podLister[p].status
                  IN  /\ w.desired = 1
                      /\ w.workload = batch[PodKey(p)].workload
                      /\ (w.available = 0) <=>
                            \E c \in DOMAIN st :
                                ~st[c].ready /\ st[c].state # "running"
            \/ /\ ~(PodKey(p) \in DOMAIN batch /\ Running(p)
                    /\ ~podLister[p].owned)
               /\ WorkloadStatusPodKey(p) \notin DOMAIN batch

(* The pod Set of an enriched pod and the Sets of its containers carry    *)
(* the same workload name: the containers enriched directly, the stub     *)
(* containers copying the pod Set's labels, and the pod all agree.        *)
WorkloadLabelsAgree ==
    pc = "done" =>
        \A p \in Pods, c \in Containers :
            /\ PodKey(p) \in DOMAIN batch
            /\ batch[PodKey(p)].podPhase > 0
            /\ PodContainerKey(p, c) \in DOMAIN batch
            => batch[PodContainerKey(p, c)].workload = batch[PodKey(p)].workload

(* No Set carries two container_status or two pod_phase labeled values:   *)
(* addContainerInfo, addPodInfo and the back-fill in updateContainerStatus *)
(* never report the same entity twice in one cycle (spec 9, open question *)
(* on sibling containers of one unscraped pod).                            *)
StatusReportedOnce ==
    pc = "done" =>
        \A k \in DOMAIN batch :
            k[1] # "workload_status" =>
                batch[k].containerStatus <= 1 /\ batch[k].podPhase <= 1

(* A synthesized Set never has the key of a Set still in the batch, so    *)
(* the final merge never silently replaces a scraped Set (spec 3).        *)
NoScrapedSetReplaced ==
    pc = "iterate" => DOMAIN newMs \cap DOMAIN batch = {}

(* Spec 4.2 steps 2 and 6: the Sets of a Running pod get the pod's start  *)
(* time as create time; none of them, scraped or synthesized, ends the    *)
(* cycle with the zero time as EntityCreateTime.                            *)
CreateTimeKnown ==
    pc = "done" =>
        \A p \in Pods : Running(p) =>
            \A k \in {PodKey(p)} \cup {PodContainerKey(p, c) : c \in Containers} :
                k \in DOMAIN batch => batch[k].createTime # "zero"

=============================================================================
