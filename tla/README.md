# TLA+ models of the observability-for-kubernetes collector

This directory holds TLA+ models of the collector's metric enrichment core and the TLC configurations that check them. Module definitions are translated from the Go sources under `src/`. Parts that are not under `src/` are modelled from `spec.md` and marked `spec_modelled` in `PROJECT.json`. `PROJECT.json` maps every definition to the lines it models. It also lists the runs, the mutants that show each property is sensitive to the code, the findings, and the hazards.

## 1. Inventory

| Component | Source | State | Operations |
|---|---|---|---|
| Pod/container enricher | `collector/plugins/processors/pod_based_enricher.go` | `batch.Sets` (ResourceKey → Set). `newMs` holds the Sets synthesised during one call. It reads the pod lister, the workload cache and `collectionInterval`. | `Process` and its helpers: `getPod`, `addPodInfo`, `addContainerInfo`, `addWorkloadStatusMetric`, `updateContainerResourcesAndLimits`, `addContainerStatus`, `findContainerState`, `updateContainerStatus` |
| Container state classifier | same file, `findContainerState` (lines 310–322) | none of its own. It reads the collection time, the interval and the container status. | classify one container status |
| Label/metric taxonomy | `collector/internal/metrics/labels.go` | package-level label groups (slices of descriptors) | accessors that return a fresh copy of one or more groups (`make`, `copy`, `append`) |
| Operator bootstrap | `operator/main.go` | manager, clients, cluster UUID, reconciler | `init` (scheme registration) and `main`: a straight-line setup, where each step can fail, exit or panic |
| Operator CRD types | `operator/api/v1alpha1/wavefront_types.go` | declarative types | none |
| Not modelled | `collector/internal/configuration/listener.go`, `plugins/sources/stats/provider.go` (see §6) | | |
| Outside `src/` | pod lister and workload cache (informer caches), label copier, source fan-out and merge, processor chain, exporter | | |

**How the parts interact.** Each scrape cycle works through these steps:

1. Sources produce raw batches, and these are merged into one Batch.
2. The processor chain runs in a fixed order on that Batch.
3. The final Batch goes to the exporter.

The enricher is the stage modelled here. Within one `Process` call:

- It walks the Batch's map. Go map order is unspecified, so any order is possible.
- For each pod and pod-container Set, it calls the pod lister.
- It deletes a Set whose pod is not found.
- It writes metadata and metrics into each remaining Set.
- It collects synthesised Sets in `newMs`: stub pods, stub containers and workload-status Sets.
- It merges `newMs` into the Batch at the end.

The pod lister and the workload cache are shared with background informer goroutines that update them at any time (spec §5). That is the only concurrency the enricher is exposed to.

**What is hard.**

- The result depends on map order: stub creation checks what is already in `batch.Sets` and `newMs`.
- The caches can change between two iterations of the loop.
- Two sibling containers of an unscraped pod both reach the stub-pod path.
- The classifier uses a time-window heuristic. It has a strict comparison at its boundary and assumes cycles exactly one interval apart, on one clock.
- In the operator, two values are used before their error is checked (`main.go:119`, `main.go:138`).

**What makes each component correct.**

- Enricher:
  - Hierarchy completeness: a container Set implies its pod Set.
  - Every declared container of a Running pod has a Set with its requests and limits.
  - Exactly one workload-status Set for each Running pod with no owner reference, with the right availability.
  - The workload labels of a pod and its containers agree.
  - No entity gets the same metric twice.
  - The merge never replaces a scraped Set.
- Classifier: a termination is surfaced once, neither lost nor repeated.
- Operator: it never runs without the configuration it requires: both API groups in its scheme, every required variable, and every fatal setup call successful.
- Label taxonomy: each accessor returns exactly the groups it stands for, in order.

## 2. Modules

### `PodBasedEnricher.tla` (with `MCPodBasedEnricher.tla`)

**State.**

| Variable | What it is |
|---|---|
| `podLister` | pod → view (phase, start time set, owner, spec, statuses) or `NotFound` |
| `workloadCache` | pod → workload |
| `batch` | the Batch's Sets |
| `newMs` | the Sets synthesised in this call |
| `pending` | keys the range loop has not produced yet |
| `pc` | `"iterate"` or `"done"` |
| `cacheUpdates` | informer updates so far, capped by `MaxCacheUpdates` |

Data is abstracted to what the properties distinguish. A pod is a model value. Its view keeps these fields:

- phase
- owner reference (yes or no)
- spec containers
- container statuses (ready, and running, waiting or terminated)

A Set keeps these fields:

- its workload label
- whether request/limit metrics were written
- whether a restart count was written
- how many `container_status` and `pod_phase` labeled values were appended
- its `EntityCreateTime` and `CollectionStartTime`: the zero time, a time a source wrote, or the pod's start time

**Actions.** One loop iteration of `Process` is one action, because the informers can run between iterations:

- `DropUnresolved(k)`: `getPod` fails and the Set is deleted (lines 50–54 and 60–64).
- `EnrichPod(k)`: `addPodInfo`.
- `EnrichPodContainer(k)`: `addContainerInfo`, including the stub pod and its recursive `addPodInfo`.

`MergeNewSets` is the final loop (lines 70–74). `PodInformerUpdate` and `WorkloadInformerUpdate` are the background caches (spec §5). Each Go helper is an operator of the same name that returns the updated Set and `newMs`. `addLabeledIntMetric` appends one labeled value; the model counts the values of each metric, so `addContainerStatus` and the `pod_phase` value of `PodInfoLabels` are both written through it. The long helpers are split into one operator per step, in the order of the code:

- `addPodInfo` is `PodInfoLabels` (UID, create time, phase, workload, lines 155–168), then `WithWorkloadStatus` (lines 170–173), then `AddStubContainers` with `MissingContainers` (lines 175–205), then `updateContainerStatus`.
- `addContainerInfo` is `ContainerInfo` (lines 91–117), then `WithStubPod` when the pod is in neither `batch.Sets` nor `newMs` (lines 119–145).

### `ContainerStateClassifier.tla` (with `MCContainerStateClassifier.tla`)

**State.**

| Variable | What it is |
|---|---|
| `now` | the current tick |
| `nextCollection` | the tick of the next cycle |
| `lastTermination` | `FinishedAt` of `LastTerminationState`, or `NoTermination` |
| `observed`, `surfaced` | per termination: how many cycles saw it, and how many reported it |

**Actions.**

- `Terminate`: the kubelet restarts the container.
- `Collect`: a cycle runs `addContainerStatus` with `findContainerState`.
- `Tick`: time passes. A due collection is never skipped.

A termination and a collection at the same tick can happen in either order, which models the race between the status update and the scrape.

A scrape cycle can skip a tick. `NextCycleTimes` allows the next cycle to run up to `MaxSkippedTicks` extra intervals later, because spec §5 runs each cycle to completion and a cycle that overruns makes the ticker drop ticks.

Two clocks meet in `findContainerState`: `FinishedAt` is stamped by the node's kubelet, and the collection time is the collector's batch timestamp. The constant `Skew` is how far the node's clock is behind the collector's. `Terminate` records `FinishedAt` as `now - Skew`.

### `OperatorStartup.tla` (with `MCOperatorStartup.tla`)

`pc` is the next statement of `init` or `main`. `InitScheme` is `init`: two `AddToScheme` steps add the client-go and the Wavefront API groups to `scheme`, and `utilruntime.Must` panics (`schemePanic`) when one returns an error. `env` is the set of environment variables that are set, and any subset is possible. `clusterUUID`, `controller` and `setupError` record what the setup calls returned, and `outcome` records how the process ended. Each error-checked call is an instance of `CheckedCall`: it succeeds, or it fails and `os.Exit(1)` follows. `NewManager` and `NewWavefrontReconciler` first run `getEnvOrDie`, which can panic. `GetDefaultNamespace` only logs its error. `NewWavefrontReconciler` may return its error with a nil reconciler, and then the `Versions` log line dereferences it. `Stop` is `mgr.Start` returning nil.

### `LabelTaxonomy.tla` (with `MCLabelTaxonomy.tla`)

The label groups of `labels.go` are sequences of descriptor names. `Zero` is the zero `LabelDescriptor{}` that `make` fills a new slice with. `GoMake` and `GoCopy` are Go's `make` and `copy`: `copy` overwrites the first `min(len(dst), len(src))` elements of `dst`. Each accessor is an operator built from them exactly as the code builds its result. The state is one finished call: `call` is the accessor invoked and `result` is the slice it returned. The accessors have no state of their own, so this one-step specification covers every call.

## 3. Runs

| Run | Expect | Checks | Shows |
|---|---|---|---|
| `enricher_stable` | pass | TypeOK, HierarchyComplete, DeclaredContainersPresent, NakedPodWorkloadStatus, WorkloadLabelsAgree | With caches stable during the call, every map order yields a complete hierarchy, stub containers with resources, correct workload status, and consistent workload labels. |
| `enricher_churn` | pass | StatusReportedOnce, NoScrapedSetReplaced | Even with informer updates between iterations, no Set carries two status or phase values. This includes the case of sibling containers of an unscraped pod. The merge never replaces a scraped Set. |
| `enricher_snapshot` | violation | HierarchyComplete | A pod deleted between its container's iteration and its own iteration leaves an orphan container Set. Spec §5's snapshot promise does not hold. |
| `enricher_createtime` | violation | CreateTimeKnown | A declared container of an unscraped pod, whose own container is not scraped either, is exported with the zero time as its create time, contrary to spec §4.2 steps 2 and 6. |
| `enricher_workload_snapshot` | violation | WorkloadLabelsAgree | A workload-cache update between the pod Set's iteration and a container Set's iteration labels the pod and its container with different workloads. Spec §5's snapshot promise does not hold for the workload cache either. |
| `classifier_surfaced` | pass | TypeOK, SurfacedAtLeastOnce | Every termination a cycle sees is reported at least once, for either order of the scrape/status race. |
| `operator_started` | pass | TypeOK, StartedOnlyWhenConfigured | For every environment and every outcome of every setup call, the manager runs only when both API groups are registered, all required variables are set and no fatal call failed. |
| `operator_nil_reconciler` | violation | ExitOnSetupFailure | A reconciler error returned with a nil reconciler panics at the `Versions` log line (`main.go:138`) before the exit check at line 140. |
| `classifier_previous_cycle` | violation | SurfacedAtLeastOnce | `collectionTime - collectionInterval` is not the time of the cycle that last looked. After a dropped tick, or with the node's clock behind the collector's, a restart just after a cycle is never reported as terminated, contrary to spec §4.3. |
| `label_accessors` | violation | AccessorsReturnTheirGroups | `MetricLabels` returns `<<LabelCustomMetricName, Zero>>`: both groups are copied to index 0, so `LabelResourceID` is lost and an empty-key descriptor takes its place. `SupportedLabels` inherits both faults. |
| `classifier_once` | violation | SurfacedAtMostOnce | A termination at a cycle's timestamp is reported by that cycle and again by the next one, because `After` is strict. Spec §8 says equality gives the current state. |

### Bounds

**Enricher.** The interaction is within one pod: every key names one pod, and `newMs` lookups are per key. So one pod is enough.

- The stable run uses two containers and all four kubelet status kinds. The initial states cover every subset of scraped Sets and every pod view: phase, owner, spec, statuses, and not found.
- The churn run uses three containers and two status kinds. Three containers are the fewest that let two scraped siblings of an unscraped pod coexist with an unscraped declared container, which is the case the spec's open question is about.
- One informer update is enough to separate any two iterations.

**Classifier.** The interval is 3 ticks and the horizon is 12, which gives four cycles. There are up to two terminations. This covers:

- a termination strictly inside an interval;
- a termination on a collection tick, in both race orders;
- a termination superseded by another one.

**Classifier, previous cycle.** `MaxSkippedTicks` and `Skew` are 0 in the passing runs and 1 in `classifier_previous_cycle`. One dropped tick and one tick of skew are the smallest values that open the gap. Either alone opens it: with `Skew = 0` the run still fails through a dropped tick, and with `MaxSkippedTicks = 0` it still fails through the skew.


**Labels.** The groups are the code's own, so the run checks every accessor on its real inputs.

**Operator.** `EnvKeys` holds the four variables, and every subset is an initial state. `SchemeGroups` holds the two groups `init` registers; each registration can fail. That includes the subsets missing only `NAMESPACE` and the ones missing only a version variable.

**Deadlock checking.** It is disabled where the model stops:

- `Process` returns after the merge.
- The classifier stops at its time horizon.
- The operator process ends: every path of `main` reaches `pc = "exited"`, which has no successor.

**Fairness.** No run checks liveness, and no fairness is assumed. Every property is a safety property of a bounded run: one `Process` call, a bounded number of collection cycles, one pass through `init` and `main`.

## 4. Findings

See `PROJECT.json` `findings`:

- **Pod-lister snapshot** (`pod_based_enricher.go:60`). The lister is read once per Set, not once per cycle, so a container Set can outlive its pod Set.
- **Skipped tick** (`pod_based_enricher.go:316`). After a dropped scheduler tick, `collectionTime - collectionInterval` is later than the previous cycle, so a restart between the two cycles is never surfaced.
- **Workload-cache snapshot** (`pod_based_enricher.go:112`). The workload cache is read once per container Set and once per pod Set, so an update between the two splits the workload labels of one pod.
- **Zero create time** (`pod_based_enricher.go:200`). A stub container takes the pod Set's `CollectionStartTime`, which a stub pod never has.
- **Nil reconciler** (`main.go:138`). `controller.Versions` is logged before `err` is checked, so a nil reconciler returned with its error panics instead of exiting with status 1.
- **MetricLabels** (`labels.go:229`). The second `copy` writes to index 0 instead of after the first group. `MetricLabels` and `SupportedLabels` lose `LabelResourceID` and return a descriptor with an empty key.
- **Clock skew** (`pod_based_enricher.go:316`). A node clock behind the collector's makes a fresh termination look older than the previous cycle, and it is never surfaced.
- **Classifier boundary** (`pod_based_enricher.go:317`). A termination at `cycleTime - interval` is reported from the last termination, and a termination on a collection tick is reported twice.

## 5. Plan

The order follows the importance of the behaviour.

1. **Done.**
   - `PodBasedEnricher`: the whole `Process`, with create times.
   - `ContainerStateClassifier`: with skipped ticks and clock skew between node and collector.
   - `OperatorStartup`, with `init`.
   - `LabelTaxonomy`: the accessors.
2. **Pod UID label.** A pod recreated under the same name mid-cycle gives sibling Sets different `pod_id` labels. This is a further instance of the snapshot divergence.
3. **Enricher inside a scrape cycle: not planned.** Between calls, the enricher keeps no state of its own. The only state that crosses cycles is the pod lister and the workload cache, and `PodBasedEnricher` already lets them change arbitrarily within a call. The cycle around it is outside `src/` (see §6). What the enricher guarantees of its output is `HierarchyComplete` at `pc = "done"`; whether an exported batch keeps it also depends on the later processors, which spec §4.1 allows to delete entries.

## 6. Not modelled

- **Configuration listener** (`listener.go`). `Changed` is one if/else on the error of `FromFile`: a parse failure is logged and the handler keeps its configuration. A property of it would restate that branch. The hazards around it, such as a half-written file or a lost or coalesced change event, are in the file watcher, which is outside `src/`.
- **Internal stats provider and the scrape cycle** (`provider.go`). The provider has one constant source whose `ScrapeMetrics` returns `internalStats()`; there is no control flow. The cycle around it (fan-out, per-source timeouts, merge, fail-fast chain, export) is the source manager's and the scheduler's, outside `src/`. A model of it would only restate spec §5 and §7.

- **CRD types** (`wavefront_types.go`). They are Go struct declarations with kubebuilder validation and default markers, which the API server enforces; the only function is an `init` that registers the types. There is no behaviour to model.
- **`GcmLabels` and `GcmNodeAutoscalingLabels`.** They turn a fixed list into a map by key. Nothing in `src/` calls them, and no two labels of one list share a key.
- **Label values.** The image, node, host and user label values, and the label copier's projection (outside `src/`). No property distinguishes them.
- **The global `metrics.ResourceRequestMetrics` map** written at line 262. The chain is single-threaded per batch (spec §5, §9), so the model has one `Process` call.
- **Finer interleavings of the caches.** The workload cache read inside a helper is taken to happen at the same step as the `getPod` of that Set. A finer interleaving only adds further ways for the already-reported snapshot divergence to occur.
