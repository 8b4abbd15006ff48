---------------------------- MODULE LabelTaxonomy ----------------------------
(***************************************************************************)
(* The label groups of the metric taxonomy and their accessors            *)
(* (collector/internal/metrics/labels.go).  The groups are package-level  *)
(* slices; each accessor returns a fresh slice built with make, copy and  *)
(* append, so that a caller cannot change the package's groups.           *)
(*                                                                         *)
(* A LabelDescriptor is named by its Go variable; Zero is the zero value  *)
(* LabelDescriptor{} (empty Key) that make fills a new slice with.  A Go  *)
(* slice is a sequence; copy(dst, src) overwrites the first               *)
(* min(len(dst), len(src)) elements of dst and leaves the rest.           *)
(***************************************************************************)
EXTENDS Naturals, Sequences

CONSTANTS
    Zero   \* LabelDescriptor{}

VARIABLES
    call,    \* the accessor a caller invoked
    result   \* the slice it returned

vars == <<call, result>>

-----------------------------------------------------------------------------
(* The builtins make([]LabelDescriptor, n) and copy(dst, src).             *)
GoMake(n) == [i \in 1..n |-> Zero]

GoCopy(dst, src) ==
    [i \in 1..Len(dst) |-> IF i <= Len(src) THEN src[i] ELSE dst[i]]

(* The package's label groups.                                             *)
commonLabels == <<"LabelNodename", "LabelHostname", "LabelHostID">>
containerLabels == <<"LabelContainerName", "LabelContainerBaseImage">>
podLabels == <<"LabelPodName", "LabelPodId", "LabelPodNamespaceUID",
               "LabelLabels">>
metricLabels == <<"LabelResourceID">>
customMetricLabels == <<"LabelCustomMetricName">>

(* Accessors.                                                              *)
CommonLabels == GoCopy(GoMake(Len(commonLabels)), commonLabels)
ContainerLabels == GoCopy(GoMake(Len(containerLabels)), containerLabels)
PodLabels == GoCopy(GoMake(Len(podLabels)), podLabels)

(* Both groups are copied to the start of the new slice.                   *)
MetricLabels ==
    GoCopy(GoCopy(GoMake(Len(metricLabels) + Len(customMetricLabels)),
                  metricLabels),
           customMetricLabels)

SupportedLabels == CommonLabels \o PodLabels \o MetricLabels

Accessors == [CommonLabels    |-> CommonLabels,
              ContainerLabels |-> ContainerLabels,
              PodLabels       |-> PodLabels,
              MetricLabels    |-> MetricLabels,
              SupportedLabels |-> SupportedLabels]

-----------------------------------------------------------------------------
Init ==
    /\ call \in DOMAIN Accessors
    /\ result = Accessors[call]

Spec == Init /\ [][UNCHANGED vars]_vars

-----------------------------------------------------------------------------
(* Properties                                                              *)

(* The groups an accessor stands for, by its name and comment.             *)
Documented ==
    [CommonLabels    |-> commonLabels,
     ContainerLabels |-> containerLabels,
     PodLabels       |-> podLabels,
     MetricLabels    |-> metricLabels \o customMetricLabels,
     SupportedLabels |-> commonLabels \o podLabels \o metricLabels
                             \o customMetricLabels]

(* Every accessor returns exactly the descriptors of the groups it stands *)
(* for, in order, and never the zero descriptor with its empty key.       *)
AccessorsReturnTheirGroups ==
    result = Documented[call]

=============================================================================
