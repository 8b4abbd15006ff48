---------------------- MODULE ContainerStateClassifier ----------------------
(***************************************************************************)
(* The container state classification of the pod based enricher           *)
(* (findContainerState / addContainerStatus in pod_based_enricher.go)     *)
(* over a run of collection cycles.                                        *)
(*                                                                         *)
(* A container terminates and is restarted at some instant; from then on  *)
(* its status carries LastTerminationState.Terminated with FinishedAt at  *)
(* that instant, until a later termination replaces it.  Every            *)
(* collectionInterval a cycle enriches the container with the collection  *)
(* time; findContainerState reports the last termination when it finished*)
(* after collectionTime - collectionInterval, else the current state.     *)
(* Cycles run on the scheduler's ticker and do not overlap; a cycle that  *)
(* overruns makes the ticker drop ticks, so the next cycle runs a whole   *)
(* number of intervals later.                                              *)
(* Time is counted in ticks; a termination and a collection at the same   *)
(* tick happen in either order (the kubelet's status update races the     *)
(* scrape).                                                                *)
(***************************************************************************)
EXTENDS Naturals, FiniteSets

CONSTANTS
    Interval,         \* collectionInterval, in ticks
    Horizon,          \* last tick of the model
    MaxTerminations,  \* bound on terminations of the container
    MaxSkippedTicks,  \* ticks of the scheduler a long cycle may swallow
    Skew,             \* ticks the node's clock runs behind the collector's
    NoTermination     \* LastTerminationState.Terminated == nil

ASSUME /\ Interval \in Nat \ {0}
       /\ Horizon \in Nat
       /\ MaxTerminations \in Nat
       /\ MaxSkippedTicks \in Nat
       /\ Skew \in Nat
       /\ NoTermination \notin Nat

VARIABLES
    now,              \* current tick
    nextCollection,   \* tick of the next collection cycle
    lastTermination,  \* FinishedAt of LastTerminationState, or NoTermination
    observed,         \* termination tick -> cycles whose status carried it
    surfaced          \* termination tick -> cycles that reported it

vars == <<now, nextCollection, lastTermination, observed, surfaced>>

-----------------------------------------------------------------------------
(* Mutant: the After test made non-strict.                                 *)
findContainerStateNonStrict(collectionTime, lastTerm) ==
    IF lastTerm = NoTermination THEN "current"
    ELSE IF collectionTime - Interval >= lastTerm THEN "current"
    ELSE "lastTermination"

(* findContainerState: which state the container_status metric reports.   *)
(* lastCollectionTime.After(lastTerminationTime) is strict.               *)
findContainerState(collectionTime, lastTerm) ==
    IF lastTerm = NoTermination THEN "current"
    ELSE IF collectionTime - Interval > lastTerm THEN "current"
    ELSE "lastTermination"

(* When the next cycle may run after one at tick t.                        *)
NextCycleTimes(t) == {t + Interval * (1 + k) : k \in 0..MaxSkippedTicks}

-----------------------------------------------------------------------------
Init ==
    /\ now = 0
    /\ nextCollection = Interval
    /\ lastTermination = NoTermination
    /\ observed = [t \in {} |-> 0]
    /\ surfaced = [t \in {} |-> 0]

(* The container terminates and restarts at this tick; the kubelet stamps *)
(* FinishedAt with the node's clock, Skew ticks behind the collector's.   *)
Terminate ==
    LET finishedAt == now - Skew
    IN  /\ now >= Skew
        /\ finishedAt \notin DOMAIN observed
        /\ now <= Horizon
        /\ Cardinality(DOMAIN observed) < MaxTerminations
        /\ lastTermination' = finishedAt
        /\ observed' = [t \in DOMAIN observed \cup {finishedAt} |->
                           IF t = finishedAt THEN 0 ELSE observed[t]]
        /\ surfaced' = [t \in DOMAIN surfaced \cup {finishedAt} |->
                           IF t = finishedAt THEN 0 ELSE surfaced[t]]
        /\ UNCHANGED <<now, nextCollection>>

(* Mutant: the next cycle is scheduled one tick late.                     *)
CollectLate ==
    /\ now = nextCollection
    /\ nextCollection' = now + Interval + 1
    /\ IF lastTermination = NoTermination
       THEN UNCHANGED <<observed, surfaced>>
       ELSE /\ observed' = [observed EXCEPT ![lastTermination] = @ + 1]
            /\ surfaced' =
                 IF findContainerState(now, lastTermination) = "lastTermination"
                 THEN [surfaced EXCEPT ![lastTermination] = @ + 1]
                 ELSE surfaced
    /\ UNCHANGED <<now, lastTermination>>

(* A collection cycle at batch.Timestamp = now enriches the container:    *)
(* addContainerStatus appends the classification.                          *)
Collect ==
    /\ now = nextCollection
    /\ nextCollection' \in NextCycleTimes(now)
    /\ IF lastTermination = NoTermination
       THEN UNCHANGED <<observed, surfaced>>
       ELSE /\ observed' = [observed EXCEPT ![lastTermination] = @ + 1]
            /\ surfaced' =
                 IF findContainerState(now, lastTermination) = "lastTermination"
                 THEN [surfaced EXCEPT ![lastTermination] = @ + 1]
                 ELSE surfaced
    /\ UNCHANGED <<now, lastTermination>>

(* Time passes; a due collection is never skipped.                         *)
Tick ==
    /\ now < nextCollection
    /\ now < Horizon
    /\ now' = now + 1
    /\ UNCHANGED <<nextCollection, lastTermination, observed, surfaced>>

Next == Terminate \/ Collect \/ Tick

Spec == Init /\ [][Next]_vars

-----------------------------------------------------------------------------
(* Properties                                                              *)

TypeOK ==
    /\ now \in 0..Horizon
    /\ nextCollection \in now..(now + Interval * (1 + MaxSkippedTicks))
    /\ lastTermination \in 0..Horizon \cup {NoTermination}
    /\ DOMAIN observed \subseteq 0..Horizon
    /\ DOMAIN surfaced = DOMAIN observed
    /\ \A t \in DOMAIN observed : surfaced[t] <= observed[t]

(* Spec 4.3: a restart within the interval is surfaced: every termination *)
(* that some cycle saw in the container's status was reported by a cycle  *)
(* as the terminated state, whether the first cycle to see it ran before  *)
(* or after the kubelet updated the status at the termination tick.       *)
SurfacedAtLeastOnce ==
    \A t \in DOMAIN observed : observed[t] >= 1 => surfaced[t] >= 1

(* Spec 4.3 and 8: the terminal reason is surfaced once before being      *)
(* superseded; a termination finishing exactly at cycleTime - interval is *)
(* reported with the current state.                                        *)
SurfacedAtMostOnce ==
    \A t \in DOMAIN observed : surfaced[t] <= 1

=============================================================================
