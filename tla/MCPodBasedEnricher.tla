------------------------ MODULE MCPodBasedEnricher -------------------------
(* Instantiates PodBasedEnricher for TLC: the container statuses are the  *)
(* four a kubelet reports (ready and running, running but not ready,      *)
(* waiting, terminated).                                                   *)
EXTENDS PodBasedEnricher

MCStatusStates ==
    {[ready |-> TRUE,  state |-> "running"],
     [ready |-> FALSE, state |-> "running"],
     [ready |-> FALSE, state |-> "waiting"],
     [ready |-> FALSE, state |-> "terminated"]}

(* Under informer churn, with three containers: one ready and one waiting *)
(* status are enough to tell the Sets' container_status counts apart.     *)
MCChurnStatusStates ==
    {[ready |-> TRUE,  state |-> "running"],
     [ready |-> FALSE, state |-> "waiting"]}

MCPhases == {"Running", "Pending"}

MCWorkloads == {"", "web"}

=============================================================================
