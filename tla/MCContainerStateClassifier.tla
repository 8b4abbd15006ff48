------------------- MODULE MCContainerStateClassifier ----------------------
(* Instantiates ContainerStateClassifier: a 3-tick interval over four     *)
(* cycles, so terminations fall strictly inside an interval, on a         *)
(* collection tick and one interval before one.                            *)
EXTENDS ContainerStateClassifier

=============================================================================
