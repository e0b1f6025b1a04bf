-------------------------------- MODULE Medallion --------------------------------
(***************************************************************************)
(* What the medallion service runs on the Ray cluster: the stages of the   *)
(* cascade and the training jobs.                                          *)
(*                                                                         *)
(* The two share the cluster and nothing of its state: a training reads    *)
(* versions of the datasets that were pinned when it was asked for, which  *)
(* later stages do not change.  A behaviour carries the traffic of one,    *)
(* chosen at the start.                                                    *)
(***************************************************************************)
EXTENDS StageCascade, ModelTraining

VARIABLE traffic

vars == <<cascadeVars, trainingVars, traffic>>

Init ==
    /\ CascadeInit /\ TrainingInit
    /\ traffic \in {"cascade", "training"}

Next ==
    /\ \/ traffic = "cascade" /\ CascadeNext /\ UNCHANGED trainingVars
       \/ traffic = "training" /\ TrainingNext /\ UNCHANGED cascadeVars
    /\ UNCHANGED traffic

Spec == Init /\ [][Next]_vars

=============================================================================
