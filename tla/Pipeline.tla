-------------------------------- MODULE Pipeline --------------------------------
(***************************************************************************)
(* The media pipeline: the stages its command line runs, the runners it    *)
(* submits to the cluster, the commands that voice the speakers, lay out   *)
(* the map and build the knowledge graph, and the viewer that reads them.  *)
(*                                                                         *)
(* Each writes tables or columns of its own, which the others do not read. *)
(* A behaviour carries the traffic of one of them, chosen at the start.    *)
(***************************************************************************)
EXTENDS FeatureStages, RunnerJobs, Voiceprints, MapLayers, KnowledgeGraph

VARIABLE traffic

vars == <<stageVars, runnerVars, voiceVars, mapVars, kgVars, traffic>>

Init ==
    /\ StagesInit /\ RunnersInit /\ VoicesInit /\ MapInit /\ KgInit
    /\ traffic \in {"stages", "runners", "voices", "map", "kg"}

Next ==
    /\ \/ traffic = "stages" /\ StagesNext /\ UNCHANGED <<runnerVars, voiceVars, mapVars, kgVars>>
       \/ traffic = "runners" /\ RunnersNext /\ UNCHANGED <<stageVars, voiceVars, mapVars, kgVars>>
       \/ traffic = "voices" /\ VoicesNext /\ UNCHANGED <<stageVars, runnerVars, mapVars, kgVars>>
       \/ traffic = "map" /\ MapNext /\ UNCHANGED <<stageVars, runnerVars, voiceVars, kgVars>>
       \/ traffic = "kg" /\ KgNext /\ UNCHANGED <<stageVars, runnerVars, voiceVars, mapVars>>
    /\ UNCHANGED traffic

Spec == Init /\ [][Next]_vars

=============================================================================
