---------------------------- MODULE DatasetSharing ----------------------------
(***************************************************************************)
(* What the services do to a Lance table: the catalog's data routes,       *)
(* maintenance, and the annotator's saves.                                 *)
(*                                                                         *)
(* They meet in the versions of the table.  A behaviour carries the        *)
(* traffic of one of them, chosen at the start; what the others do to the  *)
(* table shows in it as versions committed by others.                      *)
(***************************************************************************)
EXTENDS TableWrites, TableMaintenance, AnnotationSaves

VARIABLE traffic

vars == <<tableVars, writeVars, maintenanceVars, saveVars, traffic>>

First(kind) ==
    CASE kind = "writes"      -> \E s \in Schemas : LanceInit(Entry(s, Nobody, "overwrite"))
      [] kind = "saves"       -> LanceInit(FirstRows)
      [] kind = "maintenance" -> LanceInit(Maintained)

Init ==
    /\ traffic \in {"writes", "maintenance", "saves"}
    /\ First(traffic)
    /\ WritesInit /\ MaintenanceInit /\ SavesInit
    /\ traffic # "saves" => mode = "direct"

Next ==
    /\ \/ traffic = "writes" /\ WritesNext /\ UNCHANGED <<maintenanceVars, saveVars>>
       \/ traffic = "maintenance" /\ MaintenanceNext /\ UNCHANGED <<writeVars, saveVars>>
       \/ traffic = "saves" /\ SavesNext /\ UNCHANGED <<writeVars, maintenanceVars>>
    /\ UNCHANGED traffic

Spec == Init /\ [][Next]_vars

=============================================================================
