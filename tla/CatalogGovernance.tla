-------------------------- MODULE CatalogGovernance --------------------------
(***************************************************************************)
(* The registry of warehouses and the grants on tables over one            *)
(* relationship store.                                                     *)
(*                                                                         *)
(* A behaviour carries one traffic, chosen at the start: which kinds of    *)
(* request each worker serves.                                             *)
(***************************************************************************)
EXTENDS TableGrants

CONSTANTS
    Admin,   \* the estate's administrator
    Writer,  \* a user the owner of a namespace lets write into it
    Traffic  \* bound: the traffics, each the kinds of request every worker serves

ASSUME AdminAssumption == Admin \in Users /\ Writer \in Users

RegistryKinds == {"create", "status", "bind", "create-namespace", "drop-namespace"}
TableKinds == {"table", "drop", "rename", "batch"}

ASSUME TrafficAssumption == Traffic \subseteq [Workers -> SUBSET (RegistryKinds \cup TableKinds)]

VARIABLE traffic   \* of the whole behaviour

vars == <<record, binding, cache, spaces, request, blind, tuples, table, earned, residue, traffic>>

Served == UNION {traffic[c] : c \in Workers}

\* What the creates of the registered warehouses granted.
WarehouseFounders ==
    UNION {{Grant(Admin, "owner", w), Grant(record[w].project, "project", w),
            Grant(Admin, "admin", record[w].project)} : w \in Registered}

\* Where tables come, what the creates of their namespaces granted.
SpaceFounders == UNION {{Grant(Writer, "writer", n), Grant(Root, "parent", n)} : n \in Namespaces}

FirstGrants ==
    {Grant(Admin, "owner", Root)} \cup WarehouseFounders
        \cup (IF Served \cap TableKinds = {} THEN {} ELSE SpaceFounders)

\* Binds without creates start from a registry that has warehouses.
Init ==
    /\ RegistryInit /\ TableInit
    /\ request = [c \in Workers |-> Idle]
    /\ traffic \in Traffic
    /\ "create" \in Served \/ "bind" \notin Served => Registered = {}
    /\ tuples = FirstGrants

Next ==
    /\ \/ \E server \in Replicas : Restart(server) /\ UNCHANGED tableVars
       \/ \E c \in Workers :
             traffic[c] \cap RegistryKinds # {} /\ RegistryNext(c) /\ UNCHANGED tableVars
       \/ \E c \in Workers : traffic[c] \cap TableKinds # {} /\ TableNext(c)
    /\ \A c \in Workers : request'[c] # Idle => request'[c].kind \in traffic[c]
    /\ UNCHANGED traffic

Spec == Init /\ [][Next]_vars

=============================================================================
