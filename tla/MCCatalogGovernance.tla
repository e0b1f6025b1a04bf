------------------------- MODULE MCCatalogGovernance -------------------------
(* Small instances of CatalogGovernance for TLC. *)
EXTENDS CatalogGovernance, TLC

CONSTANTS ada, ben, n, c1, c2, w1, w2, t1, t2

AllInOne == [t \in Tables |-> n]

\* Creates overlap one another or a change of the lifecycle, binds one another or
\* the namespace routes; table requests come one at a time.
SomeTraffic ==
    {(c1 :> {"create"} @@ c2 :> {"create"}),
     (c1 :> {"create"} @@ c2 :> {"status"}),
     (c1 :> {"bind", "drop-namespace"} @@ c2 :> {"bind"}),
     (c1 :> {"bind"} @@ c2 :> {"create-namespace", "drop-namespace"}),
     (c1 :> TableKinds @@ c2 :> {})}

\* Requests name these freely and treat them alike.  Warehouses and tables are
\* swapped together: no traffic has requests on both.
GovernanceSymmetry ==
    Permutations(Projects) \cup Permutations(Replicas) \cup Permutations(Buckets \ Reserved)
        \cup {(w1 :> w2 @@ w2 :> w1 @@ t1 :> t2 @@ t2 :> t1)}

=============================================================================
