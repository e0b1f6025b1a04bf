------------------------- MODULE MCLineageDelivery -------------------------
(* Small instances of LineageDelivery for TLC. *)
EXTENDS LineageDelivery, TLC

CONSTANTS r1, r2, m1, m2, p1, relay, op

OneProcess == [m \in Movers |-> p1]

\* Handler invocations of one process are interchangeable.
MoverSymmetry == Permutations(Movers)

=============================================================================
