--------------------------- MODULE MCDatasetSharing ---------------------------
(* Small instances of DatasetSharing for TLC. *)
EXTENDS DatasetSharing

\* An opt-out, and a paced policy that keeps the last two versions.
TwoRules == {
    [enabled |-> FALSE, retain |-> 0, aged |-> FALSE, paced |-> FALSE],
    [enabled |-> TRUE, retain |-> 2, aged |-> FALSE, paced |-> TRUE]}

\* The same callers everywhere: clients and reviewers.
SharingSymmetry == Permutations(Clients) \cup Permutations(Fields)

=============================================================================
