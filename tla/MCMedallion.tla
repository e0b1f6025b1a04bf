------------------------------ MODULE MCMedallion ------------------------------
(* Small instances of Medallion for TLC. *)
EXTENDS Medallion, TLC

\* Trainings that pass the bar.
Measured == [t \in Trainings |-> 2]

\* Tokens are alike; cascades and trainings are given the same ones.
MedallionSymmetry == Permutations(Tokens)

=============================================================================
