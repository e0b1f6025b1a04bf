---------------------------- MODULE LineageLedger ----------------------------
(***************************************************************************)
(* What the delivery of lineage promises, whatever crashes, is redelivered *)
(* or arrives late: the broker accepts and the graph records only versions *)
(* that were committed, nothing accepted or recorded is taken back, and a  *)
(* run is vouched for (its trigger acknowledged, its next stage triggered) *)
(* only after the broker accepted a version of it.                         *)
(***************************************************************************)
EXTENDS Naturals, Sequences

CONSTANT Runs

VARIABLES
    committed,  \* committed[v] is the run that committed version v of the target
    accepted,   \* <<run, version>> pairs the broker accepted a COMPLETE for
    recorded,   \* the pairs the graph was given
    vouched     \* runs acknowledged or promoted

ledgerVars == <<committed, accepted, recorded, vouched>>

Facts == {<<committed[v], v>> : v \in 1..Len(committed)}

Init == committed = <<>> /\ accepted = {} /\ recorded = {} /\ vouched = {}

Commit ==
    /\ \E r \in Runs : committed' = Append(committed, r)
    /\ UNCHANGED <<accepted, recorded, vouched>>

Accept ==
    /\ \E c \in Facts : accepted' = accepted \cup {c}
    /\ UNCHANGED <<committed, recorded, vouched>>

Record ==
    /\ \E c \in Facts : recorded' = recorded \cup {c}
    /\ UNCHANGED <<committed, accepted, vouched>>

Vouch ==
    /\ \E c \in accepted : vouched' = vouched \cup {c[1]}
    /\ UNCHANGED <<committed, accepted, recorded>>

Next == Commit \/ Accept \/ Record \/ Vouch

Spec == Init /\ [][Next]_ledgerVars

=============================================================================
