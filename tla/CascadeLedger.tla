----------------------------- MODULE CascadeLedger -----------------------------
(***************************************************************************)
(* What the cascade promises, whatever is redelivered, lost, killed or run *)
(* twice: a stage's run finishes only when the run of the stage before is  *)
(* reported, and is reported only when it has finished, so that lineage    *)
(* never shows a dataset whose upstream it does not know; and nothing that *)
(* finished or was reported is undone.                                     *)
(***************************************************************************)
EXTENDS Naturals

CONSTANTS
    Tokens,    \* one for each cascade
    LastStage  \* stages are numbered from 1; 0 is the raw data

VARIABLES
    finished,  \* the stages whose run succeeded, by token
    reported   \* those whose run, or raw write, lineage was told of

ledgerVars == <<finished, reported>>

Upstream(k) == <<k[1] - 1, k[2]>>

Init == finished = {} /\ reported = {}

Seed ==
    /\ \E t \in Tokens : reported' = reported \cup {<<0, t>>}
    /\ UNCHANGED finished

Finish ==
    /\ \E k \in (1..LastStage) \X Tokens :
          Upstream(k) \in reported /\ finished' = finished \cup {k}
    /\ UNCHANGED reported

Report ==
    /\ \E k \in finished : reported' = reported \cup {k}
    /\ UNCHANGED finished

Next == Seed \/ Finish \/ Report

Spec == Init /\ [][Next]_ledgerVars

=============================================================================
