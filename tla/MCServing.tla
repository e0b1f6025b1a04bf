------------------------------- MODULE MCServing -------------------------------
(* Two threads over a row table and a table of frames, two replicas, two   *)
(* datasets whose lineage is read, two browsers of one person, a           *)
(* recording of two chunks, of one, or empty, and a document that is cut   *)
(* into two chunks.                                                        *)
EXTENDS Serving, TLC

CONSTANTS c1, c2, chunks, frames, e1, e2, talk, short, empty, here, there

OneFrames == {frames}
Both == {c1, c2}
TwoChanges == {e1, e2}
Recordings == {talk, short, empty}
Chunks == [p \in Recordings |-> IF p = talk THEN 2 ELSE IF p = short THEN 1 ELSE 0]

Segments == {here, there}

\* The threads are alike; their names serve for the replicas, the datasets of
\* the event feed, the browsers and the viewer's threads too.
ServingSymmetry == Permutations(Both)

=============================================================================
