------------------------------ MODULE LanceTable ------------------------------
(***************************************************************************)
(* One Lance table as its writers know it: a log of committed versions,    *)
(* the versions not yet reclaimed, and the tags that pin some of them.     *)
(*                                                                         *)
(* The storage library is not part of the repository; this is what the     *)
(* services rely on.  A commit is atomic and takes the next version; a     *)
(* writer opens the table at one version and later versions do not change  *)
(* what it reads; cleaning up spares the latest version and tagged ones.   *)
(***************************************************************************)
EXTENDS Naturals, Sequences, FiniteSets

CONSTANTS
    Tags,
    MaxVersions     \* bound: commits to the table

VARIABLES
    log,     \* the versions: what each holds and who committed it
    live,    \* the versions that can still be opened
    tags     \* the version each tag pins, 0 for none

tableVars == <<log, live, tags>>

Latest == Len(log)
Room == Latest < MaxVersions

Commit(entry) ==
    /\ Room
    /\ log' = Append(log, entry)
    /\ live' = live \cup {Latest + 1}
    /\ UNCHANGED tags

Pinned == {tags[t] : t \in Tags}

\* cleanup_old_versions: the versions left when some are spared by the bounds
\* given.  It never takes the latest one, nor one a tag pins.
Cleaned(spared) == {v \in live : v = Latest \/ v \in Pinned \cup spared}

\* The last so many versions that are still there.
LastLive(count) == {v \in live : Cardinality({u \in live : u > v}) < count}

LanceInit(entry) ==
    /\ log = <<entry>>
    /\ live = {1}
    /\ tags = [t \in Tags |-> 0]

=============================================================================
