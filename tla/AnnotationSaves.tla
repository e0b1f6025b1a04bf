---------------------------- MODULE AnnotationSaves ----------------------------
(***************************************************************************)
(* Reviewers of one media unit: they load its annotations with a version,  *)
(* edit them locally, and save the edits against that version.             *)
(*                                                                         *)
(* A save checks the version, reads the rows it edits, merges whole rows   *)
(* back and then deletes: two commits, with other requests in between.     *)
(* Over the catalog every read is a request of its own; directly, one      *)
(* opening of the table serves the whole save.                             *)
(***************************************************************************)
EXTENDS LanceTable, TLC

CONSTANTS
    Reviewers,
    Shapes,      \* annotations drawn before
    TagRows,     \* chunk tags: whoever adds one computes the same id
    Fields,
    Drawn        \* the value of every field at first

Rows == Shapes \cup TagRows

ASSUME ReviewersAssumption == Drawn \notin Reviewers

VARIABLES
    mode,      \* "direct" or "catalog", by the settings of the service
    view,      \* what each reviewer was shown: a version and the rows
    saving     \* the request of each reviewer

saveVars == <<mode, view, saving>>

Blank == [version |-> 0, rows |-> <<>>]
Still == [at |-> "idle"]
RowsAt(v) == log[v].rows
Whole(by) == [f \in Fields |-> by]

\* The rows that are there, each with its fields.

FirstRows == [rows |-> [r \in Shapes |-> Whole(Drawn)]]

SavesInit ==
    /\ mode \in {"direct", "catalog"}
    /\ view = [c \in Reviewers |-> Blank]
    /\ saving = [c \in Reviewers |-> Still]

Turn(c, next) == saving' = [saving EXCEPT ![c] = next]
Stage(c, step) == saving[c].at = step

-----------------------------------------------------------------------------
(* GET /annotations/...: the rows and the version a save will name.        *)

\* MUTANT of Served: the rows are read before the version.
ServedRowsFirst(first, second) == [version |-> second, rows |-> RowsAt(first)]

\* The version is asked for first, the rows after it.
Served(first, second) == [version |-> first, rows |-> RowsAt(second)]

LoadVersion(c) ==
    /\ Stage(c, "idle")
    /\ Turn(c, [at |-> "loading", first |-> Latest])
    /\ UNCHANGED <<tableVars, mode, view>>

\* Opened directly, the table does not move between the two reads.
LoadRows(c) ==
    /\ Stage(c, "loading")
    /\ LET first == saving[c].first
       IN  view' = [view EXCEPT ![c] = Served(first, IF mode = "direct" THEN first ELSE Latest)]
    /\ Turn(c, Still)
    /\ UNCHANGED <<tableVars, mode>>

-----------------------------------------------------------------------------
(* POST /annotations/...                                                   *)

\* Without a base version nothing is checked; against another one the client
\* is told to load again.
CheckBaseVersion(c, base, request) ==
    /\ Stage(c, "idle")
    /\ IF base \in {0, Latest}
       THEN Turn(c, request)
       ELSE Turn(c, Still)
    /\ UNCHANGED <<tableVars, mode, view>>

\* Bound: a save edits one field of one row, and deletes one row at most.
Edits == [Rows -> {{}} \cup {{f} : f \in Fields}]
OneEdit == {e \in Edits : Cardinality({r \in Rows : e[r] # {}}) = 1}

SaveAnnotations(c) ==
    /\ view[c] # Blank
    /\ \E base \in {0, view[c].version}, edits \in OneEdit, deletes \in {{}} \cup {{r} : r \in Rows} :
          CheckBaseVersion(c, base, [at |-> "checked", base |-> base, opened |-> Latest,
                                     edits |-> edits, deletes |-> deletes])

\* The rows to edit, in the table as opened; over the catalog, as it is now.
ReadCurrent(c) ==
    /\ Stage(c, "checked")
    /\ LET opened == IF mode = "direct" THEN saving[c].opened ELSE Latest
       IN  Turn(c, [at |-> "read", base |-> saving[c].base, opened |-> opened,
                    edits |-> saving[c].edits, deletes |-> saving[c].deletes])
    /\ UNCHANGED <<tableVars, mode, view>>

Edited(c) == {r \in Rows : saving[c].edits[r] # {}}

\* build_delta: whole rows, the fields that were not edited carried forward; an
\* edit of a row that is not there is left out.
BuildDelta(c) ==
    [r \in Edited(c) \cap DOMAIN RowsAt(saving[c].opened) |->
        [f \in Fields |->
            IF f \in saving[c].edits[r] THEN c ELSE RowsAt(saving[c].opened)[r][f]]]

\* merge_upsert runs against the latest version, whatever was opened.
MergeUpsert(c) ==
    LET delta == BuildDelta(c)
    IN  /\ Stage(c, "read")
        /\ IF DOMAIN delta = {}
           THEN UNCHANGED tableVars
           ELSE Commit([rows |-> delta @@ RowsAt(Latest)])
        /\ Turn(c, [at |-> "merged", deletes |-> saving[c].deletes])
        /\ UNCHANGED <<mode, view>>

Without(rows, deletes) == [r \in DOMAIN rows \ deletes |-> rows[r]]

\* delete_by_ids, a commit of its own.
DeleteByIds(c) ==
    /\ Stage(c, "merged")
    /\ IF saving[c].deletes = {}
       THEN UNCHANGED tableVars
       ELSE Commit([rows |-> Without(RowsAt(Latest), saving[c].deletes)])
    /\ Turn(c, [at |-> "finalize"])
    /\ UNCHANGED <<mode, view>>

\* The client drops the version it is answered with and loads again.
FinalizeCommit(c) ==
    /\ Stage(c, "finalize")
    /\ view' = [view EXCEPT ![c] = Blank]
    /\ Turn(c, Still)
    /\ UNCHANGED <<tableVars, mode>>

-----------------------------------------------------------------------------
(* POST /annotations/tags                                                  *)

ApplyTags(c) ==
    \E base \in {0, view[c].version}, adds \in SUBSET TagRows, removes \in SUBSET TagRows :
        CheckBaseVersion(c, base, [at |-> "tagging", adds |-> adds, deletes |-> removes])

\* merge_insert_only: a row that is there is left as it is.
Inserted(rows, adds, c) == rows @@ [r \in adds |-> Whole(c)]

MergeInsertOnly(c) ==
    /\ Stage(c, "tagging")
    /\ IF saving[c].adds = {}
       THEN UNCHANGED tableVars
       ELSE Commit([rows |-> Inserted(RowsAt(Latest), saving[c].adds, c)])
    /\ Turn(c, [at |-> "merged", deletes |-> saving[c].deletes])
    /\ UNCHANGED <<mode, view>>

\* A request may fail between its commits; the client keeps what it has.  Over
\* the catalog a call whose answer was lost is sent again.
FailSave(c) ==
    /\ ~Stage(c, "idle")
    /\ Turn(c, Still)
    /\ UNCHANGED <<tableVars, mode, view>>

RetryMerge(c) ==
    /\ mode = "catalog" /\ Stage(c, "read")
    /\ BuildDelta(c) # <<>>
    /\ Commit([rows |-> BuildDelta(c) @@ RowsAt(Latest)])
    /\ UNCHANGED saveVars

\* A producer adds a version of its own: a compaction, for one.
Derive ==
    /\ Commit(log[Latest])
    /\ UNCHANGED saveVars

SavesNext ==
    \/ \E c \in Reviewers :
          \/ LoadVersion(c) \/ LoadRows(c) \/ SaveAnnotations(c) \/ ReadCurrent(c)
          \/ MergeUpsert(c) \/ DeleteByIds(c) \/ FinalizeCommit(c)
          \/ ApplyTags(c) \/ MergeInsertOnly(c) \/ FailSave(c) \/ RetryMerge(c)
    \/ Derive

-----------------------------------------------------------------------------
\* A save that passes the check against its base version was drawn on the rows
\* of that very version, though the version and the rows were two requests.
DrawnOnItsBase ==
    \A c \in Reviewers :
        (saving[c].at \in {"checked", "read"} /\ saving[c].base # 0) =>
            view[c].rows = RowsAt(saving[c].base)

=============================================================================
