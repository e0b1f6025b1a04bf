----------------------------- MODULE TableWrites -----------------------------
(***************************************************************************)
(* The catalog's data routes on one table, and the lineage they report.    *)
(*                                                                         *)
(* Every route commits first, then opens the table again to learn which    *)
(* version it made and with which schema, and reports that.  Other         *)
(* requests commit in between.  A client may also write its fragments to   *)
(* storage itself and only have the catalog commit them.                   *)
(***************************************************************************)
EXTENDS LanceTable

CONSTANTS
    Schemas,
    Clients,       \* callers of the data routes, one request at a time
    Nobody,
    MaxDoubts      \* bound: answers to one client that leave it in doubt

ASSUME NobodyAssumption == Nobody \notin Clients
ASSUME DoubtsAssumption == MaxDoubts \in Nat

VARIABLES
    call,        \* the request of each client
    reported,    \* the lineage events: version, schema and who caused it
    fragments    \* the fragments each client wrote itself: where they stand,
                 \* and history: how many commits of them it was left in doubt of

writeVars == <<call, reported, fragments>>

Rest == [at |-> "idle"]
Idle(c) == call[c] = Rest
At(c, step) == call[c].at = step
Goto(c, next) == call' = [call EXCEPT ![c] = next]

Schema(v) == log[v].schema
Entry(schema, by, kind) == [schema |-> schema, by |-> by, kind |-> kind]

WritesInit ==
    /\ call = [c \in Clients |-> Rest]
    /\ reported = {}
    /\ fragments = [c \in Clients |-> [stand |-> "none", doubts |-> 0]]

-----------------------------------------------------------------------------
(* What each operation commits.                                            *)

AppendRows(c) == Commit(Entry(Schema(Latest), c, "append"))
AppendFragments(c) == Commit(Entry(Schema(Latest), c, "fragments"))
UpdateRows(c) == Commit(Entry(Schema(Latest), c, "update"))
DeleteRows(c) == Commit(Entry(Schema(Latest), c, "update"))
MergeRows(c) == \E s \in Schemas : Commit(Entry(s, c, "update"))
NewColumns(c) == \E s \in Schemas \ {Schema(Latest)} : Commit(Entry(s, c, "schema"))
AlteredColumns(c) == \E s \in Schemas : Commit(Entry(s, c, "schema"))
DroppedColumns(c) == \E s \in Schemas \ {Schema(Latest)} : Commit(Entry(s, c, "schema"))
FieldMetadata(c) == \E s \in Schemas : Commit(Entry(s, c, "schema"))
Indexed(by) == Commit(Entry(Schema(Latest), by, "index"))
Restored(c, v) == v \in live /\ Commit(Entry(Schema(v), c, "overwrite"))
Overwritten(c) == \E s \in Schemas : Commit(Entry(s, c, "overwrite"))

-----------------------------------------------------------------------------
(* The routes.                                                             *)

Request(c) == Idle(c) /\ UNCHANGED <<reported, fragments>>

\* The answer of these carries no version: the read-back takes the latest.
Unpinned(c) == Goto(c, [at |-> "written", pin |-> 0])
\* These open the table again to answer with a version, and pin that one.
Reopened(c) == Goto(c, [at |-> "reopen"])
\* Only a merge is told by the storage which version it made.
Told(c) == Goto(c, [at |-> "merged", pin |-> Latest + 1])

InsertIntoTable(c) == Request(c) /\ AppendRows(c) /\ Unpinned(c)
RestoreTable(c) == Request(c) /\ (\E v \in 1..Latest : Restored(c, v)) /\ Unpinned(c)
UpdateTableSchemaMetadata(c) == Request(c) /\ FieldMetadata(c) /\ Unpinned(c)
CreateIndex(c) == Request(c) /\ Indexed(c) /\ Unpinned(c)
CreateScalarIndex(c) == Request(c) /\ Indexed(c) /\ Unpinned(c)
DropTableIndex(c) == Request(c) /\ Indexed(c) /\ Unpinned(c)
UpdateTable(c) == Request(c) /\ UpdateRows(c) /\ Reopened(c)
DeleteFromTable(c) == Request(c) /\ DeleteRows(c) /\ Reopened(c)
AddColumns(c) == Request(c) /\ NewColumns(c) /\ Reopened(c)
AlterColumns(c) == Request(c) /\ AlteredColumns(c) /\ Reopened(c)
DropColumns(c) == Request(c) /\ DroppedColumns(c) /\ Reopened(c)
UpdateFieldMetadata(c) == Request(c) /\ FieldMetadata(c) /\ Reopened(c)
MergeInsertIntoTable(c) == Request(c) /\ MergeRows(c) /\ Told(c)

\* An overwrite reports the schema of its own payload, with the version it was told.
OverwriteTable(c) ==
    /\ Idle(c)
    /\ Overwritten(c)
    /\ reported' = reported \cup {[version |-> Latest + 1, schema |-> log'[Latest + 1].schema, by |-> c]}
    /\ UNCHANGED <<call, fragments>>

Reopen(c) ==
    /\ At(c, "reopen")
    /\ Goto(c, [at |-> "written", pin |-> Latest])
    /\ UNCHANGED <<tableVars, reported, fragments>>

-----------------------------------------------------------------------------
(* read_version_and_schema and the report                                  *)

Event(version, schema, c) == [version |-> version, schema |-> schema, by |-> c]

\* MUTANT of ReadBack: the version and the schema come from two openings.
ReadBackTwice(c) ==
    LET pin == call[c].pin
    IN  /\ call[c].at \in {"written", "merged"}
        /\ \E seen \in 1..Latest :
              reported' = reported \cup {Event(IF pin = 0 THEN seen ELSE pin, Schema(Latest), c)}
        /\ Goto(c, IF At(c, "merged") THEN [at |-> "index"] ELSE Rest)
        /\ UNCHANGED <<tableVars, fragments>>

\* One opening serves both; a version reclaimed meanwhile leaves the schema out.
ReadBack(c) ==
    LET pin == call[c].pin
        opened == IF pin = 0 THEN Latest ELSE pin
    IN  /\ call[c].at \in {"written", "merged"}
        /\ reported' = reported \cup
              {Event(opened, IF opened \in live THEN Schema(opened) ELSE "unread", c)}
        /\ Goto(c, IF At(c, "merged") THEN [at |-> "index"] ELSE Rest)
        /\ UNCHANGED <<tableVars, fragments>>

\* The index on the merge key is built after the report, as a version of its
\* own that nobody reports; it may be there already, or fail.
EnsureMergeKeyIndex(c) ==
    /\ At(c, "index")
    /\ Indexed(Nobody) \/ UNCHANGED tableVars
    /\ Goto(c, Rest)
    /\ UNCHANGED <<reported, fragments>>

-----------------------------------------------------------------------------
(* POST /v1/table/{id}/commit: the client wrote the fragments itself.      *)

\* The client writes its fragments against the version it read, once.
StageFragments(c) ==
    /\ Idle(c) /\ fragments[c].stand = "none"
    /\ Goto(c, [at |-> "staged", read |-> Latest])
    /\ fragments' = [fragments EXCEPT ![c].stand = "staged"]
    /\ UNCHANGED <<tableVars, reported>>

OverwrittenSince(v) == \E u \in (v + 1)..Latest : log[u].kind = "overwrite"

\* MUTANT of Classified: a failure of the store is answered as a conflict.
ClassifiedAsConflict(failure) == IF failure = "incompatible" THEN "rejected" ELSE "retry"

\* _classify_commit_error: only a conflict says that nothing was committed and
\* that committing again can help.
Classified(failure) ==
    CASE failure = "incompatible" -> "rejected"
      [] failure = "conflict"     -> "retry"
      [] failure = "store"        -> "unknown"

\* Answered: the fragments are in, may be committed again on what the table is
\* now, or are given up; or the answer is a 503, or lost, and the client asks for
\* the same commit again, which takes no notice of an earlier one that landed.
CommitFragments(c) ==
    LET answer(verdict) ==
            /\ fragments' = [fragments EXCEPT ![c] =
                   [stand |-> verdict, doubts |-> @.doubts + IF verdict = "unknown" THEN 1 ELSE 0]]
            /\ Goto(c, CASE verdict = "committed" -> [at |-> "written", pin |-> 0]
                         [] verdict = "retry"     -> [at |-> "staged", read |-> Latest]
                         [] verdict = "unknown"   -> call[c]
                         [] verdict = "rejected"  -> Rest)
    IN  /\ At(c, "staged")
        /\ \/ ~OverwrittenSince(call[c].read) /\ AppendFragments(c) /\ answer("committed")
           \/ /\ OverwrittenSince(call[c].read)
              /\ answer(Classified("incompatible")) /\ UNCHANGED tableVars
           \/ Latest > call[c].read /\ answer(Classified("conflict")) /\ UNCHANGED tableVars
           \/ /\ fragments[c].doubts < MaxDoubts
              /\ (~OverwrittenSince(call[c].read) /\ AppendFragments(c)) \/ UNCHANGED tableVars
              /\ answer(Classified("store"))
        /\ UNCHANGED reported

\* A client may give up, or die, with a request under way.
Leave(c) ==
    /\ ~Idle(c)
    /\ Goto(c, Rest)
    /\ UNCHANGED <<tableVars, reported, fragments>>

\* Meanwhile a sweep or an owner cleans up the versions before some moment.
Reclaim ==
    /\ \E k \in 1..Latest : live' = Cleaned({v \in live : v > k})
    /\ UNCHANGED <<log, tags, writeVars>>

WritesNext ==
    \/ Reclaim
    \/ \E c \in Clients :
        \/ InsertIntoTable(c) \/ RestoreTable(c) \/ UpdateTableSchemaMetadata(c)
        \/ CreateIndex(c) \/ CreateScalarIndex(c) \/ DropTableIndex(c)
        \/ UpdateTable(c) \/ DeleteFromTable(c) \/ UpdateFieldMetadata(c)
        \/ AddColumns(c) \/ AlterColumns(c) \/ DropColumns(c)
        \/ MergeInsertIntoTable(c) \/ OverwriteTable(c)
        \/ Reopen(c) \/ ReadBack(c) \/ EnsureMergeKeyIndex(c)
        \/ StageFragments(c) \/ CommitFragments(c) \/ Leave(c)

-----------------------------------------------------------------------------
\* An event never pairs a version with the schema of another, although other
\* requests commit between the write, the read-back and the report.
EventDescribesItsVersion ==
    \A e \in reported : e.schema \in {Schema(e.version), "unread"}

\* A client that does as it is answered has its fragments in the table once when
\* a commit was confirmed, never when none was, and once more at most for every
\* answer that left it in doubt: what is denied was not committed.
FragmentsAsTold ==
    \A c \in {d \in Clients : fragments[d].stand # "none"} :
        LET times == Cardinality({v \in 1..Latest : log[v].by = c /\ log[v].kind = "fragments"})
            told == IF fragments[c].stand = "committed" THEN 1 ELSE 0
        IN  told <= times /\ times <= told + fragments[c].doubts

=============================================================================
