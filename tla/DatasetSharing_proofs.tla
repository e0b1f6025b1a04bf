------------------------- MODULE DatasetSharing_proofs -------------------------
(***************************************************************************)
(* One Lance table under writers, maintenance and reviewers, proved for    *)
(* any numbers of them, of tags and of versions.                           *)
(***************************************************************************)
EXTENDS DatasetSharing, FiniteSetTheorems, TLAPS

-----------------------------------------------------------------------------
(* The table.                                                              *)

\* The log is a sequence that starts with a version, and only versions are live,
\* the latest among them.
TableInv ==
    /\ \E entries : log \in Seq(entries)
    /\ Latest \in Nat \ {0}
    /\ live \subseteq 1..Latest /\ Latest \in live

\* The log grows by a version, or not, and the versions before it stay.
Grows ==
    /\ \E entries : log' \in Seq(entries)
    /\ Len(log') \in Nat /\ Len(log') >= Latest
    /\ \A v \in 1..Latest : log'[v] = log[v]

LEMMA Appended ==
    ASSUME TableInv, NEW entry, log' = Append(log, entry)
    PROVE  Grows /\ Len(log') = Latest + 1 /\ log'[Latest + 1] = entry
<1>1. PICK entries : log \in Seq(entries)
  BY DEF TableInv
<1>2. log \in Seq(entries \cup {entry})
  BY <1>1
<1>3. log' \in Seq(entries \cup {entry})
  BY <1>2
<1>4. Len(log') = Latest + 1 /\ \A v \in 1..Latest : log'[v] = log[v]
  BY <1>2 DEF Latest
<1>5. log'[Latest + 1] = entry
  BY <1>2 DEF Latest
<1>6. QED BY <1>3, <1>4, <1>5 DEF Grows, TableInv

\* What a commit leaves: one more version, live and the latest.
LEMMA Committed ==
    ASSUME TableInv, NEW entry, Commit(entry)
    PROVE  /\ TableInv' /\ Grows
           /\ Len(log') = Latest + 1 /\ log'[Latest + 1] = entry
           /\ live \subseteq live' /\ tags' = tags
<1>1. /\ log' = Append(log, entry) /\ live' = live \cup {Latest + 1} /\ tags' = tags
  BY DEF Commit
<1>2. Grows /\ Len(log') = Latest + 1 /\ log'[Latest + 1] = entry
  BY <1>1, Appended
<1>3. Latest \in Nat \ {0} /\ live \subseteq 1..Latest
  BY DEF TableInv
<1>4. Latest' = Latest + 1 /\ \E entries : log' \in Seq(entries)
  BY <1>2 DEF Latest, Grows
<1>5. live' \subseteq 1..Latest' /\ Latest' \in live'
  BY <1>1, <1>3, <1>4
<1>6. TableInv'
  BY <1>3, <1>4, <1>5 DEF TableInv
<1>7. QED BY <1>1, <1>2, <1>6

LEMMA Uncommitted == ASSUME TableInv, UNCHANGED log PROVE Grows
BY DEF TableInv, Grows, Latest

LEMMA TableCommitted == ASSUME TableInv, NEW entry, Commit(entry) PROVE TableInv'
BY Committed

LEMMA TableIdle == ASSUME TableInv, UNCHANGED <<log, live>> PROVE TableInv'
BY DEF TableInv, Latest

\* Cleaning up spares the latest version, whatever else it is told to spare.
LEMMA TableCleaned ==
    ASSUME TableInv, NEW spared, live' = Cleaned(spared), UNCHANGED log
    PROVE  TableInv'
<1>1. live' \subseteq live /\ Latest \in live'
  BY DEF Cleaned, TableInv
<1>2. QED BY <1>1 DEF TableInv, Latest

LEMMA TableMaintained == ASSUME TableInv, MaintenanceNext PROVE TableInv'
<1>1. CASE Write \/ CompactNow
  BY <1>1, TableCommitted DEF Write, CompactNow
<1>2. CASE CompactFiles \/ OptimizeIndices \/ CmdCompact \/ EnsureVectorIndex \/ RecreateScalarIndex
  BY <1>2, TableCommitted, TableIdle
     DEF CompactFiles, OptimizeIndices, CmdCompact, EnsureVectorIndex, RecreateScalarIndex,
         CommitOrNot, tableVars
<1>3. CASE CleanUp
  BY <1>3, TableCleaned DEF CleanUp
<1>4. CASE CmdMaintain \/ \E retain \in {r.retain : r \in Rules} : RunGC(retain)
  BY <1>4, TableCleaned DEF CmdMaintain, RunGC
<1>5. CASE UNCHANGED <<log, live>>
  BY <1>5, TableIdle
<1>6. QED
  BY <1>1, <1>2, <1>3, <1>4, <1>5
     DEF MaintenanceNext, SetTablePolicy, SetNamespacePolicy, SetProjectPolicy, DeleteTablePolicy,
         DeleteNamespacePolicy, DeleteProjectPolicy, SetPolicy, LoadPolicies, Visit, FailPass,
         Elapse, DieCompacting, CmdTag, DeleteTag, CreateTag, UpdateTag, tableVars

\* The routes and the saves only commit.
CommitsOrNot == UNCHANGED tableVars \/ \E entry : Commit(entry)

LEMMA WritesCommit == ASSUME WritesNext PROVE CommitsOrNot \/ Reclaim
<1> SUFFICES ASSUME ~Reclaim PROVE CommitsOrNot
  OBVIOUS
<1>1. PICK c \in Clients :
        \/ InsertIntoTable(c) \/ RestoreTable(c) \/ UpdateTableSchemaMetadata(c)
        \/ CreateIndex(c) \/ CreateScalarIndex(c) \/ DropTableIndex(c)
        \/ UpdateTable(c) \/ DeleteFromTable(c) \/ UpdateFieldMetadata(c)
        \/ AddColumns(c) \/ AlterColumns(c) \/ DropColumns(c)
        \/ MergeInsertIntoTable(c) \/ OverwriteTable(c)
        \/ Reopen(c) \/ ReadBack(c) \/ EnsureMergeKeyIndex(c)
        \/ StageFragments(c) \/ CommitFragments(c) \/ Leave(c)
  BY DEF WritesNext
<1>2. CASE InsertIntoTable(c) \/ RestoreTable(c) \/ UpdateTableSchemaMetadata(c)
        \/ CreateIndex(c) \/ CreateScalarIndex(c) \/ DropTableIndex(c)
        \/ UpdateTable(c) \/ DeleteFromTable(c) \/ UpdateFieldMetadata(c)
  BY <1>2 DEF InsertIntoTable, RestoreTable, UpdateTableSchemaMetadata, CreateIndex,
     CreateScalarIndex, DropTableIndex, UpdateTable, DeleteFromTable, UpdateFieldMetadata,
     AppendRows, Restored, FieldMetadata, Indexed, UpdateRows, DeleteRows, CommitsOrNot
<1>3. CASE AddColumns(c) \/ AlterColumns(c) \/ DropColumns(c)
        \/ MergeInsertIntoTable(c) \/ OverwriteTable(c)
  BY <1>3 DEF AddColumns, AlterColumns, DropColumns, MergeInsertIntoTable, OverwriteTable,
     NewColumns, AlteredColumns, DroppedColumns, MergeRows, Overwritten, CommitsOrNot
<1>4. CASE Reopen(c) \/ ReadBack(c) \/ EnsureMergeKeyIndex(c)
        \/ StageFragments(c) \/ CommitFragments(c) \/ Leave(c)
  BY <1>4 DEF Reopen, ReadBack, EnsureMergeKeyIndex, StageFragments, CommitFragments, Leave,
     Indexed, AppendFragments, CommitsOrNot
<1>5. QED BY <1>1, <1>2, <1>3, <1>4

LEMMA SavesCommit == ASSUME SavesNext PROVE CommitsOrNot
BY DEF SavesNext, LoadVersion, LoadRows, SaveAnnotations, CheckBaseVersion, ReadCurrent, MergeUpsert,
   DeleteByIds, FinalizeCommit, ApplyTags, MergeInsertOnly, FailSave, RetryMerge, Derive, CommitsOrNot

\* The table itself, for the proofs that follow.
LEMMA TableSafe == Spec => []TableInv
<1>1. Init => TableInv
  <2> SUFFICES ASSUME Init PROVE TableInv
    OBVIOUS
  <2>1. PICK entry : LanceInit(entry)
    BY DEF Init, First
  <2>2. log = <<entry>> /\ live = {1}
    BY <2>1 DEF LanceInit
  <2>3. log \in Seq({entry}) /\ Len(log) = 1
    BY <2>2
  <2>4. \E entries : log \in Seq(entries)
    BY <2>3
  <2>5. QED BY <2>2, <2>3, <2>4 DEF TableInv, Latest
<1>2. TableInv /\ [Next]_vars => TableInv'
  <2> SUFFICES ASSUME TableInv, [Next]_vars PROVE TableInv'
    OBVIOUS
  <2>1. CASE MaintenanceNext
    BY <2>1, TableMaintained
  <2>2. CASE CommitsOrNot
    BY <2>2, TableCommitted, TableIdle DEF CommitsOrNot, tableVars
  <2>3. CASE Reclaim
    BY <2>3, TableCleaned DEF Reclaim
  <2>4. CASE UNCHANGED tableVars
    BY <2>4, TableIdle DEF tableVars
  <2>5. QED BY <2>1, <2>2, <2>3, <2>4, WritesCommit, SavesCommit DEF Next, vars
<1>3. QED BY <1>1, <1>2, PTL DEF Spec

\* Every step leaves the versions that are there as they are.
LEMMA Growing == ASSUME TableInv, [Next]_vars PROVE Grows
<1>1. CASE CommitsOrNot
  BY <1>1, Committed, Uncommitted DEF CommitsOrNot, tableVars
<1>2. CASE UNCHANGED log
  BY <1>2, Uncommitted
<1>3. CASE MaintenanceNext
  <2>1. CommitsOrNot \/ UNCHANGED log
    BY <1>3
       DEF MaintenanceNext, SetTablePolicy, SetNamespacePolicy, SetProjectPolicy, DeleteTablePolicy,
           DeleteNamespacePolicy, DeleteProjectPolicy, SetPolicy, LoadPolicies, Visit, FailPass,
           Elapse, DieCompacting, Write, CompactNow, CompactFiles, OptimizeIndices, CmdCompact,
           EnsureVectorIndex, RecreateScalarIndex, CommitOrNot, CleanUp, CmdMaintain, RunGC, CmdTag,
           DeleteTag, CreateTag, UpdateTag, CommitsOrNot, tableVars
  <2>2. QED BY <1>1, <1>2, <2>1
<1>4. QED BY <1>1, <1>2, <1>3, WritesCommit, SavesCommit DEF Reclaim, Next, vars, tableVars

-----------------------------------------------------------------------------
(* The data routes: events, and fragments committed by their writers.      *)

\* The versions that hold a client's own fragments.
FragmentVersions(c) == {v \in 1..Latest : log[v].by = c /\ log[v].kind = "fragments"}

CallsInv ==
    /\ DOMAIN call = Clients
    /\ \A c \in Clients : call[c].at \in {"written", "merged"} => call[c].pin \in 0..Latest

\* What an event names is a version there is: versions are never rewritten, so
\* the schema read under one opening stays that version's schema.
EventInv ==
    /\ CallsInv
    /\ \A e \in reported : e.version \in 1..Latest
    /\ EventDescribesItsVersion

Stands == {"none", "staged", "retry", "rejected", "committed", "unknown"}

Confirmed(c) == IF fragments[c].stand = "committed" THEN 1 ELSE 0

\* A client that may commit its fragments was not told that they are in; what is
\* there beyond the confirmed commit is paid for by answers that left it in doubt.
Accounted(c) ==
    /\ call[c].at = "staged" => fragments[c].stand # "committed"
    /\ IsFiniteSet(FragmentVersions(c))
    /\ Confirmed(c) <= Cardinality(FragmentVersions(c))
    /\ Cardinality(FragmentVersions(c)) <= Confirmed(c) + fragments[c].doubts

FragmentsInv ==
    /\ fragments \in [Clients -> [stand : Stands, doubts : Nat]]
    /\ traffic # "writes" => \A c \in Clients : fragments[c].stand = "none"
    /\ traffic = "writes" => \A c \in Clients : Accounted(c)

\* A commit of one client's fragments adds one to its versions, any other none.
LEMMA FragmentsCommitted ==
    ASSUME TableInv, NEW entry, Commit(entry), NEW c
    PROVE  FragmentVersions(c)' = FragmentVersions(c) \cup
               (IF entry.by = c /\ entry.kind = "fragments" THEN {Latest + 1} ELSE {})
<1>1. /\ Latest \in Nat /\ Latest' = Latest + 1 /\ log'[Latest + 1] = entry
      /\ \A v \in 1..Latest : log'[v] = log[v]
  BY Committed DEF TableInv, Grows, Latest
<1>2. 1..Latest' = (1..Latest) \cup {Latest + 1}
  BY <1>1
<1>3. QED BY <1>1, <1>2 DEF FragmentVersions

LEMMA FragmentsStay ==
    ASSUME TableInv, UNCHANGED log, NEW c PROVE FragmentVersions(c)' = FragmentVersions(c)
BY DEF FragmentVersions, Latest

\* A client moves on to a step that is not a commit of fragments.
Moves(c) ==
    \E next : /\ Goto(c, next) /\ next.at # "staged"
              /\ next.at \in {"written", "merged"} => next.pin \in 0..Len(log')

\* A request that commits rows, columns or an index, and goes on to its read-back.
Ordinary(c) ==
    /\ \E entry : entry.kind # "fragments" /\ Commit(entry)
    /\ Moves(c)
    /\ UNCHANGED <<reported, fragments>>

LEMMA Routes ==
    ASSUME TableInv, NEW c \in Clients,
           \/ InsertIntoTable(c) \/ RestoreTable(c) \/ UpdateTableSchemaMetadata(c)
           \/ CreateIndex(c) \/ CreateScalarIndex(c) \/ DropTableIndex(c)
           \/ UpdateTable(c) \/ DeleteFromTable(c) \/ UpdateFieldMetadata(c)
           \/ AddColumns(c) \/ AlterColumns(c) \/ DropColumns(c) \/ MergeInsertIntoTable(c)
    PROVE  Ordinary(c)
<1>1. Request(c) => UNCHANGED <<reported, fragments>>
  BY DEF Request
<1>2. ASSUME NEW entry, Commit(entry), Unpinned(c) \/ Reopened(c) \/ Told(c) PROVE Moves(c)
  <2>1. Len(log') = Latest + 1 /\ Latest \in Nat
    BY <1>2, Committed DEF TableInv
  <2>2. QED BY <1>2, <2>1 DEF Moves, Unpinned, Reopened, Told
<1>3. ASSUME NEW schema, NEW by, NEW kind PROVE Entry(schema, by, kind).kind = kind
  BY DEF Entry
<1>4. CASE \/ InsertIntoTable(c) \/ RestoreTable(c) \/ UpdateTableSchemaMetadata(c)
           \/ CreateIndex(c) \/ CreateScalarIndex(c) \/ DropTableIndex(c)
  BY <1>1, <1>2, <1>3, <1>4
     DEF InsertIntoTable, RestoreTable, UpdateTableSchemaMetadata, CreateIndex, CreateScalarIndex,
         DropTableIndex, AppendRows, Restored, FieldMetadata, Indexed, Ordinary
<1>5. CASE UpdateTable(c) \/ DeleteFromTable(c) \/ UpdateFieldMetadata(c)
           \/ AddColumns(c) \/ AlterColumns(c) \/ DropColumns(c) \/ MergeInsertIntoTable(c)
  BY <1>1, <1>2, <1>3, <1>5
     DEF UpdateTable, DeleteFromTable, UpdateFieldMetadata, AddColumns, AlterColumns, DropColumns,
         MergeInsertIntoTable, UpdateRows, DeleteRows, FieldMetadata, NewColumns, AlteredColumns,
         DroppedColumns, MergeRows, Ordinary
<1>6. QED BY <1>4, <1>5

LEMMA CallsMove ==
    ASSUME TableInv, Grows, CallsInv, NEW c \in Clients, Moves(c)
    PROVE  CallsInv' /\ \A d \in Clients : call'[d].at = "staged" => call[d].at = "staged"
<1>1. PICK next : /\ call' = [call EXCEPT ![c] = next] /\ next.at # "staged"
                  /\ next.at \in {"written", "merged"} => next.pin \in 0..Len(log')
  BY DEF Moves, Goto
<1>2. 0..Latest \subseteq 0..Len(log')
  BY DEF TableInv, Grows
<1>3. QED BY <1>1, <1>2 DEF CallsInv, Latest

\* What was reported stays true.
LEMMA ReportedStay ==
    ASSUME TableInv, Grows, EventInv, NEW e \in reported
    PROVE  e.version \in 1..Len(log') /\ e.schema \in {Schema(e.version)', "unread"}
<1>1. e.version \in 1..Latest /\ e.schema \in {Schema(e.version), "unread"}
  BY DEF EventInv, EventDescribesItsVersion
<1>2. log'[e.version] = log[e.version] /\ e.version \in 1..Len(log')
  BY <1>1 DEF TableInv, Grows
<1>3. QED BY <1>1, <1>2 DEF Schema

LEMMA EventsStay ==
    ASSUME TableInv, Grows, EventInv, CallsInv', UNCHANGED reported PROVE EventInv'
BY ReportedStay DEF EventInv, EventDescribesItsVersion, Latest

\* One more event, of a version there is and with its schema.
LEMMA EventReported ==
    ASSUME TableInv, Grows, EventInv, CallsInv', NEW version, NEW schema, NEW c,
           reported' = reported \cup {Event(version, schema, c)},
           version \in 1..Len(log'), schema \in {Schema(version)', "unread"}
    PROVE  EventInv'
<1>1. ASSUME NEW e \in reported'
      PROVE  e.version \in 1..Len(log') /\ e.schema \in {Schema(e.version)', "unread"}
  <2>1. CASE e \in reported
    BY <2>1, ReportedStay
  <2>2. CASE e = Event(version, schema, c)
    <3>1. e.version = version /\ e.schema = schema
      BY <2>2 DEF Event
    <3>2. QED BY <3>1
  <2>3. QED BY <2>1, <2>2
<1>2. QED BY <1>1 DEF EventInv, EventDescribesItsVersion, Latest

\* Fragments when nobody commits any, and no client comes to hold new ones.
LEMMA FragmentsKept ==
    ASSUME TableInv, FragmentsInv, UNCHANGED <<fragments, traffic>>,
           UNCHANGED log \/ \E entry : entry.kind # "fragments" /\ Commit(entry),
           \A d \in Clients : call'[d].at = "staged" => call[d].at = "staged"
    PROVE  FragmentsInv'
<1>1. \A c \in Clients : FragmentVersions(c)' = FragmentVersions(c)
  BY FragmentsCommitted, FragmentsStay
<1>2. QED BY <1>1 DEF FragmentsInv, Accounted, Confirmed

LEMMA OverwriteStep ==
    ASSUME TableInv, EventInv, FragmentsInv, traffic' = traffic, NEW c \in Clients, OverwriteTable(c)
    PROVE  EventInv' /\ FragmentsInv'
<1>1. PICK s : Commit(Entry(s, c, "overwrite"))
  BY DEF OverwriteTable, Overwritten
<1>2. Grows /\ Len(log') = Latest + 1
  BY <1>1, Committed
<1>3. /\ reported' = reported \cup {Event(Latest + 1, log'[Latest + 1].schema, c)}
      /\ UNCHANGED <<call, fragments>>
  BY DEF OverwriteTable, Event
<1>4. CallsInv'
  <2>1. 0..Latest \subseteq 0..Len(log')
    BY <1>2 DEF TableInv
  <2>2. QED BY <1>3, <2>1 DEF EventInv, CallsInv, Latest
<1>5. PICK version : version = Latest + 1
  OBVIOUS
<1>6. PICK schema : schema = log'[version].schema
  OBVIOUS
<1>7. EventInv'
  <2>1. version \in 1..Len(log') /\ schema \in {Schema(version)', "unread"}
    BY <1>2, <1>5, <1>6 DEF TableInv, Schema
  <2>2. reported' = reported \cup {Event(version, schema, c)}
    BY <1>3, <1>5, <1>6
  <2>3. QED BY <1>2, <1>4, <2>1, <2>2, EventReported
<1>8. FragmentsInv'
  <2>1. Entry(s, c, "overwrite").kind # "fragments"
    BY DEF Entry
  <2>2. QED BY <1>1, <1>3, <2>1, FragmentsKept
<1>9. QED BY <1>7, <1>8

LEMMA ReadBackStep ==
    ASSUME TableInv, EventInv, FragmentsInv, traffic' = traffic, NEW c \in Clients, ReadBack(c)
    PROVE  EventInv' /\ FragmentsInv'
<1>1. PICK version : version = IF call[c].pin = 0 THEN Latest ELSE call[c].pin
  OBVIOUS
<1>2. PICK schema : schema = IF version \in live THEN Schema(version) ELSE "unread"
  OBVIOUS
<1>3. /\ call[c].at \in {"written", "merged"}
      /\ reported' = reported \cup {Event(version, schema, c)}
      /\ Goto(c, IF At(c, "merged") THEN [at |-> "index"] ELSE Rest)
      /\ UNCHANGED <<tableVars, fragments>>
  BY <1>1, <1>2 DEF ReadBack
<1>4. Moves(c) /\ UNCHANGED log /\ Grows
  BY <1>3, Uncommitted DEF Moves, Rest, tableVars
<1>5. version \in 1..Len(log') /\ schema \in {Schema(version)', "unread"}
  <2>1. call[c].pin \in 0..Latest /\ Latest \in Nat \ {0}
    BY <1>3 DEF EventInv, CallsInv, TableInv
  <2>2. QED BY <1>1, <1>2, <1>4, <2>1 DEF Schema, Latest
<1>6. CallsInv' /\ \A d \in Clients : call'[d].at = "staged" => call[d].at = "staged"
  BY <1>4, CallsMove DEF EventInv
<1>7. EventInv'
  BY <1>3, <1>4, <1>5, <1>6, EventReported
<1>8. FragmentsInv'
  BY <1>3, <1>4, <1>6, FragmentsKept
<1>9. QED BY <1>7, <1>8

\* Steps after which the table and the events are as before, or the table has one
\* more version of no client's own fragments.
LEMMA QuietStep ==
    ASSUME TableInv, EventInv, FragmentsInv, NEW c \in Clients, Moves(c),
           UNCHANGED <<reported, fragments, traffic>>,
           UNCHANGED tableVars \/ \E entry : entry.kind # "fragments" /\ Commit(entry)
    PROVE  EventInv' /\ FragmentsInv'
<1>1. Grows
  BY Committed, Uncommitted DEF tableVars
<1>2. CallsInv' /\ \A d \in Clients : call'[d].at = "staged" => call[d].at = "staged"
  BY <1>1, CallsMove DEF EventInv
<1>3. QED BY <1>1, <1>2, EventsStay, FragmentsKept DEF tableVars

\* Writing fragments to storage, for a client that has written none yet.
LEMMA StageStep ==
    ASSUME TableInv, EventInv, FragmentsInv, traffic' = traffic, traffic = "writes",
           NEW c \in Clients, StageFragments(c)
    PROVE  EventInv' /\ FragmentsInv'
<1>1. /\ call' = [call EXCEPT ![c] = [at |-> "staged", read |-> Latest]]
      /\ fragments[c].stand = "none" /\ fragments' = [fragments EXCEPT ![c].stand = "staged"]
      /\ UNCHANGED log /\ UNCHANGED reported
  BY DEF StageFragments, Goto, tableVars
<1>2. Grows /\ CallsInv'
  BY <1>1, Uncommitted DEF EventInv, CallsInv, Latest
<1>3. \A d \in Clients : FragmentVersions(d)' = FragmentVersions(d)
  BY <1>1, FragmentsStay
<1>4. /\ fragments' \in [Clients -> [stand : Stands, doubts : Nat]]
      /\ \A d \in Clients : /\ fragments'[d].doubts = fragments[d].doubts
                            /\ Confirmed(d)' = Confirmed(d)
                            /\ call'[d].at = "staged" => fragments'[d].stand # "committed"
  BY <1>1 DEF FragmentsInv, Accounted, Confirmed, EventInv, CallsInv, Stands
<1>5. FragmentsInv'
  BY <1>3, <1>4 DEF FragmentsInv, Accounted
<1>6. QED BY <1>1, <1>2, <1>5, EventsStay

\* The commit of a client's own fragments, whatever it is answered.
LEMMA FragmentsAnswered ==
    ASSUME TableInv, EventInv, FragmentsInv, traffic' = traffic, traffic = "writes",
           NEW c \in Clients, NEW verdict \in Stands, NEW next, call[c].at = "staged",
           fragments' = [fragments EXCEPT ![c] = [stand |-> verdict,
                            doubts |-> @.doubts + IF verdict = "unknown" THEN 1 ELSE 0]],
           Goto(c, next), UNCHANGED reported,
           next.at \in {"written", "merged"} => next.pin = 0,
           next.at = "staged" => verdict # "committed",
           \/ AppendFragments(c) /\ verdict \in {"committed", "unknown"}
           \/ UNCHANGED tableVars /\ verdict \in {"retry", "rejected", "unknown"}
    PROVE  EventInv' /\ FragmentsInv'
<1>1. Grows
  BY Committed, Uncommitted DEF AppendFragments, tableVars
<1>2. CallsInv'
  BY <1>1 DEF EventInv, CallsInv, Goto, TableInv, Grows, Latest
<1>3. PICK entry : entry = Entry(Schema(Latest), c, "fragments")
  OBVIOUS
<1>4. ASSUME AppendFragments(c), NEW d \in Clients
      PROVE  FragmentVersions(d)' = FragmentVersions(d) \cup (IF d = c THEN {Latest + 1} ELSE {})
  <2>1. Commit(entry) /\ entry.by = c /\ entry.kind = "fragments"
    BY <1>3, <1>4 DEF AppendFragments, Entry
  <2>2. QED BY <2>1, FragmentsCommitted
<1>5. ASSUME UNCHANGED tableVars, NEW d \in Clients PROVE FragmentVersions(d)' = FragmentVersions(d)
  BY <1>5, FragmentsStay DEF tableVars
<1>6. /\ fragments' \in [Clients -> [stand : Stands, doubts : Nat]]
      /\ fragments'[c].stand = verdict /\ fragments[c].doubts \in Nat
      /\ fragments'[c].doubts = fragments[c].doubts + (IF verdict = "unknown" THEN 1 ELSE 0)
      /\ \A d \in Clients \ {c} : fragments'[d] = fragments[d]
  <2>1. /\ fragments \in [Clients -> [stand : Stands, doubts : Nat]]
        /\ fragments[c].doubts \in Nat
    BY DEF FragmentsInv
  <2>2. PICK n \in Nat : n = fragments[c].doubts + IF verdict = "unknown" THEN 1 ELSE 0
    BY <2>1
  <2>3. fragments' = [fragments EXCEPT ![c] = [stand |-> verdict, doubts |-> n]]
    BY <2>2
  <2>4. QED BY <2>1, <2>2, <2>3
<1>7. call'[c] = next /\ \A d \in Clients \ {c} : call'[d] = call[d]
  BY DEF EventInv, CallsInv, Goto
<1>8. ASSUME NEW d \in Clients \ {c} PROVE Accounted(d)'
  <2>1. FragmentVersions(d)' = FragmentVersions(d)
    BY <1>4, <1>5
  <2>2. Accounted(d)
    BY DEF FragmentsInv
  <2>3. QED BY <1>6, <1>7, <2>1, <2>2 DEF Accounted, Confirmed
<1>9. Accounted(c)'
  <2>1. PICK held : held = FragmentVersions(c)
    OBVIOUS
  <2>2. /\ IsFiniteSet(held) /\ Cardinality(held) \in Nat
        /\ Cardinality(held) <= fragments[c].doubts
    <3>1. Accounted(c)
      BY DEF FragmentsInv
    <3>2. Confirmed(c) = 0
      BY <3>1 DEF Accounted, Confirmed
    <3>3. QED BY <1>6, <2>1, <3>1, <3>2, FS_CardinalityType DEF Accounted
  <2>3. Confirmed(c)' = IF verdict = "committed" THEN 1 ELSE 0
    BY <1>6 DEF Confirmed
  <2>4. call'[c].at = "staged" => fragments'[c].stand # "committed"
    BY <1>6, <1>7
  <2>5. CASE AppendFragments(c) /\ verdict \in {"committed", "unknown"}
    <3>1. FragmentVersions(c)' = held \cup {Latest + 1}
      BY <1>4, <2>1, <2>5
    <3>2. Latest + 1 \notin held
      BY <2>1 DEF FragmentVersions, TableInv
    <3>3. /\ IsFiniteSet(held \cup {Latest + 1})
          /\ Cardinality(held \cup {Latest + 1}) = Cardinality(held) + 1
      BY <2>2, <3>2, FS_AddElement
    <3>4. PICK n : n = Cardinality(held)
      OBVIOUS
    <3>5. /\ Confirmed(c)' <= n + 1
          /\ n + 1 <= Confirmed(c)' + fragments'[c].doubts
      BY <1>6, <2>2, <2>3, <2>5, <3>4
    <3>6. QED BY <2>4, <3>1, <3>3, <3>4, <3>5 DEF Accounted
  <2>6. CASE UNCHANGED tableVars /\ verdict \in {"retry", "rejected", "unknown"}
    <3>1. FragmentVersions(c)' = held
      BY <1>5, <2>1, <2>6
    <3>2. PICK n : n = Cardinality(held)
      OBVIOUS
    <3>3. Confirmed(c)' <= n /\ n <= Confirmed(c)' + fragments'[c].doubts
      BY <1>6, <2>2, <2>3, <2>6, <3>2
    <3>4. QED BY <2>2, <2>4, <3>1, <3>2, <3>3 DEF Accounted
  <2>7. QED BY <2>5, <2>6
<1>10. FragmentsInv'
  BY <1>6, <1>8, <1>9 DEF FragmentsInv
<1>11. QED BY <1>1, <1>2, <1>10, EventsStay

LEMMA CommitStep ==
    ASSUME TableInv, EventInv, FragmentsInv, traffic' = traffic, traffic = "writes",
           NEW c \in Clients, CommitFragments(c)
    PROVE  EventInv' /\ FragmentsInv'
<1> DEFINE next(verdict) == CASE verdict = "committed" -> [at |-> "written", pin |-> 0]
                              [] verdict = "retry"     -> [at |-> "staged", read |-> Latest]
                              [] verdict = "unknown"   -> call[c]
                              [] verdict = "rejected"  -> Rest
<1>1. PICK verdict :
        /\ call[c].at = "staged" /\ UNCHANGED reported
        /\ fragments' = [fragments EXCEPT ![c] = [stand |-> verdict,
                            doubts |-> @.doubts + IF verdict = "unknown" THEN 1 ELSE 0]]
        /\ Goto(c, next(verdict))
        /\ \/ AppendFragments(c) /\ verdict \in {"committed", "unknown"}
           \/ UNCHANGED tableVars /\ verdict \in {"retry", "rejected", "unknown"}
  BY DEF CommitFragments, Classified, At
<1>2. PICK going : going = next(verdict)
  OBVIOUS
<1>3. verdict \in Stands
  BY <1>1 DEF Stands
<1>4. going.at \in {"written", "merged"} => going.pin = 0
  BY <1>1, <1>2 DEF Rest
<1>5. going.at = "staged" => verdict # "committed"
  BY <1>1, <1>2
<1>6. QED BY <1>1, <1>2, <1>3, <1>4, <1>5, FragmentsAnswered

LEMMA WritesStep ==
    ASSUME TableInv, EventInv, FragmentsInv, traffic' = traffic, traffic = "writes", WritesNext
    PROVE  EventInv' /\ FragmentsInv'
<1>0. CASE Reclaim
  <2>1. UNCHANGED <<log, call, reported, fragments>> /\ Grows
    BY <1>0, Uncommitted DEF Reclaim, writeVars
  <2>2. CallsInv' /\ \A d \in Clients : call'[d].at = "staged" => call[d].at = "staged"
    BY <2>1 DEF EventInv, CallsInv, Latest
  <2>3. QED BY <2>1, <2>2, EventsStay, FragmentsKept
<1> SUFFICES ASSUME ~Reclaim PROVE EventInv' /\ FragmentsInv'
  BY <1>0
<1>1. PICK c \in Clients :
        \/ InsertIntoTable(c) \/ RestoreTable(c) \/ UpdateTableSchemaMetadata(c)
        \/ CreateIndex(c) \/ CreateScalarIndex(c) \/ DropTableIndex(c)
        \/ UpdateTable(c) \/ DeleteFromTable(c) \/ UpdateFieldMetadata(c)
        \/ AddColumns(c) \/ AlterColumns(c) \/ DropColumns(c)
        \/ MergeInsertIntoTable(c) \/ OverwriteTable(c)
        \/ Reopen(c) \/ ReadBack(c) \/ EnsureMergeKeyIndex(c)
        \/ StageFragments(c) \/ CommitFragments(c) \/ Leave(c)
  BY DEF WritesNext
<1>2. CASE \/ InsertIntoTable(c) \/ RestoreTable(c) \/ UpdateTableSchemaMetadata(c)
           \/ CreateIndex(c) \/ CreateScalarIndex(c) \/ DropTableIndex(c)
           \/ UpdateTable(c) \/ DeleteFromTable(c) \/ UpdateFieldMetadata(c)
           \/ AddColumns(c) \/ AlterColumns(c) \/ DropColumns(c) \/ MergeInsertIntoTable(c)
  <2>1. Ordinary(c)
    BY <1>2, Routes
  <2>2. QED BY <2>1, QuietStep DEF Ordinary
<1>3. CASE Reopen(c)
  <2>1. Moves(c)
    BY <1>3 DEF Reopen, Moves, TableInv, Latest, tableVars
  <2>2. QED BY <1>3, <2>1, QuietStep DEF Reopen
<1>4. CASE EnsureMergeKeyIndex(c)
  <2>1. Moves(c)
    BY <1>4 DEF EnsureMergeKeyIndex, Moves, Rest
  <2>2. UNCHANGED tableVars \/ \E entry : entry.kind # "fragments" /\ Commit(entry)
    <3>1. Entry(Schema(Latest), Nobody, "index").kind # "fragments"
      BY DEF Entry
    <3>2. QED BY <1>4, <3>1 DEF EnsureMergeKeyIndex, Indexed
  <2>3. QED BY <1>4, <2>1, <2>2, QuietStep DEF EnsureMergeKeyIndex
<1>5. CASE Leave(c)
  <2>1. Moves(c)
    BY <1>5 DEF Leave, Moves, Rest
  <2>2. QED BY <1>5, <2>1, QuietStep DEF Leave
<1>6. QED BY <1>1, <1>2, <1>3, <1>4, <1>5, OverwriteStep, ReadBackStep, StageStep, CommitStep

LEMMA WritesSafe == Spec => [](EventInv /\ FragmentsInv)
<1>1. Init => EventInv /\ FragmentsInv
  <2> SUFFICES ASSUME Init PROVE EventInv /\ FragmentsInv
    OBVIOUS
  <2>1. EventInv
    BY DEF Init, WritesInit, EventInv, CallsInv, EventDescribesItsVersion, Rest
  <2>2. /\ fragments \in [Clients -> [stand : Stands, doubts : Nat]]
        /\ \A c \in Clients : /\ fragments[c] = [stand |-> "none", doubts |-> 0]
                               /\ call[c] = Rest
    BY DEF Init, WritesInit, Stands
  <2>3. ASSUME traffic = "writes", NEW c \in Clients PROVE FragmentVersions(c) = {}
    <3>1. PICK s \in Schemas : log = <<Entry(s, Nobody, "overwrite")>>
      BY <2>3 DEF Init, First, LanceInit
    <3>2. Entry(s, Nobody, "overwrite").kind # "fragments"
      BY DEF Entry
    <3>3. Len(log) = 1 /\ log[1] = Entry(s, Nobody, "overwrite")
      BY <3>1
    <3>4. QED BY <3>2, <3>3 DEF FragmentVersions, Latest
  <2>4. ASSUME traffic = "writes", NEW c \in Clients PROVE Accounted(c)
    <3>1. FragmentVersions(c) = {}
      BY <2>3, <2>4
    <3>2. IsFiniteSet({}) /\ Cardinality({}) = 0
      BY FS_EmptySet
    <3>3. Confirmed(c) = 0 /\ fragments[c].doubts = 0 /\ call[c].at = "idle"
      BY <2>2 DEF Confirmed, Rest
    <3>4. QED BY <3>1, <3>2, <3>3 DEF Accounted
  <2>5. QED BY <2>1, <2>2, <2>4 DEF FragmentsInv
<1>2. TableInv /\ EventInv /\ FragmentsInv /\ [Next]_vars => (EventInv /\ FragmentsInv)'
  <2> SUFFICES ASSUME TableInv, EventInv, FragmentsInv, [Next]_vars
               PROVE  (EventInv /\ FragmentsInv)'
    OBVIOUS
  <2>1. CASE traffic = "writes" /\ traffic' = traffic /\ WritesNext
    BY <2>1, WritesStep
  <2>2. CASE UNCHANGED vars
    <3>1. UNCHANGED <<log, call, reported, fragments, traffic>>
      BY <2>2 DEF vars, writeVars, tableVars
    <3>2. CallsInv'
      BY <3>1 DEF EventInv, CallsInv, Latest
    <3>3. EventInv'
      BY <3>1, <3>2 DEF EventInv, EventDescribesItsVersion, Schema, Latest
    <3>4. \A c \in Clients : Accounted(c)' <=> Accounted(c)
      BY <3>1 DEF Accounted, Confirmed, FragmentVersions, Latest
    <3>5. FragmentsInv'
      BY <3>1, <3>4 DEF FragmentsInv
    <3>6. QED BY <3>3, <3>5
  <2>3. CASE traffic # "writes" /\ UNCHANGED <<writeVars, traffic>>
    <3>1. Grows
      BY Growing
    <3>2. CallsInv'
      BY <2>3, <3>1 DEF writeVars, EventInv, CallsInv, TableInv, Grows, Latest
    <3>3. EventInv'
      BY <2>3, <3>1, <3>2, EventsStay DEF writeVars
    <3>4. FragmentsInv'
      BY <2>3 DEF writeVars, FragmentsInv
    <3>5. QED BY <3>3, <3>4
  <2>4. QED BY <2>1, <2>2, <2>3 DEF Next
<1>3. QED BY <1>1, <1>2, TableSafe, PTL DEF Spec

\* read_version_and_schema and emit: however many requests commit between a write,
\* its read-back and its report, no event pairs a version with another's schema.
THEOREM EventsAreTrue == Spec => []EventDescribesItsVersion
<1>1. EventInv => EventDescribesItsVersion
  BY DEF EventInv
<1>2. QED BY <1>1, WritesSafe, PTL

\* _classify_commit_error: what is answered as not committed is not, and what is
\* confirmed is there once more, for any numbers of clients, of conflicts, and of
\* commits repeated after a 503 or a lost answer, each of which may have landed.
THEOREM FragmentsLandAsTold == Spec => []FragmentsAsTold
<1>1. TableInv /\ FragmentsInv => FragmentsAsTold
  <2> SUFFICES ASSUME FragmentsInv, NEW c \in Clients, fragments[c].stand # "none"
               PROVE  /\ Confirmed(c) <= Cardinality(FragmentVersions(c))
                      /\ Cardinality(FragmentVersions(c)) <= Confirmed(c) + fragments[c].doubts
    BY DEF FragmentsAsTold, FragmentVersions, Confirmed
  <2>1. traffic = "writes"
    BY DEF FragmentsInv
  <2>2. QED BY <2>1 DEF FragmentsInv, Accounted
<1>2. QED BY <1>1, TableSafe, WritesSafe, PTL

-----------------------------------------------------------------------------
(* The sweep and the policies.                                             *)

Swept == [at : {"loaded", "opened", "indices", "clean"},
          records : [Levels -> Rules \cup {Unset}], inforce : SUBSET (Rules \cup {Unset})]

Allows(rule) == rule # Unset => rule.enabled /\ (rule.paced => stamp # "fresh")

\* The rule a sweep goes by held for the table when the sweep listed the records,
\* as far as it could read them; from its visit on it is known to allow the pass.
SweepInv ==
    /\ policy \in [Levels -> Rules \cup {Unset}]
    /\ sweep = Resting \/
          /\ sweep \in Swept
          /\ Resolved(sweep.records) \in sweep.inforce
          /\ sweep.at # "loaded" => Allows(Resolved(sweep.records))

\* resolve_policy takes the record that governs.
LEMMA ResolvedGoverns ==
    ASSUME NEW records \in [Levels -> Rules \cup {Unset}]
    PROVE  /\ Resolved(records) \in Governing(records) /\ Resolved(records) \in Rules \cup {Unset}
           /\ Governing(records) \subseteq Rules \cup {Unset}
<1>1. CASE Set(records) = {}
  BY <1>1 DEF Resolved, Governing
<1>2. CASE Set(records) # {}
  <2>1. PICK l \in Set(records) : \A k \in Set(records) : l <= k
    BY <1>2 DEF Set, Levels
  <2>2. PICK first : first = CHOOSE k \in Set(records) : \A j \in Set(records) : k <= j
    OBVIOUS
  <2>3. first \in Set(records) /\ \A k \in Set(records) : first <= k
    BY <2>1, <2>2
  <2>4. \A j \in Levels : j < first => records[j] = Unset
    BY <2>3 DEF Set, Levels
  <2>5. Resolved(records) = records[first]
    BY <1>2, <2>2 DEF Resolved
  <2>6. QED BY <1>2, <2>3, <2>4, <2>5 DEF Governing, Set
<1>3. QED BY <1>1, <1>2

LEMMA PolicySet ==
    ASSUME SweepInv, NEW l \in Levels, NEW rule \in Rules \cup {Unset}, SetPolicy(l, rule)
    PROVE  SweepInv'
<1>1. policy' \in [Levels -> Rules \cup {Unset}] /\ stamp' = stamp
  BY DEF SweepInv, SetPolicy
<1>2. Governing(policy') \subseteq Rules \cup {Unset}
  BY <1>1, ResolvedGoverns
<1>3. CASE sweep = Resting
  BY <1>1, <1>3 DEF SetPolicy, SweepInv
<1>4. CASE sweep # Resting
  <2>1. sweep' = [sweep EXCEPT !.inforce = @ \cup Governing(policy')] /\ sweep \in Swept
    BY <1>4 DEF SetPolicy, SweepInv
  <2>2. sweep' \in Swept /\ sweep'.at = sweep.at /\ sweep'.records = sweep.records
        /\ sweep.inforce \subseteq sweep'.inforce
    BY <1>2, <2>1 DEF Swept
  <2>3. Allows(Resolved(sweep.records)) => Allows(Resolved(sweep.records))'
    BY <1>1, <2>2 DEF Allows, Resolved, Set
  <2>4. Resolved(sweep.records)' = Resolved(sweep.records)
    BY <2>2 DEF Resolved, Set
  <2>5. QED BY <1>1, <1>4, <2>2, <2>3, <2>4 DEF SweepInv
<1>5. QED BY <1>3, <1>4

\* A sweep that goes on, to a step whose rule allows it, with the stamp it found.
LEMMA SweepGoesOn ==
    ASSUME SweepInv, sweep # Resting, NEW step \in {"opened", "indices", "clean"},
           sweep' = [sweep EXCEPT !.at = step], UNCHANGED <<policy, stamp>>,
           Allows(Resolved(sweep.records))
    PROVE  SweepInv'
<1>1. sweep \in Swept
  BY DEF SweepInv
<1>2. sweep' \in Swept /\ sweep'.records = sweep.records /\ sweep'.inforce = sweep.inforce
  BY <1>1 DEF Swept
<1>3. Resolved(sweep.records)' = Resolved(sweep.records)
  BY <1>2 DEF Resolved, Set
<1>4. QED BY <1>2, <1>3 DEF SweepInv, Allows

LEMMA SweepStep == ASSUME SweepInv, MaintenanceNext PROVE SweepInv'
<1>1. ASSUME NEW l \in Levels, NEW rule \in Rules \cup {Unset}, SetPolicy(l, rule) PROVE SweepInv'
  BY <1>1, PolicySet
<1>2. CASE LoadPolicies
  <2>1. PICK unread \in SUBSET Set(policy) :
           sweep' = [at |-> "loaded",
                     records |-> [l \in Levels |-> IF l \in unread THEN Unset ELSE policy[l]],
                     inforce |-> IF unread = {} THEN Governing(policy) ELSE Rules \cup {Unset}]
    BY <1>2 DEF LoadPolicies
  <2>2. UNCHANGED policy /\ policy \in [Levels -> Rules \cup {Unset}]
    BY <1>2 DEF LoadPolicies, SweepInv
  <2>3. PICK records \in [Levels -> Rules \cup {Unset}] :
           records = [l \in Levels |-> IF l \in unread THEN Unset ELSE policy[l]]
    BY <2>2
  <2>4. PICK inforce \in SUBSET (Rules \cup {Unset}) :
           inforce = IF unread = {} THEN Governing(policy) ELSE Rules \cup {Unset}
    BY <2>2, ResolvedGoverns
  <2>5. sweep' \in Swept /\ sweep'.records = records /\ sweep'.inforce = inforce
        /\ sweep'.at = "loaded"
    BY <2>1, <2>3, <2>4 DEF Swept
  <2>6. Resolved(records) \in inforce
    <3>1. CASE unread = {}
      <4>1. records = policy
        BY <2>2, <2>3, <3>1
      <4>2. QED BY <2>2, <2>4, <3>1, <4>1, ResolvedGoverns
    <3>2. CASE unread # {}
      BY <2>4, <3>2, ResolvedGoverns
    <3>3. QED BY <3>1, <3>2
  <2>7. Resolved(sweep.records)' = Resolved(records)
    BY <2>5 DEF Resolved, Set
  <2>8. QED BY <2>2, <2>5, <2>6, <2>7 DEF SweepInv
<1>3. CASE Visit
  <2>1. /\ sweep.at = "loaded" /\ UNCHANGED <<policy, stamp>>
        /\ \/ sweep' = Resting
           \/ ~Skipped(Resolved(sweep.records)) /\ sweep' = [sweep EXCEPT !.at = "opened"]
    BY <1>3 DEF Visit
  <2>2. CASE sweep' = Resting
    BY <2>1, <2>2 DEF SweepInv
  <2>3. CASE ~Skipped(Resolved(sweep.records)) /\ sweep' = [sweep EXCEPT !.at = "opened"]
    <3>1. sweep # Resting /\ Resolved(sweep.records) \in Rules \cup {Unset}
      BY <2>1, ResolvedGoverns DEF Resting, SweepInv, Swept
    <3>2. Allows(Resolved(sweep.records))
      BY <2>3 DEF Skipped, Allows
    <3>3. QED BY <2>1, <2>3, <3>1, <3>2, SweepGoesOn
  <2>4. QED BY <2>1, <2>2, <2>3
<1>4. CASE CompactFiles \/ OptimizeIndices
  <2>1. PICK step \in {"indices", "clean"} :
           /\ sweep' = [sweep EXCEPT !.at = step] /\ sweep.at \in {"opened", "indices"}
           /\ UNCHANGED <<policy, stamp>>
    BY <1>4 DEF CompactFiles, OptimizeIndices
  <2>2. sweep # Resting /\ Allows(Resolved(sweep.records))
    BY <2>1 DEF Resting, SweepInv
  <2>3. QED BY <2>1, <2>2, SweepGoesOn
<1>5. CASE FailPass \/ CleanUp
  <2>1. sweep' = Resting /\ UNCHANGED policy
    BY <1>5 DEF FailPass, CleanUp
  <2>2. QED BY <2>1 DEF SweepInv
<1>6. CASE Elapse
  <2>1. UNCHANGED <<policy, sweep>> /\ stamp' # "fresh"
    BY <1>6 DEF Elapse
  <2>2. Resolved(sweep.records)' = Resolved(sweep.records)
    BY <2>1 DEF Resolved, Set
  <2>3. QED BY <2>1, <2>2 DEF SweepInv, Allows
<1>7. CASE UNCHANGED <<policy, sweep, stamp>>
  BY <1>7 DEF SweepInv, Allows, Resolved, Set
<1>8. QED
  BY <1>1, <1>2, <1>3, <1>4, <1>5, <1>6, <1>7
     DEF MaintenanceNext, SetTablePolicy, SetNamespacePolicy, SetProjectPolicy, DeleteTablePolicy,
         DeleteNamespacePolicy, DeleteProjectPolicy, Levels, DieCompacting, Write, CompactNow, CmdCompact,
         EnsureVectorIndex, RecreateScalarIndex, CmdMaintain, RunGC, CmdTag, DeleteTag, CreateTag,
         UpdateTag, maintenanceVars

LEMMA SweepSafe == Spec => []SweepInv
<1>1. Init => SweepInv
  BY DEF Init, MaintenanceInit, SweepInv
<1>2. SweepInv /\ [Next]_vars => SweepInv'
  <2>1. ASSUME SweepInv, UNCHANGED maintenanceVars PROVE SweepInv'
    BY <2>1 DEF maintenanceVars, SweepInv, Allows, Resolved, Set
  <2>2. QED BY <2>1, SweepStep DEF Next, vars
<1>3. QED BY <1>1, <1>2, PTL DEF Spec

\* What a rule spares holds the versions it retains.
LEMMA SparedHolds ==
    ASSUME TableInv, NEW rule \in Rules, NEW spared \in Spared(rule)
    PROVE  LastLive(rule.retain) \subseteq Cleaned(spared)
<1>1. rule.retain \in Nat /\ rule # Unset
  BY RulesAssumption
<1>2. CASE rule.retain = 0
  <2>1. \A v \in live : Cardinality({u \in live : u > v}) \in Nat
    <3> SUFFICES ASSUME NEW v \in live PROVE Cardinality({u \in live : u > v}) \in Nat
      OBVIOUS
    <3>1. IsFiniteSet(1..Latest) /\ live \subseteq 1..Latest
      BY FS_Interval DEF TableInv
    <3>2. {u \in live : u > v} \subseteq 1..Latest
      BY <3>1
    <3>3. QED BY <3>1, <3>2, FS_Subset, FS_CardinalityType
  <2>2. LastLive(0) = {}
    BY <2>1 DEF LastLive
  <2>3. QED BY <1>2, <2>2
<1>3. CASE rule.retain # 0
  <2>1. LastLive(rule.retain) \subseteq spared
    BY <1>1, <1>3 DEF Spared
  <2>2. QED BY <2>1 DEF LastLive, Cleaned
<1>4. QED BY <1>2, <1>3

\* run_sweep: what a sweep does to a table, some rule allows that held for the
\* table since the sweep listed the policies, for any policies, however often they
\* change while the sweep works; but for records that could not be read.
THEOREM SweepsObey == Spec => SweepObeysPolicy
<1>1. ASSUME TableInv, SweepInv, [Next]_vars, sweep' # sweep, <<log, live>>' # <<log, live>>
      PROVE  \E rule \in sweep.inforce :
                rule # Unset => /\ rule.enabled
                                /\ rule.paced => stamp # "fresh"
                                /\ LastLive(rule.retain) \subseteq live'
  <2>1. CompactFiles \/ OptimizeIndices \/ CleanUp
    <3>1. MaintenanceNext
      BY <1>1 DEF Next, vars, maintenanceVars
    <3>2. QED
      BY <1>1, <3>1
         DEF MaintenanceNext, SetTablePolicy, SetNamespacePolicy, SetProjectPolicy, DeleteTablePolicy,
             DeleteNamespacePolicy, DeleteProjectPolicy, SetPolicy, LoadPolicies, Visit, FailPass,
             Elapse, DieCompacting, Write, CompactNow, CmdCompact, EnsureVectorIndex,
             RecreateScalarIndex, CmdMaintain, RunGC, CmdTag, DeleteTag, CreateTag, UpdateTag,
             maintenanceVars, tableVars
  <2>2. PICK rule : rule = Resolved(sweep.records)
    OBVIOUS
  <2>3. sweep.at \in {"opened", "indices", "clean"}
    BY <2>1 DEF CompactFiles, OptimizeIndices, CleanUp
  <2>4. rule \in sweep.inforce /\ Allows(rule) /\ rule \in Rules \cup {Unset}
    BY <1>1, <2>2, <2>3 DEF SweepInv, Swept, Resting
  <2>5. rule # Unset => LastLive(rule.retain) \subseteq live'
    <3>1. CASE CompactFiles \/ OptimizeIndices
      <4>1. live \subseteq live'
        BY <3>1 DEF CompactFiles, OptimizeIndices, Commit, tableVars
      <4>2. QED BY <4>1 DEF LastLive
    <3>2. CASE CleanUp
      <4>1. PICK spared \in Spared(rule) : live' = Cleaned(spared)
        BY <2>2, <3>2 DEF CleanUp
      <4>2. QED BY <1>1, <2>4, <4>1, SparedHolds
    <3>3. QED BY <2>1, <3>1, <3>2
  <2>6. QED BY <2>4, <2>5 DEF Allows
<1>2. TableInv /\ SweepInv /\ [Next]_vars =>
        [sweep' # sweep /\ <<log, live>>' # <<log, live>> =>
           \E rule \in sweep.inforce :
              rule # Unset =>
                 /\ rule.enabled
                 /\ rule.paced => stamp # "fresh"
                 /\ LastLive(rule.retain) \subseteq live']_<<sweep, log, live>>
  BY <1>1
<1>3. QED BY <1>2, TableSafe, SweepSafe, PTL DEF SweepObeysPolicy, Spec

-----------------------------------------------------------------------------
(* The annotator.                                                          *)

\* What a reviewer was shown is of the version its save will name or of a later
\* one; a save that passed the check names the version its page was drawn on.
ReviewerInv(c) ==
    /\ saving[c].at = "loading" => saving[c].first \in 1..Latest
    /\ view[c] # Blank =>
          /\ view[c].version \in 1..Latest
          /\ \E v \in view[c].version..Latest : view[c].rows = RowsAt(v)
    /\ (saving[c].at \in {"checked", "read"} /\ saving[c].base # 0) =>
          saving[c].base \in 1..Latest /\ view[c].rows = RowsAt(saving[c].base)

SavesInv ==
    /\ DOMAIN view = Reviewers /\ DOMAIN saving = Reviewers
    /\ \A c \in Reviewers : ReviewerInv(c)

\* More versions change nothing for a reviewer who does nothing.
LEMMA ReviewerWaits ==
    ASSUME TableInv, Grows, SavesInv, NEW c \in Reviewers, view'[c] = view[c], saving'[c] = saving[c]
    PROVE  ReviewerInv(c)'
<1>1. Latest \in Nat /\ Len(log') \in Nat /\ Len(log') >= Latest
  BY DEF TableInv, Grows
<1>2. \A v \in 1..Latest : v \in 1..Len(log') /\ log'[v].rows = RowsAt(v)
  BY <1>1 DEF Grows, RowsAt
<1>3. ReviewerInv(c)
  BY DEF SavesInv
<1>4. saving[c].at = "loading" => saving[c].first \in 1..Len(log')
  BY <1>1, <1>3 DEF ReviewerInv
<1>5. ASSUME view[c] # Blank
      PROVE  /\ view[c].version \in 1..Len(log')
             /\ \E v \in view[c].version..Len(log') : view[c].rows = log'[v].rows
  <2>1. PICK v \in view[c].version..Latest : view[c].rows = RowsAt(v)
    BY <1>3, <1>5 DEF ReviewerInv
  <2>2. view[c].version \in 1..Latest
    BY <1>3, <1>5 DEF ReviewerInv
  <2>3. v \in view[c].version..Len(log') /\ view[c].rows = log'[v].rows
    BY <1>1, <1>2, <2>1, <2>2
  <2>4. QED BY <1>1, <2>2, <2>3
<1>6. ASSUME saving[c].at \in {"checked", "read"}, saving[c].base # 0
      PROVE  saving[c].base \in 1..Len(log') /\ view[c].rows = log'[saving[c].base].rows
  <2>1. saving[c].base \in 1..Latest /\ view[c].rows = RowsAt(saving[c].base)
    BY <1>3, <1>6 DEF ReviewerInv
  <2>2. QED BY <1>1, <1>2, <2>1
<1>7. QED BY <1>4, <1>5, <1>6 DEF ReviewerInv, RowsAt, Latest

\* A reviewer moves and the others wait.
LEMMA ReviewerMoves ==
    ASSUME TableInv, Grows, SavesInv, NEW c \in Reviewers, NEW next,
           Turn(c, next), view' = view \/ \E shown : view' = [view EXCEPT ![c] = shown],
           ReviewerInv(c)'
    PROVE  SavesInv'
<1>1. DOMAIN view' = Reviewers /\ DOMAIN saving' = Reviewers
  BY DEF SavesInv, Turn
<1>2. ASSUME NEW d \in Reviewers \ {c} PROVE ReviewerInv(d)'
  BY ReviewerWaits DEF SavesInv, Turn
<1>3. QED BY <1>1, <1>2 DEF SavesInv

\* A step of a request that is past the check, or is dropped: only the view binds.
LEMMA ReviewerPast ==
    ASSUME TableInv, Grows, SavesInv, NEW c \in Reviewers, NEW next,
           Turn(c, next), next.at \notin {"loading", "checked", "read"}, view' = view
    PROVE  SavesInv'
<1>1. saving'[c] = next
  BY DEF SavesInv, Turn
<1>2. Latest \in Nat /\ Len(log') \in Nat /\ Len(log') >= Latest
  BY DEF TableInv, Grows
<1>3. ASSUME view[c] # Blank
      PROVE  /\ view[c].version \in 1..Len(log')
             /\ \E v \in view[c].version..Len(log') : view[c].rows = log'[v].rows
  <2>1. PICK v \in view[c].version..Latest : view[c].rows = RowsAt(v)
    BY <1>3 DEF SavesInv, ReviewerInv
  <2>2. view[c].version \in 1..Latest
    BY <1>3 DEF SavesInv, ReviewerInv
  <2>3. v \in view[c].version..Len(log') /\ view[c].rows = log'[v].rows
    BY <1>2, <2>1, <2>2 DEF Grows, RowsAt
  <2>4. QED BY <1>2, <2>2, <2>3
<1>4. ReviewerInv(c)'
  BY <1>1, <1>3 DEF ReviewerInv, RowsAt, Latest
<1>5. QED BY <1>4, ReviewerMoves

LEMMA LoadSteps ==
    ASSUME TableInv, SavesInv, NEW c \in Reviewers, LoadVersion(c) \/ LoadRows(c)
    PROVE  SavesInv'
<1>1. Grows /\ UNCHANGED log /\ Latest \in Nat \ {0}
  BY Uncommitted DEF LoadVersion, LoadRows, tableVars, TableInv
<1>2. CASE LoadVersion(c)
  <2>1. saving'[c] = [at |-> "loading", first |-> Latest] /\ view' = view
    BY <1>2 DEF LoadVersion, Turn, SavesInv
  <2>2. ReviewerInv(c)'
    BY <1>1, <2>1 DEF SavesInv, ReviewerInv, RowsAt, Latest
  <2>3. QED BY <1>1, <1>2, <2>2, ReviewerMoves DEF LoadVersion
<1>3. CASE LoadRows(c)
  <2>1. PICK shown : shown = Served(saving[c].first, IF mode = "direct" THEN saving[c].first ELSE Latest)
    OBVIOUS
  <2>2. view' = [view EXCEPT ![c] = shown] /\ saving' = [saving EXCEPT ![c] = Still]
    BY <1>3, <2>1 DEF LoadRows, Turn
  <2>3. saving[c].first \in 1..Latest
    BY <1>3 DEF LoadRows, Stage, SavesInv, ReviewerInv
  <2>4. shown.version \in 1..Latest /\ \E v \in shown.version..Latest : shown.rows = RowsAt(v)
    BY <1>1, <2>1, <2>3 DEF Served
  <2>5. view'[c] = shown /\ saving'[c] = Still
    BY <2>2 DEF SavesInv
  <2>6. ReviewerInv(c)'
    BY <1>1, <2>4, <2>5 DEF ReviewerInv, RowsAt, Latest, Still
  <2>7. QED BY <1>1, <1>3, <2>2, <2>6, ReviewerMoves DEF LoadRows
<1>4. QED BY <1>2, <1>3

\* A base that passes the check is the latest version, so that what was shown of
\* that version or of a later one is of that version.
LEMMA SaveStep ==
    ASSUME TableInv, SavesInv, NEW c \in Reviewers, SaveAnnotations(c)
    PROVE  SavesInv'
<1>1. PICK base, next :
         /\ base \in {0, view[c].version}
         /\ view[c] # Blank /\ next.at = "checked" /\ next.base = base
         /\ IF base \in {0, Latest} THEN Turn(c, next) ELSE Turn(c, Still)
         /\ UNCHANGED <<tableVars, view>>
  BY DEF SaveAnnotations, CheckBaseVersion
<1>2. Grows /\ UNCHANGED log /\ Latest \in Nat \ {0}
  BY <1>1, Uncommitted DEF tableVars, TableInv
<1>3. CASE base \notin {0, Latest}
  BY <1>1, <1>2, <1>3, ReviewerPast DEF Still
<1>4. CASE base \in {0, Latest}
  <2>1. saving'[c] = next
    BY <1>1, <1>4 DEF SavesInv, Turn
  <2>2. /\ view[c].version \in 1..Latest
        /\ \E v \in view[c].version..Latest : view[c].rows = RowsAt(v)
    BY <1>1 DEF SavesInv, ReviewerInv
  <2>3. base # 0 => base \in 1..Latest /\ view[c].rows = RowsAt(base)
    BY <1>1, <1>2, <1>4, <2>2
  <2>4. ReviewerInv(c)'
    BY <1>1, <1>2, <2>1, <2>2, <2>3 DEF ReviewerInv, RowsAt, Latest
  <2>5. QED BY <1>1, <1>2, <1>4, <2>4, ReviewerMoves
<1>5. QED BY <1>3, <1>4

LEMMA ReadStep ==
    ASSUME TableInv, SavesInv, NEW c \in Reviewers, ReadCurrent(c)
    PROVE  SavesInv'
<1>1. PICK next : /\ Turn(c, next) /\ next.at = "read" /\ next.base = saving[c].base
                  /\ saving[c].at = "checked" /\ UNCHANGED <<tableVars, view>>
  BY DEF ReadCurrent, Stage
<1>2. Grows /\ UNCHANGED log
  BY <1>1, Uncommitted DEF tableVars
<1>3. saving'[c] = next
  BY <1>1 DEF SavesInv, Turn
<1>4. ReviewerInv(c)'
  BY <1>1, <1>2, <1>3 DEF SavesInv, ReviewerInv, RowsAt, Latest
<1>5. QED BY <1>1, <1>2, <1>4, ReviewerMoves

LEMMA SavesStep == ASSUME TableInv, SavesInv, SavesNext, Grows PROVE SavesInv'
<1>1. ASSUME NEW c \in Reviewers, MergeUpsert(c) PROVE SavesInv'
  BY <1>1, ReviewerPast DEF MergeUpsert
<1>2. ASSUME NEW c \in Reviewers, DeleteByIds(c) PROVE SavesInv'
  BY <1>2, ReviewerPast DEF DeleteByIds
<1>3. ASSUME NEW c \in Reviewers, MergeInsertOnly(c) PROVE SavesInv'
  BY <1>3, ReviewerPast DEF MergeInsertOnly
<1>4. ASSUME NEW c \in Reviewers, FailSave(c) PROVE SavesInv'
  BY <1>4, ReviewerPast DEF FailSave, Still
<1>5. ASSUME NEW c \in Reviewers, ApplyTags(c) PROVE SavesInv'
  <2>1. PICK next : /\ Turn(c, next) /\ next.at \in {"tagging", "idle"} /\ view' = view
    BY <1>5 DEF ApplyTags, CheckBaseVersion, Still
  <2>2. QED BY <1>5, <2>1, ReviewerPast
<1>6. ASSUME NEW c \in Reviewers, FinalizeCommit(c) PROVE SavesInv'
  <2>1. view'[c] = Blank /\ saving'[c] = Still
    BY <1>6 DEF FinalizeCommit, Turn, SavesInv
  <2>2. ReviewerInv(c)'
    BY <2>1 DEF ReviewerInv, Still, Blank
  <2>3. QED BY <1>6, <2>2, ReviewerMoves DEF FinalizeCommit
<1>7. ASSUME UNCHANGED saveVars PROVE SavesInv'
  BY <1>7, ReviewerWaits DEF SavesInv, saveVars
<1>8. QED
  BY <1>1, <1>2, <1>3, <1>4, <1>5, <1>6, <1>7, LoadSteps, SaveStep, ReadStep
     DEF SavesNext, RetryMerge, Derive

LEMMA SavesSafe == Spec => []SavesInv
<1>1. Init => SavesInv
  BY DEF Init, SavesInit, SavesInv, ReviewerInv, Still
<1>2. TableInv /\ SavesInv /\ [Next]_vars => SavesInv'
  <2> SUFFICES ASSUME TableInv, SavesInv, [Next]_vars PROVE SavesInv'
    OBVIOUS
  <2>1. Grows
    BY Growing
  <2>2. CASE SavesNext
    BY <2>1, <2>2, SavesStep
  <2>3. CASE UNCHANGED saveVars
    BY <2>1, <2>3, ReviewerWaits DEF SavesInv, saveVars
  <2>4. QED BY <2>2, <2>3 DEF Next, vars
<1>3. QED BY <1>1, <1>2, TableSafe, PTL DEF Spec

\* The check against the base version: a save that passes it was drawn on the rows
\* of that version, for any numbers of reviewers, fields and versions.
THEOREM SavesAreDrawnOnTheirBase == Spec => []DrawnOnItsBase
<1>1. SavesInv => DrawnOnItsBase
  BY DEF SavesInv, ReviewerInv, DrawnOnItsBase
<1>2. QED BY <1>1, SavesSafe, PTL

=============================================================================
