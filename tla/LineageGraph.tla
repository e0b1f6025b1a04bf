----------------------------- MODULE LineageGraph -----------------------------
(***************************************************************************)
(* What the lineage graph believes about one catalog table.                *)
(*                                                                         *)
(* The catalog commits an operation to the table, reads the version and    *)
(* schema back, and emits a best-effort event stamped with the time of the *)
(* emit.  The lineage service ingests the retained events in any order and *)
(* any number of times.  From the recorded runs it derives, at read time,  *)
(* the version it believes current and whether the table was dropped; it   *)
(* keeps the table's current columns behind a recency gate.  The reconcile *)
(* sweep compares the graph with the table on storage and back-fills the   *)
(* writes whose event was lost.                                            *)
(***************************************************************************)
EXTENDS Naturals, Sequences, FiniteSets

CONSTANTS
    Columns,      \* column names
    EdgeColumns,  \* columns whose writers declare column lineage
    PinModes,     \* {TRUE}: the response names the version; FALSE: current snapshot
    MaxOps,       \* bound: operations on the table
    MaxInFlight,  \* bound: operations committed and not yet emitted
    Registers,    \* whether an existing dataset may be attached
    Drops,        \* whether the table may be dropped
    Lossy,        \* whether a read-back may fail and an emit may be lost
    Sweeps        \* whether the reconcile sweep runs

ASSUME ColumnAssumption == EdgeColumns \subseteq Columns
ASSUME PinAssumption == PinModes \subseteq BOOLEAN /\ PinModes # {}
ASSUME BoundAssumption == MaxOps \in Nat /\ MaxInFlight \in Nat \ {0}
ASSUME SwitchAssumption == {Registers, Drops, Lossy, Sweeps} \subseteq BOOLEAN

VARIABLES
    table,      \* the versions on storage, each with its writer and columns; <<>> if absent
    ops,        \* operations so far
    clock,      \* emits and back-fills so far: event times are distinct
    flight,     \* operations committed and not yet emitted
    topic,      \* emitted events, which the broker retains
    seen,       \* history: events the graph was given at least once
    runs,       \* the graph's runs with the version on their WROTE edge (0: none)
    source,     \* whether the dataset vertex has a source_uri
    inventory,  \* columns linked by HAS_COLUMN
    sweep       \* the sweep's step, and the versions it has read

storageVars == <<table, ops, flight>>
graphVars == <<seen, runs, source, inventory>>
vars == <<table, ops, clock, flight, topic, seen, runs, source, inventory, sweep>>

NoSweep == [at |-> "idle", graph |-> 0, storage |-> 0]

Init ==
    /\ table = <<>> /\ ops = 0 /\ clock = 0
    /\ flight = {} /\ topic = {}
    /\ seen = {} /\ runs = {} /\ source = FALSE /\ inventory = {}
    /\ sweep = NoSweep

-----------------------------------------------------------------------------
(* The catalog.                                                            *)

CanStart == ops < MaxOps /\ Cardinality(flight) < MaxInFlight

\* The operation enters flight; `pin` is the version its response names, and
\* `columns` the schema the request itself carries.
Begin(op, pin, columns) ==
    /\ ops' = ops + 1
    /\ flight' = flight \cup
          {[id |-> ops + 1, op |-> op, at |-> "committed", version |-> pin,
            columns |-> columns]}

\* A write to an absent table creates it, and its response names the version.
Write(columns, pinned) ==
    /\ CanStart
    /\ table' = Append(table, [by |-> ops + 1, columns |-> columns])
    /\ IF table = <<>>
       THEN Begin("create", 1, columns)
       ELSE Begin("write", IF pinned THEN Len(table) + 1 ELSE 0, {})
    /\ UNCHANGED <<clock, topic, graphVars, sweep>>

\* Attaching a dataset that already holds data; its location is not opened.
Register(columns) ==
    /\ Registers /\ CanStart
    /\ table = <<>>
    /\ table' = <<[by |-> ops + 1, columns |-> columns]>>
    /\ Begin("register", 0, {})
    /\ UNCHANGED <<clock, topic, graphVars, sweep>>

Drop ==
    /\ Drops /\ CanStart
    /\ table # <<>>
    /\ table' = <<>>
    /\ Begin("drop", 0, {})
    /\ UNCHANGED <<clock, topic, graphVars, sweep>>

\* A write's version and schema come from one open of the dataset, at the pinned
\* version or at the current one; an open that fails leaves the pinned version
\* and no schema.  Nothing else opens the dataset.
ReadBack(o, opens) ==
    LET version == IF o.version # 0 THEN o.version ELSE Len(table)
    IN  IF o.op = "write" /\ opens /\ version \in 1..Len(table)
        THEN [o EXCEPT !.at = "measured", !.version = version,
                       !.columns = table[version].columns]
        ELSE [o EXCEPT !.at = "measured"]

Measure(o) ==
    /\ o \in flight /\ o.at = "committed"
    /\ \E opens \in {TRUE, ~Lossy} : flight' = (flight \ {o}) \cup {ReadBack(o, opens)}
    /\ UNCHANGED <<table, ops, clock, topic, graphVars, sweep>>

Event(o, time) ==
    [id |-> o.id, op |-> o.op, version |-> o.version, columns |-> o.columns, time |-> time]

\* The emit is stamped and sent once; without an outbox a failed send is final.
Emit(o) ==
    /\ o \in flight /\ o.at = "measured"
    /\ flight' = flight \ {o}
    /\ clock' = clock + 1
    /\ topic' = topic \cup {Event(o, clock + 1)}
    /\ UNCHANGED <<table, ops, graphVars, sweep>>

\* The send fails, or the catalog dies between the commit and the send.
Lose(o) ==
    /\ Lossy
    /\ o \in flight
    /\ flight' = flight \ {o}
    /\ UNCHANGED <<table, ops, clock, topic, graphVars, sweep>>

-----------------------------------------------------------------------------
(* The graph's derived views.                                              *)

Newest(recorded) == CHOOSE r \in recorded : \A s \in recorded : s.time <= r.time

\* latest_write_version: the version on the newest run that has one.
LatestOf(recorded) ==
    LET versioned == {r \in recorded : r.version # 0}
    IN  IF versioned = {} THEN 0 ELSE Newest(versioned).version
Latest == LatestOf(runs)

\* MUTANT of Dropped: a back-filled run counts as a successful write.
DroppedByAnyRun == runs # {} /\ Newest(runs).op = "drop"

\* dropped_at: the newest successful run is a drop.
Dropped ==
    LET complete == {r \in runs : r.state = "COMPLETE"}
    IN  complete # {} /\ Newest(complete).op = "drop"

WithoutId(recorded, id) == {r \in recorded : r.id # id}

\* MUTANT of RunOf: a redelivery moves the run's event time to its arrival.
RunAtArrival(e) ==
    [id |-> <<"op", e.id>>, state |-> "COMPLETE", op |-> e.op, version |-> e.version,
     time |-> clock + Cardinality(seen)]
RunOf(e) ==
    [id |-> <<"op", e.id>>, state |-> "COMPLETE", op |-> e.op, version |-> e.version,
     time |-> e.time]

\* MUTANT of Seeded: the gate protects the prune and not the seeding.
SeededUngated(e, latest) ==
    IF e.version = 0 \/ e.version < latest THEN inventory \cup e.columns ELSE e.columns

\* The recency gate, on the graph that already holds the run: an event without
\* a version only adds, an event at least as new as the latest replaces the
\* inventory, any other leaves it alone.
Seeded(e, latest) ==
    IF e.columns = {} THEN inventory
    ELSE IF e.version = 0 THEN inventory \cup e.columns
    ELSE IF e.version >= latest THEN e.columns
    ELSE inventory

\* One transaction: the run, its WROTE version, the source_uri and the columns;
\* the columns of declared column edges are linked whatever the gate says.
Deliver(e) ==
    /\ e \in topic
    /\ seen' = seen \cup {e}
    /\ runs' = WithoutId(runs, <<"op", e.id>>) \cup {RunOf(e)}
    /\ source' = (source \/ e.op \in {"create", "register"})
    /\ inventory' = Seeded(e, LatestOf(runs')) \cup (e.columns \cap EdgeColumns)
    /\ UNCHANGED <<storageVars, clock, topic, sweep>>

-----------------------------------------------------------------------------
(* The reconcile sweep over this dataset.                                  *)

SweepStart ==
    /\ Sweeps /\ sweep.at = "idle"
    /\ source /\ ~Dropped
    /\ sweep' = [at |-> "read", graph |-> Latest, storage |-> 0]
    /\ UNCHANGED <<storageVars, clock, topic, graphVars>>

\* MUTANT of Backfillable: a dataset the graph has no version of is left alone.
BackfillableAheadOnly(graph, storage) == graph # 0 /\ storage > graph

\* STORAGE_AHEAD or UNTRACKED.
Backfillable(graph, storage) == storage > graph

SweepRead ==
    /\ sweep.at = "read"
    /\ sweep' = IF Backfillable(sweep.graph, Len(table))
                THEN [sweep EXCEPT !.at = "stamp", !.storage = Len(table)]
                ELSE NoSweep
    /\ UNCHANGED <<storageVars, clock, topic, graphVars>>

\* The synthetic run is named after the version and stamped with the present time.
SweepStamp ==
    /\ sweep.at = "stamp"
    /\ clock' = clock + 1
    /\ runs' = WithoutId(runs, <<"reconcile", sweep.storage>>) \cup
          {[id |-> <<"reconcile", sweep.storage>>, state |-> "RECONCILED", op |-> "none",
            version |-> sweep.storage, time |-> clock + 1]}
    /\ sweep' = NoSweep
    /\ UNCHANGED <<storageVars, topic, seen, source, inventory>>

Sweep == SweepStart \/ SweepRead \/ SweepStamp

-----------------------------------------------------------------------------
Catalog ==
    \/ \E columns \in (SUBSET Columns) \ {{}} :
          Register(columns) \/ \E pinned \in PinModes : Write(columns, pinned)
    \/ Drop
    \/ \E o \in flight : Measure(o) \/ Emit(o) \/ Lose(o)

Next == Catalog \/ (\E e \in topic : Deliver(e)) \/ Sweep

Spec == Init /\ [][Next]_vars

\* An operation in flight is emitted or lost; the cron keeps ticking.
FairSpec ==
    /\ Spec
    /\ WF_vars(\E o \in flight : Measure(o) \/ Emit(o) \/ Lose(o))
    /\ WF_vars(Sweep)

-----------------------------------------------------------------------------
OpKinds == {"create", "register", "write", "drop"}

\* Every variable keeps its type, and no two runs or events share a time.
TypeOK ==
    /\ table \in Seq([by : 1..MaxOps, columns : SUBSET Columns])
    /\ ops \in 0..MaxOps /\ clock \in Nat
    /\ \A o \in flight : o.id \in 1..ops /\ o.op \in OpKinds /\ o.version \in 0..MaxOps
    /\ seen \subseteq topic
    /\ \A e \in topic : e.id \in 1..ops /\ e.op \in OpKinds /\ e.time \in 1..clock
    /\ \A e, f \in topic : e.time = f.time => e = f
    /\ \A r, s \in runs : r.time = s.time \/ r.id = s.id => r = s
    /\ inventory \subseteq Columns /\ source \in BOOLEAN
    /\ sweep.at \in {"idle", "read", "stamp"} /\ {sweep.graph, sweep.storage} \subseteq Nat

AllDelivered == flight = {} /\ topic = seen

\* The last operation on the table was reported, and reported last.
LastEvent(e) == e \in topic /\ e.id = ops /\ \A f \in topic : f.time <= e.time

NoBackfillSince(e) == \A r \in runs : r.state = "RECONCILED" => r.time <= e.time

NewestInGraph(e) == e \in seen /\ \A r \in runs : r.time <= e.time

\* Once every event arrived, in whatever order and however often, the graph
\* says dropped exactly when the table is gone, provided that the last operation
\* was reported last: a redelivered drop cannot hide a recreated table from the
\* sweep, a back-fill cannot revive a dropped one, and neither earlier operations
\* that overtook each other nor their lost events matter.
DroppedIsTruth ==
    AllDelivered => \A e \in topic : LastEvent(e) => (Dropped <=> table = <<>>)

\* Likewise the version the graph believes current is the one on storage, if the
\* last report named one and no back-fill was stamped since: over drops, whose
\* tables start again from version 1, lost events and reports out of order.
LatestIsTruth ==
    AllDelivered =>
        \A e \in topic :
            LastEvent(e) /\ e.version # 0 /\ NoBackfillSince(e) => Latest = Len(table)

\* As long as nothing was dropped, once the graph's newest run is the write that
\* made the version on storage, the linked columns are that version's, and stay
\* so whatever older event arrives late or again, but for columns that column
\* lineage links: those come back.
InventoryConverges ==
    ops = Len(table) =>
        \A e \in seen :
            NewestInGraph(e) /\ e.version = Len(table) /\ e.columns # {} =>
                LET current == table[Len(table)].columns
                IN  current \subseteq inventory /\ inventory \ current \subseteq EdgeColumns

\* The sweep repairs lost events: a dataset the sweep knows ends with the graph
\* at the version on storage.
SweepConverges == <>[](source /\ table # <<>> => Latest = Len(table))

=============================================================================
