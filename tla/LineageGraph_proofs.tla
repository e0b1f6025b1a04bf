-------------------------- MODULE LineageGraph_proofs --------------------------
(***************************************************************************)
(* What the lineage graph's views promise, proved for any number of        *)
(* operations, columns and deliveries in any order.                        *)
(***************************************************************************)
EXTENDS LineageGraph, FiniteSetTheorems, TLAPS

-----------------------------------------------------------------------------
(* Types.                                                                  *)

Versions == [by : 1..MaxOps, columns : SUBSET Columns]
Operations(n) ==
    [id : 1..n, op : OpKinds, at : {"committed", "measured"}, version : 0..MaxOps,
     columns : SUBSET Columns]
Events(n, t) ==
    [id : 1..n, op : OpKinds, version : 0..MaxOps, columns : SUBSET Columns, time : 1..t]

StorageInv ==
    /\ table \in Seq(Versions) /\ Len(table) <= ops
    /\ ops \in 0..MaxOps /\ clock \in Nat

\* An operation is in flight or in the topic, once.
TopicInv ==
    /\ flight \subseteq Operations(ops)
    /\ topic \subseteq Events(ops, clock)
    /\ \A o, p \in flight : o.id = p.id => o = p
    /\ \A e, f \in topic : e.id = f.id \/ e.time = f.time => e = f
    /\ \A o \in flight, e \in topic : o.id # e.id
    /\ seen \subseteq topic

Backfill(r) ==
    /\ r.id \in {<<"reconcile", v>> : v \in Nat}
    /\ r.state = "RECONCILED" /\ r.version \in Nat
    /\ r.time \in 1..clock /\ \A e \in topic : e.time # r.time

\* The runs are those of the events seen and the back-fills, each at a time of
\* its own; among those with a version one is the newest.
RunsInv ==
    /\ \A e \in seen : RunOf(e) \in runs
    /\ \A r \in runs : Backfill(r) \/ \E e \in seen : r = RunOf(e)
    /\ \A r, s \in runs : r.time = s.time \/ r.id = s.id => r = s
    /\ (\E r \in runs : r.version # 0) =>
          \E r \in runs : r.version # 0 /\ \A s \in runs : s.version # 0 => s.time <= r.time

ViewsInv ==
    /\ inventory \subseteq Columns /\ source \in BOOLEAN
    /\ sweep \in [at : {"idle", "read", "stamp"}, graph : Nat, storage : Nat]
    /\ sweep.at = "stamp" => sweep.storage > 0

GraphInv == StorageInv /\ TopicInv /\ RunsInv /\ ViewsInv

\* The newest run of a set whose runs are at different times.
LEMMA NewestIs ==
    ASSUME NEW S, NEW r \in S, \A s \in S : s.time \in Nat /\ s.time <= r.time,
           \A s \in S : s.time = r.time => s = r
    PROVE  Newest(S) = r
<1>1. \A s \in S : Newest(S) \in S /\ s.time <= Newest(S).time
  BY DEF Newest
<1>2. Newest(S).time = r.time
  BY <1>1
<1>3. QED BY <1>1, <1>2

\* Every run has a version and a time.
LEMMA RunTypes ==
    ASSUME StorageInv, TopicInv, RunsInv, NEW r \in runs
    PROVE  r.version \in Nat /\ r.time \in 1..clock
<1>1. CASE Backfill(r)
  BY <1>1 DEF Backfill
<1>2. ASSUME NEW e \in seen, r = RunOf(e) PROVE r.version \in Nat /\ r.time \in 1..clock
  <2>1. e \in Events(ops, clock)
    BY DEF TopicInv
  <2>2. e.version \in 0..MaxOps /\ e.time \in 1..clock
    BY <2>1 DEF Events
  <2>3. QED BY <1>2, <2>2, BoundAssumption DEF RunOf
<1>3. QED BY <1>1, <1>2 DEF RunsInv

LEMMA LatestType ==
    ASSUME StorageInv, TopicInv, RunsInv
    PROVE  Latest \in Nat
<1> DEFINE versioned == {r \in runs : r.version # 0}
<1>1. CASE versioned = {}
  BY <1>1 DEF Latest, LatestOf
<1>2. CASE versioned # {}
  <2>1. PICK r \in runs : r.version # 0 /\ \A s \in runs : s.version # 0 => s.time <= r.time
    BY <1>2 DEF RunsInv
  <2>2. \A s \in versioned : s.time \in Nat /\ s.time <= r.time
    BY <2>1, RunTypes
  <2>3. \A s \in versioned : s.time = r.time => s = r
    BY DEF RunsInv
  <2>4. r \in versioned
    BY <2>1
  <2> HIDE DEF versioned
  <2>5. Newest(versioned) = r
    BY <2>2, <2>3, <2>4, NewestIs
  <2>6. QED BY <1>2, <2>5, RunTypes DEF versioned, Latest, LatestOf
<1>3. QED BY <1>1, <1>2

-----------------------------------------------------------------------------
(* The catalog's steps.                                                    *)

\* A new operation in flight.
LEMMA BeginStep ==
    ASSUME GraphInv, CanStart, NEW op \in OpKinds, NEW pin \in 0..MaxOps,
           NEW columns \in SUBSET Columns, Begin(op, pin, columns),
           table' \in Seq(Versions), Len(table') <= ops + 1,
           UNCHANGED <<clock, topic, graphVars, sweep>>
    PROVE  GraphInv'
<1> DEFINE new == [id |-> ops + 1, op |-> op, at |-> "committed", version |-> pin,
                   columns |-> columns]
<1>1. ops' = ops + 1 /\ flight' = flight \cup {new} /\ ops \in Nat /\ ops + 1 \in 1..MaxOps
  BY BoundAssumption DEF Begin, CanStart, GraphInv, StorageInv
<1>2. StorageInv'
  BY <1>1 DEF GraphInv, StorageInv
<1>3. TopicInv'
  <2>1. new \in Operations(ops')
    BY <1>1 DEF Operations
  <2>2. \A o \in flight : o \in Operations(ops') /\ o.id \in 1..ops
    BY <1>1 DEF Operations, GraphInv, TopicInv
  <2>3. \A e \in topic : e \in Events(ops', clock) /\ e.id \in 1..ops
    BY <1>1 DEF Events, GraphInv, TopicInv
  <2>4. new.id = ops + 1
    OBVIOUS
  <2> HIDE DEF new
  <2>5. \A n \in 1..ops : n # ops + 1
    BY <1>1
  <2>6. QED BY <1>1, <2>1, <2>2, <2>3, <2>4, <2>5 DEF GraphInv, TopicInv, graphVars
<1>4. RunsInv' /\ ViewsInv'
  BY DEF GraphInv, RunsInv, ViewsInv, Backfill, RunOf, graphVars
<1>5. QED BY <1>2, <1>3, <1>4 DEF GraphInv

\* A commit adds a version.
LEMMA CommitType ==
    ASSUME StorageInv, CanStart, NEW columns \in SUBSET Columns
    PROVE  LET longer == Append(table, [by |-> ops + 1, columns |-> columns])
           IN  longer \in Seq(Versions) /\ Len(longer) = Len(table) + 1
<1>1. [by |-> ops + 1, columns |-> columns] \in Versions
  BY BoundAssumption DEF StorageInv, CanStart, Versions
<1>2. QED BY <1>1 DEF StorageInv

LEMMA CatalogStep == ASSUME GraphInv, Catalog PROVE GraphInv'
<1> DEFINE longer(columns) == Append(table, [by |-> ops + 1, columns |-> columns])
<1>1. ASSUME NEW columns \in (SUBSET Columns) \ {{}}, Register(columns) PROVE GraphInv'
  <2>1. longer(columns) \in Seq(Versions) /\ Len(longer(columns)) = Len(table) + 1
    BY <1>1, CommitType DEF Register, GraphInv
  <2>2. table' = longer(columns)
    BY <1>1 DEF Register
  <2>3. Len(table') <= ops + 1
    BY <2>1, <2>2 DEF GraphInv, StorageInv
  <2>4. {} \in SUBSET Columns /\ 0 \in 0..MaxOps /\ "register" \in OpKinds
    BY BoundAssumption DEF OpKinds
  <2> HIDE DEF longer
  <2>5. QED BY <1>1, <2>1, <2>2, <2>3, <2>4, BeginStep DEF Register
<1>2. ASSUME NEW columns \in (SUBSET Columns) \ {{}}, NEW pinned \in PinModes, Write(columns, pinned)
      PROVE  GraphInv'
  <2>1. longer(columns) \in Seq(Versions) /\ Len(longer(columns)) = Len(table) + 1
    BY <1>2, CommitType DEF Write, GraphInv
  <2>2. table' = longer(columns) /\ UNCHANGED <<clock, topic, graphVars, sweep>> /\ CanStart
    BY <1>2 DEF Write
  <2>3. Len(table) \in Nat /\ Len(table) <= ops /\ ops < MaxOps /\ ops \in Nat /\ MaxOps \in Nat
    BY <2>2, BoundAssumption DEF GraphInv, StorageInv, CanStart
  <2>4. Len(table') <= ops + 1 /\ table' \in Seq(Versions)
    BY <2>1, <2>2, <2>3
  <2> DEFINE pin == IF pinned THEN Len(table) + 1 ELSE 0
  <2>5. 1 \in 0..MaxOps /\ pin \in 0..MaxOps /\ {"create", "write"} \subseteq OpKinds
    BY <2>3 DEF OpKinds
  <2>6. Begin("create", 1, columns) \/ Begin("write", pin, {})
    BY <1>2 DEF Write
  <2> HIDE DEF longer, pin
  <2>7. QED BY <2>2, <2>4, <2>5, <2>6, BeginStep
<1>3. CASE Drop
  <2>1. table' = <<>> /\ Begin("drop", 0, {}) /\ UNCHANGED <<clock, topic, graphVars, sweep>>
        /\ CanStart
    BY <1>3 DEF Drop
  <2>2. table' \in Seq(Versions) /\ Len(table') <= ops + 1
    BY <2>1 DEF GraphInv, StorageInv
  <2>3. {} \in SUBSET Columns /\ 0 \in 0..MaxOps /\ "drop" \in OpKinds
    BY BoundAssumption DEF OpKinds
  <2>4. QED BY <2>1, <2>2, <2>3, BeginStep
<1>4. ASSUME NEW o \in flight, Measure(o) PROVE GraphInv'
  <2>1. PICK opens \in {TRUE, ~Lossy} : flight' = (flight \ {o}) \cup {ReadBack(o, opens)}
    BY <1>4 DEF Measure
  <2>2. UNCHANGED <<table, ops, clock, topic, graphVars, sweep>>
    BY <1>4 DEF Measure
  <2>3. o \in Operations(ops)
    BY DEF GraphInv, TopicInv
  <2>4. ReadBack(o, opens) \in Operations(ops) /\ ReadBack(o, opens).id = o.id
    <3> DEFINE version == IF o.version # 0 THEN o.version ELSE Len(table)
    <3>1. CASE o.op = "write" /\ opens /\ version \in 1..Len(table)
      <4>1. /\ version \in 0..MaxOps /\ table[version].columns \in SUBSET Columns
        <5>1. version \in DOMAIN table /\ table[version] \in Versions
          BY <3>1 DEF GraphInv, StorageInv
        <5>2. Len(table) \in Nat /\ Len(table) <= ops /\ ops \in 0..MaxOps
          BY DEF GraphInv, StorageInv
        <5> HIDE DEF version
        <5>3. QED BY <3>1, <5>1, <5>2, BoundAssumption DEF Versions
      <4>2. ReadBack(o, opens) = [o EXCEPT !.at = "measured", !.version = version,
                                           !.columns = table[version].columns]
        BY <3>1 DEF ReadBack
      <4> HIDE DEF version
      <4>3. QED BY <2>3, <4>1, <4>2 DEF Operations
    <3>2. CASE ~(o.op = "write" /\ opens /\ version \in 1..Len(table))
      <4>1. ReadBack(o, opens) = [o EXCEPT !.at = "measured"]
        BY <3>2 DEF ReadBack
      <4>2. QED BY <2>3, <4>1 DEF Operations
    <3>3. QED BY <3>1, <3>2
  <2>5. TopicInv'
    BY <2>1, <2>2, <2>4 DEF GraphInv, TopicInv, graphVars
  <2>6. QED BY <2>2, <2>5 DEF GraphInv, StorageInv, RunsInv, ViewsInv, Backfill, RunOf, graphVars
<1>5. ASSUME NEW o \in flight, Emit(o) PROVE GraphInv'
  <2> DEFINE new == Event(o, clock + 1)
  <2>1. /\ flight' = flight \ {o} /\ clock' = clock + 1 /\ topic' = topic \cup {new}
        /\ UNCHANGED <<table, ops, graphVars, sweep>>
    BY <1>5 DEF Emit
  <2>2. clock \in Nat /\ o \in Operations(ops)
    BY DEF GraphInv, StorageInv, TopicInv
  <2>3. new \in Events(ops, clock + 1) /\ new.id = o.id /\ new.time = clock + 1
    BY <2>2 DEF Event, Events, Operations
  <2> HIDE DEF new
  <2>4. \A e \in topic : e \in Events(ops, clock + 1) /\ e.time # clock + 1
    BY <2>2 DEF GraphInv, TopicInv, Events
  <2>5. TopicInv'
    BY <2>1, <2>2, <2>3, <2>4 DEF GraphInv, TopicInv, graphVars
  <2>6. \A r \in runs : Backfill(r) => Backfill(r)'
    BY <2>1, <2>2, <2>3 DEF Backfill
  <2>7. RunsInv'
    BY <2>1, <2>6 DEF GraphInv, RunsInv, RunOf, graphVars
  <2>8. StorageInv' /\ ViewsInv'
    BY <2>1, <2>2 DEF GraphInv, StorageInv, ViewsInv, graphVars
  <2>9. QED BY <2>5, <2>7, <2>8 DEF GraphInv
<1>6. ASSUME NEW o \in flight, Lose(o) PROVE GraphInv'
  BY <1>6 DEF Lose, GraphInv, StorageInv, TopicInv, RunsInv, ViewsInv, Backfill, RunOf, graphVars
<1>7. QED BY <1>1, <1>2, <1>3, <1>4, <1>5, <1>6 DEF Catalog

-----------------------------------------------------------------------------
(* The graph's and the sweep's steps.                                      *)

\* A delivery adds the event's run, or finds it there as it is.
LEMMA DeliverAdds ==
    ASSUME GraphInv, NEW e \in topic, Deliver(e)
    PROVE  runs' = runs \cup {RunOf(e)}
<1>1. runs' = WithoutId(runs, <<"op", e.id>>) \cup {RunOf(e)}
  BY DEF Deliver
<1>2. ASSUME NEW r \in runs, r.id = <<"op", e.id>> PROVE r = RunOf(e)
  <2>1. ~Backfill(r)
    BY <1>2 DEF Backfill
  <2>2. PICK f \in seen : r = RunOf(f)
    BY <2>1 DEF GraphInv, RunsInv
  <2>3. f.id = e.id
    BY <1>2, <2>2 DEF RunOf
  <2>4. QED BY <2>2, <2>3 DEF GraphInv, TopicInv
<1>3. QED BY <1>1, <1>2 DEF WithoutId

\* One more run, at a time no other run has, among runs of which one is the newest.
LEMMA NewestExists ==
    ASSUME NEW more, NEW new, more = runs \cup {new}, new.time \in Nat,
           \A r \in runs : r.time \in Nat,
           (\E r \in runs : r.version # 0) =>
              \E r \in runs : r.version # 0 /\ \A s \in runs : s.version # 0 => s.time <= r.time
    PROVE  (\E r \in more : r.version # 0) =>
              \E r \in more : r.version # 0 /\ \A s \in more : s.version # 0 => s.time <= r.time
<1>1. CASE \E r \in runs : r.version # 0
  <2>1. PICK r \in runs : r.version # 0 /\ \A s \in runs : s.version # 0 => s.time <= r.time
    BY <1>1
  <2>2. CASE new.version # 0 /\ new.time > r.time
    BY <2>1, <2>2
  <2>3. CASE ~(new.version # 0 /\ new.time > r.time)
    BY <2>1, <2>3
  <2>4. QED BY <2>2, <2>3
<1>2. CASE ~\E r \in runs : r.version # 0
  BY <1>2
<1>3. QED BY <1>1, <1>2

LEMMA DeliverStep == ASSUME GraphInv, NEW e \in topic, Deliver(e) PROVE GraphInv'
<1>1. /\ runs' = runs \cup {RunOf(e)} /\ seen' = seen \cup {e}
      /\ UNCHANGED <<table, ops, flight, clock, topic, sweep>>
  BY DeliverAdds DEF Deliver, storageVars
<1>2. e \in Events(ops, clock)
  BY DEF GraphInv, TopicInv
<1>3. StorageInv' /\ TopicInv'
  BY <1>1 DEF GraphInv, StorageInv, TopicInv
<1>4. RunsInv'
  <2>1. \A f \in seen' : RunOf(f)' = RunOf(f)
    BY DEF RunOf
  <2>2. \A r \in runs : Backfill(r) => Backfill(r)'
    BY <1>1 DEF Backfill
  <2>3. \A f \in seen' : RunOf(f) \in runs'
    BY <1>1 DEF GraphInv, RunsInv
  <2>4. \A r \in runs' : Backfill(r)' \/ \E f \in seen' : r = RunOf(f)
    BY <1>1, <2>2 DEF GraphInv, RunsInv
  <2>5. ASSUME NEW r \in runs, r.time = RunOf(e).time \/ r.id = RunOf(e).id
        PROVE  r = RunOf(e)
    <3>1. RunOf(e).time = e.time /\ RunOf(e).id = <<"op", e.id>>
      BY DEF RunOf
    <3>2. ~Backfill(r)
      BY <2>5, <3>1 DEF Backfill
    <3>3. PICK f \in seen : r = RunOf(f)
      BY <3>2 DEF GraphInv, RunsInv
    <3>4. f.time = e.time \/ f.id = e.id
      BY <2>5, <3>1, <3>3 DEF RunOf
    <3>5. QED BY <3>3, <3>4 DEF GraphInv, TopicInv
  <2>6. \A r, s \in runs' : r.time = s.time \/ r.id = s.id => r = s
    BY <1>1, <2>5 DEF GraphInv, RunsInv
  <2>7. RunOf(e).time \in Nat /\ \A r \in runs : r.time \in Nat
    BY <1>2, RunTypes DEF RunOf, Events, GraphInv
  <2>8. (\E r \in runs' : r.version # 0) =>
           \E r \in runs' : r.version # 0 /\ \A s \in runs' : s.version # 0 => s.time <= r.time
    BY <1>1, <2>7, NewestExists DEF GraphInv, RunsInv
  <2>9. QED BY <2>1, <2>3, <2>4, <2>6, <2>8 DEF RunsInv
<1>5. ViewsInv'
  <2>1. e.columns \subseteq Columns
    BY <1>2 DEF Events
  <2>2. Seeded(e, LatestOf(runs')) \subseteq Columns
    BY <2>1 DEF Seeded, GraphInv, ViewsInv
  <2>3. inventory' \subseteq Columns
    BY <2>1, <2>2 DEF Deliver
  <2>4. source' \in BOOLEAN
    BY DEF Deliver
  <2>5. QED BY <1>1, <2>3, <2>4 DEF GraphInv, ViewsInv
<1>6. QED BY <1>3, <1>4, <1>5 DEF GraphInv

LEMMA SweepStep == ASSUME GraphInv, Sweep PROVE GraphInv'
<1>1. CASE SweepStart
  <2>1. Latest \in Nat
    BY LatestType DEF GraphInv
  <2>2. ViewsInv'
    BY <1>1, <2>1 DEF SweepStart, GraphInv, ViewsInv, graphVars
  <2>3. QED BY <1>1, <2>2 DEF SweepStart, GraphInv, StorageInv, TopicInv, RunsInv, Backfill, RunOf,
            storageVars, graphVars
<1>2. CASE SweepRead
  <2>1. Len(table) \in Nat
    BY DEF GraphInv, StorageInv
  <2>2. ViewsInv'
    <3>1. sweep \in [at : {"idle", "read", "stamp"}, graph : Nat, storage : Nat]
      BY DEF GraphInv, ViewsInv
    <3>2. CASE Len(table) > sweep.graph
      <4>1. sweep' = [sweep EXCEPT !.at = "stamp", !.storage = Len(table)]
        BY <1>2, <3>2 DEF SweepRead, Backfillable
      <4>2. sweep'.storage > 0 /\ sweep' \in [at : {"idle", "read", "stamp"}, graph : Nat, storage : Nat]
        <5>1. sweep' \in [at : {"idle", "read", "stamp"}, graph : Nat, storage : Nat]
          BY <2>1, <3>1, <4>1
        <5>2. sweep'.storage = Len(table) /\ sweep.graph \in Nat
          BY <3>1, <4>1
        <5>3. QED BY <2>1, <3>2, <5>1, <5>2
      <4>3. QED BY <1>2, <4>2 DEF SweepRead, GraphInv, ViewsInv, graphVars
    <3>3. CASE ~(Len(table) > sweep.graph)
      BY <1>2, <3>3 DEF SweepRead, Backfillable, NoSweep, GraphInv, ViewsInv, graphVars
    <3>4. QED BY <3>2, <3>3
  <2>3. QED BY <1>2, <2>2 DEF SweepRead, GraphInv, StorageInv, TopicInv, RunsInv, Backfill, RunOf,
            storageVars, graphVars
<1>3. CASE SweepStamp
  <2>0. PICK id, new :
          /\ id = <<"reconcile", sweep.storage>>
          /\ new = [id |-> id, state |-> "RECONCILED", op |-> "none",
                    version |-> sweep.storage, time |-> clock + 1]
    OBVIOUS
  <2>1. /\ sweep.storage \in Nat /\ sweep.storage > 0 /\ clock \in Nat
        /\ clock' = clock + 1 /\ runs' = WithoutId(runs, id) \cup {new} /\ sweep' = NoSweep
        /\ UNCHANGED <<table, ops, flight, topic, seen, source, inventory>>
    BY <1>3, <2>0 DEF SweepStamp, storageVars, GraphInv, StorageInv, ViewsInv
  <2>2. new.id = id /\ new.time = clock + 1 /\ new.version = sweep.storage
        /\ new.state = "RECONCILED" /\ id = <<"reconcile", sweep.storage>>
    BY <2>0
  <2>3. \A r \in runs : r.time \in 1..clock
    BY RunTypes DEF GraphInv
  <2>4. \A r \in runs : Backfill(r) => Backfill(r)'
    BY <2>1 DEF Backfill
  <2>5. Backfill(new)'
    <3>1. id \in {<<"reconcile", v>> : v \in Nat}
      BY <2>1, <2>2
    <3>2. \A e \in topic : e.time # clock + 1
      BY <2>1 DEF GraphInv, TopicInv, Events
    <3>3. QED BY <2>1, <2>2, <3>1, <3>2 DEF Backfill
  <2>6. \A e \in seen : RunOf(e).id # id /\ RunOf(e)' = RunOf(e)
    BY <2>2 DEF RunOf
  <2>7. \A e \in seen' : RunOf(e)' \in runs'
    BY <2>1, <2>6 DEF GraphInv, RunsInv, WithoutId
  <2>8. \A r \in runs' : Backfill(r)' \/ \E e \in seen' : r = RunOf(e)'
    BY <2>1, <2>4, <2>5, <2>6 DEF GraphInv, RunsInv, WithoutId
  <2>9. \A r, s \in runs' : r.time = s.time \/ r.id = s.id => r = s
    BY <2>1, <2>2, <2>3 DEF GraphInv, RunsInv, WithoutId
  <2>10. new \in runs' /\ new.version # 0 /\ \A s \in runs' : s.time <= new.time
    BY <2>1, <2>2, <2>3 DEF WithoutId
  <2>11. RunsInv'
    BY <2>7, <2>8, <2>9, <2>10 DEF RunsInv
  <2>12. QED BY <2>1, <2>11 DEF GraphInv, StorageInv, TopicInv, ViewsInv, NoSweep, Events
<1>4. QED BY <1>1, <1>2, <1>3 DEF Sweep

LEMMA GraphStep == ASSUME GraphInv, [Next]_vars PROVE GraphInv'
<1>1. CASE UNCHANGED vars
  BY <1>1 DEF vars, GraphInv, StorageInv, TopicInv, RunsInv, ViewsInv, Backfill, RunOf
<1>2. QED BY <1>1, CatalogStep, DeliverStep, SweepStep DEF Next

LEMMA GraphStart == ASSUME Init PROVE GraphInv
<1>1. StorageInv
  BY BoundAssumption DEF Init, StorageInv
<1>2. TopicInv /\ RunsInv
  BY DEF Init, TopicInv, RunsInv
<1>3. ViewsInv
  BY DEF Init, ViewsInv, NoSweep
<1>4. QED BY <1>1, <1>2, <1>3 DEF GraphInv

\* For every value of the constants the variables keep their types, and no two
\* runs of the graph, nor two events of the topic, share a time.
THEOREM GraphTypeCorrect == Spec => []TypeOK
<1>1. GraphInv => TypeOK
  <2> SUFFICES ASSUME GraphInv PROVE TypeOK
    OBVIOUS
  <2>1. \A o \in flight : o.id \in 1..ops /\ o.op \in OpKinds /\ o.version \in 0..MaxOps
    BY DEF GraphInv, TopicInv, Operations
  <2>2. \A e \in topic : e.id \in 1..ops /\ e.op \in OpKinds /\ e.time \in 1..clock
    BY DEF GraphInv, TopicInv, Events
  <2>3. QED BY <2>1, <2>2 DEF GraphInv, StorageInv, TopicInv, RunsInv, ViewsInv, TypeOK, Versions
<1>2. GraphInv /\ [Next]_vars => GraphInv'
  BY GraphStep
<1>3. QED BY <1>1, <1>2, GraphStart, PTL DEF Spec

-----------------------------------------------------------------------------
(* What the last operation says of the table, whatever is in flight or lost. *)

LastOps == {o \in flight : o.id = ops} \cup {e \in topic : e.id = ops}

LastInv ==
    \A e \in LastOps : (e.op = "drop" <=> table = <<>>) /\ e.version \in {0, Len(table)}

LEMMA BeginLast ==
    ASSUME GraphInv, NEW op, NEW pin, NEW columns, Begin(op, pin, columns),
           UNCHANGED topic, op = "drop" <=> table' = <<>>, pin \in {0, Len(table')}
    PROVE  LastInv'
<1>1. PICK new : new = [id |-> ops + 1, op |-> op, at |-> "committed", version |-> pin,
                        columns |-> columns]
  OBVIOUS
<1>2. /\ flight' = flight \cup {new} /\ ops' = ops + 1 /\ ops \in Nat
      /\ new.op = op /\ new.version = pin
  BY <1>1 DEF Begin, GraphInv, StorageInv
<1>3. (\A e \in topic : e.id \in 1..ops) /\ \A o \in flight : o.id \in 1..ops
  BY DEF GraphInv, TopicInv, Events, Operations
<1>4. \A n \in 1..ops : n # ops + 1
  BY <1>2
<1>5. \A e \in LastOps' : e = new
  BY <1>2, <1>3, <1>4 DEF LastOps
<1>6. QED BY <1>2, <1>5 DEF LastInv

LEMMA LastStep == ASSUME GraphInv, LastInv, [Next]_vars PROVE LastInv'
<1>0. table \in Seq(Versions) /\ Len(table) \in Nat
  BY DEF GraphInv, StorageInv
<1>1. ASSUME NEW columns \in SUBSET Columns, Register(columns) PROVE LastInv'
  <2>1. table' # <<>>
    BY <1>1 DEF Register
  <2>2. QED BY <1>1, <2>1, BeginLast DEF Register
<1>2. ASSUME NEW columns \in SUBSET Columns, NEW pinned, Write(columns, pinned) PROVE LastInv'
  <2>1. PICK v : v = [by |-> ops + 1, columns |-> columns] /\ table' = Append(table, v)
    BY <1>2 DEF Write
  <2>2. v \in Versions
    BY <1>2, <2>1, BoundAssumption DEF Write, CanStart, Versions, GraphInv, StorageInv
  <2>3. table' # <<>> /\ Len(table') = Len(table) + 1
    BY <1>0, <2>1, <2>2
  <2>4. UNCHANGED topic
    BY <1>2 DEF Write
  <2>5. CASE table = <<>>
    BY <1>2, <2>3, <2>4, <2>5, BeginLast DEF Write
  <2>6. CASE table # <<>>
    <3>1. PICK pin \in {0, Len(table) + 1} : Begin("write", pin, {})
      BY <1>2, <2>6 DEF Write
    <3>2. QED BY <2>3, <2>4, <3>1, BeginLast
  <2>7. QED BY <2>5, <2>6
<1>3. CASE Drop
  BY <1>3, BeginLast DEF Drop
<1>4. ASSUME NEW o \in flight, Measure(o) PROVE LastInv'
  <2>1. PICK new : /\ flight' = (flight \ {o}) \cup {new}
                   /\ \E opens \in {TRUE, ~Lossy} : new = ReadBack(o, opens)
    BY <1>4 DEF Measure
  <2>2. o \in Operations(ops)
    BY DEF GraphInv, TopicInv
  <2>3. new.id = o.id /\ new.op = o.op
    BY <2>1, <2>2 DEF ReadBack, Operations
  <2>4. new.version \in {o.version, Len(table)}
    <3>1. CASE new = [o EXCEPT !.at = "measured"]
      BY <2>2, <3>1 DEF Operations
    <3>2. CASE new # [o EXCEPT !.at = "measured"]
      <4>1. PICK version \in {o.version, Len(table)} :
               new = [o EXCEPT !.at = "measured", !.version = version,
                               !.columns = table[version].columns]
        BY <2>1, <3>2 DEF ReadBack
      <4>2. QED BY <2>2, <4>1 DEF Operations
    <3>3. QED BY <3>1, <3>2
  <2>5. UNCHANGED <<table, ops, topic>>
    BY <1>4 DEF Measure
  <2>6. \A e \in LastOps' : e \in LastOps \/ (e = new /\ o \in LastOps)
    BY <2>1, <2>3, <2>5 DEF LastOps
  <2>7. QED BY <2>3, <2>4, <2>5, <2>6 DEF LastInv
<1>5. ASSUME NEW o \in flight, Emit(o) PROVE LastInv'
  <2>1. PICK new : new = Event(o, clock + 1)
    OBVIOUS
  <2>2. flight' \subseteq flight /\ topic' = topic \cup {new} /\ UNCHANGED <<table, ops>>
    BY <1>5, <2>1 DEF Emit
  <2>3. new.id = o.id /\ new.op = o.op /\ new.version = o.version
    BY <2>1 DEF Event
  <2>4. \A e \in LastOps' : e \in LastOps \/ (e = new /\ o \in LastOps)
    BY <2>2, <2>3 DEF LastOps
  <2>5. QED BY <2>2, <2>3, <2>4 DEF LastInv
<1>6. ASSUME NEW o \in flight, Lose(o) PROVE LastInv'
  BY <1>6 DEF Lose, LastInv, LastOps
<1>7. ASSUME NEW e \in topic, Deliver(e) PROVE LastInv'
  BY <1>7 DEF Deliver, storageVars, LastInv, LastOps
<1>8. CASE Sweep
  BY <1>8 DEF Sweep, SweepStart, SweepRead, SweepStamp, storageVars, LastInv, LastOps
<1>9. CASE UNCHANGED vars
  BY <1>9 DEF vars, LastInv, LastOps
<1>10. QED BY <1>1, <1>2, <1>3, <1>4, <1>5, <1>6, <1>7, <1>8, <1>9 DEF Next, Catalog

LEMMA GraphKnows == Spec => [](GraphInv /\ LastInv)
<1>1. Init => GraphInv /\ LastInv
  <2> SUFFICES ASSUME Init PROVE GraphInv /\ LastInv
    OBVIOUS
  <2>1. flight = {} /\ topic = {}
    BY DEF Init
  <2>2. LastInv
    BY <2>1 DEF LastInv, LastOps
  <2>3. QED BY <2>2, GraphStart
<1>2. GraphInv /\ LastInv /\ [Next]_vars => (GraphInv /\ LastInv)'
  BY GraphStep, LastStep
<1>3. QED BY <1>1, <1>2, PTL DEF Spec

\* The newest run with a version says what the latest version is.
LEMMA LatestIs ==
    ASSUME NEW R, NEW r \in R, r.version # 0, \A s \in R : s.time \in Nat /\ s.time <= r.time,
           \A s \in R : s.time = r.time => s = r
    PROVE  LatestOf(R) = r.version
<1> DEFINE versioned == {s \in R : s.version # 0}
<1>1. r \in versioned
  OBVIOUS
<1>2. \A s \in versioned : s.time \in Nat /\ s.time <= r.time /\ (s.time = r.time => s = r)
  OBVIOUS
<1>3. LatestOf(R) = IF versioned = {} THEN 0 ELSE Newest(versioned).version
  BY DEF LatestOf
<1> HIDE DEF versioned
<1>4. Newest(versioned) = r
  BY <1>1, <1>2, NewestIs
<1>5. QED BY <1>1, <1>3, <1>4

\* Once every event arrived, no run of an event is newer than that of the last.
LEMMA LastIsNewest ==
    ASSUME GraphInv, AllDelivered, NEW e \in topic, LastEvent(e)
    PROVE  /\ RunOf(e) \in runs
           /\ \A r \in runs : Backfill(r) \/ (r.state = "COMPLETE" /\ r.time <= RunOf(e).time)
           /\ \A r \in runs : r.time \in Nat /\ (r.time = RunOf(e).time => r = RunOf(e))
<1>1. RunOf(e) \in runs /\ RunOf(e).time = e.time
  BY DEF AllDelivered, GraphInv, RunsInv, RunOf
<1>2. \A r \in runs : Backfill(r) \/ (r.state = "COMPLETE" /\ r.time <= RunOf(e).time)
  <2> SUFFICES ASSUME NEW r \in runs, ~Backfill(r) PROVE r.state = "COMPLETE" /\ r.time <= e.time
    BY <1>1
  <2>1. PICK f \in topic : r = RunOf(f)
    BY DEF AllDelivered, GraphInv, RunsInv
  <2>2. QED BY <2>1 DEF RunOf, LastEvent
<1>3. \A r \in runs : r.time \in Nat /\ (r.time = RunOf(e).time => r = RunOf(e))
  <2>1. \A r \in runs : r.time \in Nat
    BY RunTypes DEF GraphInv
  <2>2. QED BY <1>1, <2>1 DEF GraphInv, RunsInv
<1>4. QED BY <1>1, <1>2, <1>3

\* dropped_at: once every event arrived, in any order and any number of times,
\* the graph says dropped exactly when the table is gone, if the last operation
\* was reported, and reported last: with any number of operations in flight at
\* once, lost events, drops and back-fills.
THEOREM DroppedIsKnown == Spec => []DroppedIsTruth
<1>1. GraphInv /\ LastInv => DroppedIsTruth
  <2> SUFFICES ASSUME GraphInv, LastInv, AllDelivered, NEW e \in topic, LastEvent(e)
               PROVE  Dropped <=> table = <<>>
    BY DEF DroppedIsTruth
  <2> DEFINE complete == {r \in runs : r.state = "COMPLETE"}
  <2>1. e.op = "drop" <=> table = <<>>
    BY DEF LastInv, LastOps, LastEvent
  <2>2. RunOf(e) \in complete /\ RunOf(e).op = e.op
    BY LastIsNewest DEF RunOf
  <2>3. \A r \in complete : r.time \in Nat /\ r.time <= RunOf(e).time
                            /\ (r.time = RunOf(e).time => r = RunOf(e))
    BY LastIsNewest DEF Backfill
  <2>4. Dropped <=> complete # {} /\ Newest(complete).op = "drop"
    BY DEF Dropped
  <2> HIDE DEF complete
  <2>5. Newest(complete) = RunOf(e)
    BY <2>2, <2>3, NewestIs
  <2>6. QED BY <2>1, <2>2, <2>4, <2>5
<1>2. QED BY <1>1, GraphKnows, PTL

\* latest_write_version: likewise the version the graph believes current is the
\* one on storage, if the last report named one and no back-fill is newer.
THEOREM LatestIsKnown == Spec => []LatestIsTruth
<1>1. GraphInv /\ LastInv => LatestIsTruth
  <2> SUFFICES ASSUME GraphInv, LastInv, AllDelivered, NEW e \in topic, LastEvent(e),
                      e.version # 0, NoBackfillSince(e)
               PROVE  Latest = Len(table)
    BY DEF LatestIsTruth
  <2>1. e.version = Len(table)
    BY DEF LastInv, LastOps, LastEvent
  <2>2. RunOf(e) \in runs /\ RunOf(e).version = e.version /\ RunOf(e).time = e.time
    BY LastIsNewest DEF RunOf
  <2>3. \A r \in runs : r.time \in Nat /\ r.time <= RunOf(e).time
                        /\ (r.time = RunOf(e).time => r = RunOf(e))
    BY <2>2, LastIsNewest DEF Backfill, NoBackfillSince
  <2>4. LatestOf(runs) = RunOf(e).version
    BY <2>2, <2>3, LatestIs
  <2>5. QED BY <2>1, <2>2, <2>4 DEF Latest
<1>2. QED BY <1>1, GraphKnows, PTL

-----------------------------------------------------------------------------
(* The columns, as long as nothing was dropped.                            *)

\* What names a version names one there is, and has no columns but that one's.
Described(e) ==
    /\ e.version \in 0..Len(table)
    /\ e.columns # {} => e.version # 0 /\ e.columns = table[e.version].columns

DescribedInv ==
    ops = Len(table) => (\A o \in flight : Described(o)) /\ \A e \in topic : Described(e)

\* An operation that adds a version.
LEMMA CommitDescribed ==
    ASSUME GraphInv, DescribedInv, InventoryConverges, CanStart,
           NEW columns \in SUBSET Columns, NEW op, NEW pin, NEW declared,
           table' = Append(table, [by |-> ops + 1, columns |-> columns]),
           Begin(op, pin, declared), UNCHANGED <<clock, topic, graphVars, sweep>>,
           pin \in {0, Len(table) + 1}, declared = {} \/ (declared = columns /\ pin = Len(table) + 1)
    PROVE  DescribedInv' /\ InventoryConverges'
<1> SUFFICES ASSUME ops' = Len(table')
             PROVE  DescribedInv' /\ InventoryConverges'
  BY DEF DescribedInv, InventoryConverges
<1>1. PICK new : new = [id |-> ops + 1, op |-> op, at |-> "committed", version |-> pin,
                        columns |-> declared]
  OBVIOUS
<1>2. /\ table \in Seq(Versions) /\ ops \in Nat /\ Len(table) \in Nat /\ ops' = ops + 1
      /\ flight' = flight \cup {new} /\ new.version = pin /\ new.columns = declared
  BY <1>1 DEF Begin, GraphInv, StorageInv
<1>3. PICK v : v = [by |-> ops + 1, columns |-> columns] /\ table' = Append(table, v)
  OBVIOUS
<1>4. v \in Versions /\ v.columns = columns
  BY <1>2, <1>3, BoundAssumption DEF CanStart, Versions
<1>5. /\ Len(table') = Len(table) + 1 /\ table'[Len(table) + 1] = v
      /\ \A i \in 1..Len(table) : table'[i] = table[i]
  BY <1>2, <1>3, <1>4
<1>6. ops = Len(table)
  BY <1>2, <1>5
<1>7. ASSUME NEW e, Described(e) PROVE Described(e)' /\ e.version # Len(table')
  <2>1. e.version \in 0..Len(table) /\ (e.version # 0 => e.version \in 1..Len(table))
    BY <1>2, <1>7 DEF Described
  <2>2. e.version \in 0..Len(table') /\ e.version # Len(table')
    BY <1>2, <1>5, <2>1
  <2>3. QED BY <1>5, <1>7, <2>1, <2>2 DEF Described
<1>8. Described(new)'
  <2>1. pin \in 0..Len(table')
    BY <1>2, <1>5
  <2>2. declared # {} => pin # 0 /\ declared = table'[pin].columns
    BY <1>2, <1>4, <1>5
  <2>3. QED BY <1>2, <2>1, <2>2 DEF Described
<1>9. DescribedInv'
  BY <1>2, <1>6, <1>7, <1>8 DEF DescribedInv
<1>10. \A e \in seen : e.version # Len(table')
  BY <1>6, <1>7 DEF DescribedInv, GraphInv, TopicInv
<1>11. InventoryConverges'
  BY <1>10 DEF InventoryConverges, graphVars
<1>12. QED BY <1>9, <1>11

\* The recency gate at work: the newest run being that of the version on
\* storage, no other event replaces the columns.
LEMMA DeliverDescribed ==
    ASSUME GraphInv, GraphInv', DescribedInv, InventoryConverges, NEW e \in topic, Deliver(e)
    PROVE  DescribedInv' /\ InventoryConverges'
<1>1. /\ runs' = runs \cup {RunOf(e)} /\ seen' = seen \cup {e}
      /\ UNCHANGED <<table, ops, flight, clock, topic>>
      /\ inventory' = Seeded(e, LatestOf(runs')) \cup (e.columns \cap EdgeColumns)
  BY DeliverAdds DEF Deliver, storageVars
<1>2. DescribedInv'
  BY <1>1 DEF DescribedInv, Described
<1> SUFFICES ASSUME ops = Len(table), NEW f \in seen', NewestInGraph(f)',
                    f.version = Len(table), f.columns # {}
             PROVE  /\ table[Len(table)].columns \subseteq inventory'
                    /\ inventory' \ table[Len(table)].columns \subseteq EdgeColumns
  BY <1>1, <1>2 DEF InventoryConverges
<1>3. PICK current : current = table[Len(table)].columns
  OBVIOUS
<1>4. f \in topic /\ Described(f) /\ Described(e) /\ Len(table) \in Nat
  BY <1>1 DEF DescribedInv, GraphInv, TopicInv, StorageInv
<1>5. f.columns = current /\ f.version # 0
  BY <1>3, <1>4 DEF Described
<1>6. LatestOf(runs') = Len(table)
  <2>1. RunOf(f)' = RunOf(f) /\ RunOf(f) \in runs' /\ RunOf(f).time = f.time /\ RunOf(f).version = f.version
    BY DEF GraphInv, RunsInv, RunOf
  <2>2. \A r \in runs' : r.time \in Nat /\ r.time <= f.time
    <3>1. \A r \in runs' : r.time \in 1..clock'
      BY RunTypes, <1>1 DEF GraphInv, RunOf, TopicInv, Events
    <3>2. clock' \in Nat
      BY DEF GraphInv, StorageInv
    <3>3. QED BY <3>1, <3>2 DEF NewestInGraph
  <2>3. \A r, s \in runs' : r.time = s.time => r = s
    BY DEF GraphInv, RunsInv
  <2>4. QED BY <1>5, <2>1, <2>2, <2>3, LatestIs
<1>7. inventory' = Seeded(e, Len(table)) \cup (e.columns \cap EdgeColumns)
  BY <1>1, <1>6
<1>8. CASE e.columns # {} /\ e.version = Len(table)
  <2>1. e.columns = current /\ e.version # 0
    BY <1>3, <1>4, <1>8 DEF Described
  <2>2. Seeded(e, Len(table)) = current
    BY <1>4, <1>8, <2>1 DEF Seeded
  <2>3. QED BY <1>3, <1>7, <2>1, <2>2
<1>9. CASE ~(e.columns # {} /\ e.version = Len(table))
  <2>1. Seeded(e, Len(table)) = inventory
    <3>1. CASE e.columns = {}
      BY <3>1 DEF Seeded
    <3>2. CASE e.columns # {}
      <4>1. e.version # 0 /\ e.version \in 0..Len(table) /\ e.version # Len(table)
        BY <1>4, <1>9, <3>2 DEF Described
      <4>2. ~(e.version >= Len(table))
        BY <1>4, <4>1
      <4>3. QED BY <3>2, <4>1, <4>2 DEF Seeded
    <3>3. QED BY <3>1, <3>2
  <2>2. f # e /\ f \in seen
    BY <1>1, <1>9
  <2>3. NewestInGraph(f)
    BY <1>1, <2>2 DEF NewestInGraph
  <2>4. current \subseteq inventory /\ inventory \ current \subseteq EdgeColumns
    BY <1>3, <2>2, <2>3 DEF InventoryConverges
  <2>5. QED BY <1>3, <1>7, <2>1, <2>4
<1>10. QED BY <1>8, <1>9

LEMMA DescribedStep ==
    ASSUME GraphInv, GraphInv', DescribedInv, InventoryConverges, [Next]_vars
    PROVE  DescribedInv' /\ InventoryConverges'
<1>0. table \in Seq(Versions) /\ Len(table) \in Nat /\ ops \in Nat
  BY DEF GraphInv, StorageInv
<1>1. ASSUME NEW columns \in SUBSET Columns, Register(columns)
      PROVE  DescribedInv' /\ InventoryConverges'
  <2>1. table' = Append(table, [by |-> ops + 1, columns |-> columns])
    BY <1>1 DEF Register
  <2>2. QED BY <1>1, <2>1, CommitDescribed DEF Register
<1>2. ASSUME NEW columns \in SUBSET Columns, NEW pinned \in PinModes, Write(columns, pinned)
      PROVE  DescribedInv' /\ InventoryConverges'
  <2>1. CASE table = <<>>
    <3>1. Len(table) + 1 = 1
      BY <2>1
    <3>2. QED BY <1>2, <2>1, <3>1, CommitDescribed DEF Write
  <2>2. CASE table # <<>>
    <3>1. PICK pin \in {0, Len(table) + 1} : Begin("write", pin, {})
      BY <1>2, <2>2 DEF Write
    <3>2. QED BY <1>2, <3>1, CommitDescribed DEF Write
  <2>3. QED BY <2>1, <2>2
<1>3. CASE Drop
  <2>1. ops' # Len(table')
    BY <1>0, <1>3 DEF Drop, Begin
  <2>2. QED BY <2>1 DEF DescribedInv, InventoryConverges
<1>4. ASSUME NEW o \in flight, Measure(o) PROVE DescribedInv' /\ InventoryConverges'
  <2>1. PICK new : /\ flight' = (flight \ {o}) \cup {new}
                   /\ \E opens \in {TRUE, ~Lossy} : new = ReadBack(o, opens)
    BY <1>4 DEF Measure
  <2>2. UNCHANGED <<table, ops, clock, topic, graphVars, sweep>>
    BY <1>4 DEF Measure
  <2>3. o \in Operations(ops)
    BY DEF GraphInv, TopicInv
  <2>4. Described(o) => Described(new)
    <3>1. CASE new = [o EXCEPT !.at = "measured"]
      <4>1. new.version = o.version /\ new.columns = o.columns
        BY <2>3, <3>1 DEF Operations
      <4>2. QED BY <4>1 DEF Described
    <3>2. CASE new # [o EXCEPT !.at = "measured"]
      <4>1. PICK version \in 1..Len(table) :
               new = [o EXCEPT !.at = "measured", !.version = version,
                               !.columns = table[version].columns]
        BY <2>1, <3>2 DEF ReadBack
      <4>2. new.version = version /\ new.columns = table[version].columns
        BY <2>3, <4>1 DEF Operations
      <4>3. QED BY <1>0, <4>2 DEF Described
    <3>3. QED BY <3>1, <3>2
  <2>5. \A e : Described(e)' <=> Described(e)
    BY <2>2 DEF Described
  <2>6. DescribedInv'
    BY <2>1, <2>2, <2>4, <2>5 DEF DescribedInv
  <2>7. QED BY <2>2, <2>6 DEF InventoryConverges, NewestInGraph, graphVars
<1>5. ASSUME NEW o \in flight, Emit(o) PROVE DescribedInv' /\ InventoryConverges'
  <2>1. PICK new : new = Event(o, clock + 1)
    OBVIOUS
  <2>2. flight' \subseteq flight /\ topic' = topic \cup {new} /\ UNCHANGED <<table, ops, graphVars>>
    BY <1>5, <2>1 DEF Emit
  <2>3. new.version = o.version /\ new.columns = o.columns
    BY <2>1 DEF Event
  <2>4. \A e : Described(e)' <=> Described(e)
    BY <2>2 DEF Described
  <2>5. Described(o) => Described(new)
    BY <2>3 DEF Described
  <2>6. DescribedInv'
    BY <2>2, <2>4, <2>5 DEF DescribedInv
  <2>7. QED BY <2>2, <2>6 DEF InventoryConverges, NewestInGraph, graphVars
<1>6. ASSUME NEW o \in flight, Lose(o) PROVE DescribedInv' /\ InventoryConverges'
  BY <1>6 DEF Lose, DescribedInv, Described, InventoryConverges, NewestInGraph, graphVars
<1>7. ASSUME NEW e \in topic, Deliver(e) PROVE DescribedInv' /\ InventoryConverges'
  BY <1>7, DeliverDescribed
<1>8. CASE SweepStart \/ SweepRead
  BY <1>8 DEF SweepStart, SweepRead, storageVars, graphVars, DescribedInv, Described,
     InventoryConverges, NewestInGraph
<1>9. CASE SweepStamp
  <2>1. PICK new : new = [id |-> <<"reconcile", sweep.storage>>, state |-> "RECONCILED",
                          op |-> "none", version |-> sweep.storage, time |-> clock + 1]
    OBVIOUS
  <2>2. new \in runs' /\ new.time = clock + 1 /\ UNCHANGED <<table, ops, flight, topic, seen, inventory>>
    BY <1>9, <2>1 DEF SweepStamp, storageVars
  <2>3. \A f \in seen : f.time \in 1..clock /\ clock \in Nat
    BY DEF GraphInv, StorageInv, TopicInv, Events
  <2>4. \A f \in seen : ~NewestInGraph(f)'
    BY <2>2, <2>3 DEF NewestInGraph
  <2>5. QED BY <2>2, <2>4 DEF DescribedInv, Described, InventoryConverges
<1>10. CASE UNCHANGED vars
  BY <1>10 DEF vars, DescribedInv, Described, InventoryConverges, NewestInGraph
<1>11. QED BY <1>1, <1>2, <1>3, <1>4, <1>5, <1>6, <1>7, <1>8, <1>9, <1>10 DEF Next, Catalog, Sweep

\* The recency gate: as long as nothing was dropped, once the graph's newest run
\* is the write that made the version on storage, the linked columns are that
\* version's and stay so, in whatever order and however often events arrive, but
\* for columns that column lineage links.
THEOREM ColumnsConverge == Spec => []InventoryConverges
<1>1. Init => GraphInv /\ DescribedInv /\ InventoryConverges
  <2> SUFFICES ASSUME Init PROVE GraphInv /\ DescribedInv /\ InventoryConverges
    OBVIOUS
  <2>1. flight = {} /\ topic = {} /\ seen = {}
    BY DEF Init
  <2>2. QED BY <2>1, GraphStart DEF DescribedInv, InventoryConverges
<1>2. GraphInv /\ DescribedInv /\ InventoryConverges /\ [Next]_vars
        => (GraphInv /\ DescribedInv /\ InventoryConverges)'
  BY GraphStep, DescribedStep
<1>3. QED BY <1>1, <1>2, PTL DEF Spec

=============================================================================
