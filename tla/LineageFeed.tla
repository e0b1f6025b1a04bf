------------------------------ MODULE LineageFeed ------------------------------
(***************************************************************************)
(* The durable feed of lineage events: what maintenance and writes report  *)
(* is delivered at least once and in any order, the first terminal event   *)
(* of a run is kept, old rows are pruned, and readers who may see only     *)
(* some datasets walk the feed page by page.                               *)
(***************************************************************************)
EXTENDS Integers, FiniteSets, FiniteSetsExt

CONSTANTS Datasets,
          Fetch,         \* rows read for one page when some may be hidden
          Limit,         \* rows on one page
          Retention,     \* rows kept, by distance from the highest sequence number
          FailEmits,     \* failures one sweep reports
          MaxSeq,        \* bounds the sequence numbers
          MaxRuns,       \* bounds the runs
          MaxGrants      \* bounds the changes of what the reader may see

ASSUME PagesAssumption == Fetch \in Nat \ {0} /\ Limit \in Nat \ {0}

VARIABLES mail,      \* events reported; the broker delivers any of them, any number of times
          rows,      \* the feed
          lastSeq,   \* the sequence, which a refused insert uses up too
          runs,      \* run ids given out
          governed,  \* whether authorization is on
          seen,      \* the datasets the reader may see
          grants, walk

feedPageVars == <<mail, rows, lastSeq, runs, governed, seen, grants, walk>>

Terminal == {"COMPLETE", "FAIL"}
Event(run, type, time, refs) == [run |-> run, type |-> type, time |-> time, refs |-> refs]

\* A walk's cursor is the lowest sequence number reached; `due` is history: the
\* rows the reader could see when it began, and can still, not yet returned.
NoWalk == [on |-> FALSE, over |-> FALSE, after |-> 0, due |-> {}]

\* One check of all the datasets an event names, and of at least one.
BatchCheck(refs) == refs \subseteq seen
Visible(row) == governed => row.refs # {} /\ BatchCheck(row.refs)
Due(kept, due) == {s \in due : \E row \in kept : row.seq = s}

FeedPagesInit ==
    /\ mail = {} /\ rows = {}
    /\ lastSeq = 0 /\ runs = 0 /\ grants = 0
    /\ governed \in BOOLEAN
    /\ seen \in SUBSET Datasets
    /\ walk = NoWalk

-----------------------------------------------------------------------------
(* What is reported. *)

\* A write derives one dataset from others; a run reports progress too.
Report(type) ==
    /\ runs < MaxRuns
    /\ runs' = runs + 1
    /\ \E refs \in SUBSET Datasets :
          mail' = mail \union {Event(runs', type, runs', refs)}
    /\ UNCHANGED <<rows, lastSeq, governed, seen, grants, walk>>

\* build_maintenance_event and its failing twin: each pass that did something
\* is a run of its own, a failure always the same run of its dataset.
Worked(d, run) == Event(run, "COMPLETE", run, {d})
Failed(d, time) == Event(d, "FAIL", time, {d})

\* One sweep, in which at most one dataset was worked on (two sweeps stand for
\* more): every publish is best effort, and failures beyond the cap wait
\* for a later tick.
EmitSweepLineage ==
    /\ runs < MaxRuns
    /\ runs' = runs + 1
    /\ \E worked \in {{}} \union {{d} : d \in Datasets}, failed \in SUBSET Datasets :
          /\ Cardinality(failed) <= FailEmits
          /\ worked \cap failed = {}
          /\ mail' = mail \union {Worked(d, runs') : d \in worked}
                          \union {Failed(d, runs') : d \in failed}
    /\ UNCHANGED <<rows, lastSeq, governed, seen, grants, walk>>

-----------------------------------------------------------------------------
(* What is kept. *)

\* The two unique indexes: one row per event, and per terminal state of a run.
Conflicts(event) ==
    \E row \in rows : /\ row.run = event.run /\ row.type = event.type
                      /\ row.time = event.time \/ event.type \in Terminal

Pruned(all, highest) == {row \in all : row.seq > highest - Retention}

\* record_event: append, then prune, on every delivery.
RecordEvent(event) ==
    /\ lastSeq < MaxSeq
    /\ lastSeq' = lastSeq + 1
    /\ LET row == [seq |-> lastSeq', run |-> event.run, type |-> event.type,
                   time |-> event.time, refs |-> event.refs]
           all == IF Conflicts(event) THEN rows ELSE rows \union {row}
           highest == IF all = {} THEN 0 ELSE Max({r.seq : r \in all})
       IN  /\ rows' = Pruned(all, highest)
           /\ walk' = [walk EXCEPT !.due = Due(rows', @)]
    /\ UNCHANGED <<mail, runs, governed, seen, grants>>

-----------------------------------------------------------------------------
(* What a reader is shown. *)

StartWalk ==
    /\ walk' = [on |-> TRUE, over |-> FALSE, after |-> lastSeq + 1,
                due |-> {row.seq : row \in {r \in rows : Visible(r)}}]
    /\ UNCHANGED <<mail, rows, lastSeq, runs, governed, seen, grants>>

\* The n highest of a set of rows.
Newest(n, of) == {row \in of : Cardinality({r \in of : r.seq > row.seq}) < n}
Lowest(of) == Min({row.seq : row \in of})

\* list_events, the governance filter, and then the page.
Window == Newest(IF governed THEN Fetch ELSE Limit, {row \in rows : row.seq < walk.after})
Returned == Newest(Limit, {row \in Window : Visible(row)})

\* MUTANT of NextCursor: always the floor of the window that was read.
WindowFloor == IF Window = {} THEN 0 ELSE Lowest(Window)

\* Below the last row returned when the page is full, below the window when it
\* is not but the window was; 0 when the feed is exhausted.
NextCursor ==
    CASE Cardinality(Returned) = Limit -> Lowest(Returned)
      [] Cardinality(Returned) < Limit /\ Cardinality(Window) = (IF governed THEN Fetch ELSE Limit)
            -> Lowest(Window)
      [] OTHER -> 0

GetEvents ==
    /\ walk.on /\ ~walk.over
    /\ walk' = [walk EXCEPT !.due = @ \ {row.seq : row \in Returned},
                            !.after = NextCursor, !.over = (NextCursor = 0)]
    /\ UNCHANGED <<mail, rows, lastSeq, runs, governed, seen, grants>>

\* Grants change under the reader.
ChangeGrant(d) ==
    /\ grants < MaxGrants
    /\ grants' = grants + 1
    /\ seen' = IF d \in seen THEN seen \ {d} ELSE seen \union {d}
    /\ walk' = [walk EXCEPT !.due =
          {s \in @ : \E row \in rows : row.seq = s /\ (governed => row.refs \subseteq seen')}]
    /\ UNCHANGED <<mail, rows, lastSeq, runs, governed>>

FeedPagesNext ==
    \/ \E type \in {"COMPLETE", "RUNNING"} : Report(type)
    \/ EmitSweepLineage
    \/ \E event \in mail : RecordEvent(event)
    \/ StartWalk \/ GetEvents
    \/ \E d \in Datasets : ChangeGrant(d)

-----------------------------------------------------------------------------
\* A reader who pages to the end is shown every row that it might see when it
\* began and might see all along, unless the row was pruned: hiding rows,
\* inserting and pruning never make the cursor jump over one.
PagingSkipsNothing == walk.over => walk.due = {}

=============================================================================
