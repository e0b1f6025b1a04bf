---------------------------- MODULE DatasetRegistry ----------------------------
(***************************************************************************)
(* The cached description of a dataset's table, and the threads that bring *)
(* it up to date as they open the table.                                   *)
(*                                                                         *)
(* A thread opens the table, compares the version with the description,    *)
(* waits for the lock, and looks at the table again under it, while others *)
(* write and open.                                                         *)
(***************************************************************************)
EXTENDS Naturals

CONSTANTS
    Openers,       \* threads of the service
    MaxRebuilds    \* bound: writes to the table

VARIABLES
    written,    \* the version of the table
    info,       \* the version the description is of; 0 before the first look
    lock,       \* the thread that holds the lock, or nobody
    opening     \* what each thread is at

descriptionVars == <<written, info, lock, opening>>

Free == "free"

ASSUME OpenersAssumption == Free \notin Openers

Closed == [at |-> "closed"]
Opening(c, step) == opening[c].at = step
Step(c, next) == opening' = [opening EXCEPT ![c] = next]

\* The dataset was described before the table was made.
DescriptionInit ==
    /\ written = 1
    /\ info = 0
    /\ lock = Free
    /\ opening = [c \in Openers |-> Closed]

WriteRows ==
    /\ written < MaxRebuilds
    /\ written' = written + 1
    /\ UNCHANGED <<info, lock, opening>>

TableDataset(c) ==
    /\ Opening(c, "closed")
    /\ Step(c, [at |-> "opened", version |-> written])
    /\ UNCHANGED <<written, info, lock>>

\* Nothing to do if the description is of the version that was opened.
CompareInfo(c) ==
    /\ Opening(c, "opened")
    /\ Step(c, IF info = opening[c].version
               THEN Closed
               ELSE [at |-> "drift", version |-> opening[c].version, seen |-> info])
    /\ UNCHANGED <<written, info, lock>>

\* Under the lock: a description that changed meanwhile was brought up to date
\* by someone else.
AwaitLock(c) ==
    /\ Opening(c, "drift") /\ lock = Free
    /\ IF info = opening[c].seen
       THEN Step(c, [at |-> "locked", version |-> opening[c].version]) /\ lock' = c
       ELSE Step(c, Closed) /\ UNCHANGED lock
    /\ UNCHANGED <<written, info>>

\* MUTANT of TableInfo: the version that was opened is described.
TableInfoOpened(c) == opening[c].version

\* table_info opens the table once more.
TableInfo(c) == written

Introspect(c) ==
    /\ Opening(c, "locked")
    /\ Step(c, [at |-> "described", version |-> opening[c].version, fresh |-> TableInfo(c)])
    /\ UNCHANGED <<written, info, lock>>

SyncTableInfo(c) ==
    /\ Opening(c, "described")
    /\ info' = opening[c].fresh
    /\ lock' = Free
    /\ Step(c, Closed)
    /\ UNCHANGED written

\* A look that fails leaves the old description, and the request goes on.
FailSync(c) ==
    /\ Opening(c, "locked")
    /\ lock' = Free
    /\ Step(c, Closed)
    /\ UNCHANGED <<written, info>>

DescriptionNext ==
    \/ WriteRows
    \/ \E c \in Openers :
          \/ TableDataset(c) \/ CompareInfo(c) \/ AwaitLock(c)
          \/ Introspect(c) \/ SyncTableInfo(c) \/ FailSync(c)

-----------------------------------------------------------------------------
\* The description never goes back to an older version, although several
\* openings bring it up to date at once, some of them long ago.
DescriptionAdvances == [][info' >= info]_info

=============================================================================
