------------------------------ MODULE ControlFeed ------------------------------
(***************************************************************************)
(* The feed of control-plane changes: catalog replicas that each keep the  *)
(* latest events in a ring of their own, and a console that polls them.    *)
(*                                                                         *)
(* An event is broadcast once its change is made, and may reach a replica  *)
(* late, out of order, more than once or never.                            *)
(***************************************************************************)
EXTENDS Naturals, Sequences, SequencesExt

CONSTANTS
    Changes,     \* events, each with an id of its own
    Replicas,    \* of the catalog
    RingSize,    \* control_buffer_size
    MaxCursor    \* bound: events a replica takes in one life

ASSUME FeedAssumption == RingSize \in Nat \ {0}

VARIABLES
    made,      \* changes that are in the authoritative state
    sent,      \* those whose event reached the bus
    ring,      \* of each replica: the last events and their cursors
    head,      \* of each replica: the newest cursor
    taken,     \* of each replica: all it took since it started; history, for the property
    console    \* its cursor, who issued it, and the changes it knows of

feedVars == <<made, sent, ring, head, taken, console>>

Nobody == "nobody"

\* The page is read as the console connects, and its first poll says 0.
FeedInit ==
    /\ made = {} /\ sent = {}
    /\ ring = [r \in Replicas |-> <<>>]
    /\ head = [r \in Replicas |-> 0]
    /\ taken = [r \in Replicas |-> <<>>]
    /\ console = [cursor |-> 0, issuer |-> Nobody, known |-> {}]

Buffered(r) == {ring[r][i].event : i \in DOMAIN ring[r]}

\* emit: one bounded attempt, whose failure nobody hears of.
Emitted(e) == {sent, sent \cup {e}}

\* The last thing a change does, once it is made.
EmitControl(e) ==
    /\ e \notin made
    /\ made' = made \cup {e}
    /\ sent' \in Emitted(e)
    /\ UNCHANGED <<ring, head, taken, console>>

\* on_control_event, append: an id in the ring is ignored; one that has left it
\* is taken for new.
AppendEvent(r, e) ==
    /\ e \in sent /\ e \notin Buffered(r)
    /\ head[r] < MaxCursor
    /\ head' = [head EXCEPT ![r] = @ + 1]
    /\ LET kept == IF Len(ring[r]) = RingSize THEN Tail(ring[r]) ELSE ring[r]
       IN  ring' = [ring EXCEPT ![r] = Append(kept, [cursor |-> head'[r], event |-> e])]
    /\ taken' = [taken EXCEPT ![r] = Append(@, e)]
    /\ UNCHANGED <<made, sent, console>>

\* MUTANT of FellOff: a gap of one event passes.
FellOffLate(cursor, oldest) == cursor > 0 /\ cursor + 2 < oldest

FellOff(cursor, oldest) == cursor > 0 /\ cursor + 1 < oldest

\* since, and the console's turn: a reset makes it read everything again.
PollControlEvents(r) ==
    LET reset  == ring[r] # <<>> /\ FellOff(console.cursor, ring[r][1].cursor)
        events == {en.event : en \in {ring[r][i] : i \in {j \in DOMAIN ring[r] :
                                        ring[r][j].cursor > console.cursor}}}
    IN  /\ console' = [cursor |-> head[r], issuer |-> r,
                       known  |-> IF reset THEN made ELSE console.known \cup events]
        /\ UNCHANGED <<made, sent, ring, head, taken>>

\* The ring is in memory.
RestartReplica(r) ==
    /\ head[r] > 0
    /\ ring' = [ring EXCEPT ![r] = <<>>]
    /\ head' = [head EXCEPT ![r] = 0]
    /\ taken' = [taken EXCEPT ![r] = <<>>]
    /\ console' = IF console.issuer = r THEN [console EXCEPT !.issuer = Nobody] ELSE console
    /\ UNCHANGED <<made, sent>>

FeedNext ==
    \/ \E e \in Changes : EmitControl(e)
    \/ \E r \in Replicas :
          \/ \E e \in Changes : AppendEvent(r, e)
          \/ PollControlEvents(r) \/ RestartReplica(r)

-----------------------------------------------------------------------------
\* A console that polls the replica that issued its cursor never misses an event
\* silently: every event the replica took since is in the answer, or the console
\* is told to read everything again, however far the ring has moved on.  A cursor
\* of 0 is the exception: one issued by an empty ring is not told of a gap.
PollMissesNothing ==
    [][\A r \in Replicas :
        (PollControlEvents(r) /\ console.issuer = r /\ console.cursor > 0)
            => \A i \in DOMAIN taken[r] :
                   i > console.cursor => taken[r][i] \in console'.known]_feedVars

=============================================================================
