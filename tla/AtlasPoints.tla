------------------------------ MODULE AtlasPoints ------------------------------
(***************************************************************************)
(* The points of the map, as the viewer serves them: built from one version *)
(* of the table of chunks, kept in memory per space and version, shown by   *)
(* a page, and resolved back to chunks by the ids of their rows.           *)
(*                                                                         *)
(* The viewer's threads share the memory without a lock; the table is       *)
(* written all along, and a page shows what it has for as long as it likes. *)
(***************************************************************************)
EXTENDS Naturals, Sequences, SequencesExt, FiniteSets, FiniteSetsExt

CONSTANTS
    Speech,          \* the chunks a document may be cut into
    Drawers,         \* the viewer's threads
    PointsMax,       \* _POINTS_CACHE_MAX
    Layers,          \* the topic layers there may be, numbered from 1
    MaxTableVersions \* bound: versions of the table of chunks

ASSUME PointsAssumption ==
    Speech # {} /\ IsFiniteSet(Drawers) /\ PointsMax \in Nat \ {0} /\ Layers \in Nat

VARIABLES
    commits,   \* the versions of the table: its rows, where they are placed, its topic layers
    bodies,    \* the cache of points, oldest first
    drawing,   \* the request each thread answers
    page       \* what the page offers, shows and has opened

pointVars == <<commits, bodies, drawing, page>>

Layouts == {"transcript", "frames"}
Blank == [space |-> "transcript", rows |-> <<>>, channel |-> 0]
Resting == [at |-> "rest"]
Now == commits[Len(commits)]
Present(rows) == {rows[id] : id \in DOMAIN rows}

\* A table of one chunk, placed on both maps, with topics of one layer.
PointsInit ==
    /\ commits = <<[rows |-> [id \in {1} |-> CHOOSE k \in Speech : TRUE], next |-> 2,
                    placed |-> [s \in Layouts |-> {1}], layers |-> {1}]>>
    /\ bodies = <<>>
    /\ drawing = [c \in Drawers |-> Resting]
    /\ page = [offered |-> {}, body |-> Blank, opened |-> <<>>]

-----------------------------------------------------------------------------
(* The table is written.                                                   *)

CommitTable(table) ==
    /\ Len(commits) < MaxTableVersions
    /\ commits' = Append(commits, table)
    /\ UNCHANGED <<bodies, drawing, page>>

\* MUTANT of NewRowId: ids are addresses, and a freed one is given again.
FreedRowId(table) == CHOOSE id \in 1..table.next :
    id \notin DOMAIN table.rows /\ \A less \in 1..id - 1 : less \in DOMAIN table.rows

\* Stable row ids: none is ever given twice.
NewRowId(table) == table.next

\* A document is ingested again and cut anew: some of its rows go, a new one
\* comes, and nothing has placed that one yet.
IngestAgain(gone, k) ==
    LET kept == DOMAIN Now.rows \ gone
        before == [Now EXCEPT !.rows = [id \in kept |-> @[id]]]
        new == NewRowId(before)
    IN  /\ k \notin Present(before.rows)
        /\ CommitTable([rows |-> [id \in kept \cup {new} |-> IF id = new THEN k ELSE Now.rows[id]],
                        next |-> Now.next + 1,
                        placed |-> [s \in Layouts |-> Now.placed[s] \cap kept],
                        layers |-> Now.layers])

\* A space is placed anew, in two commits: its columns go, and come back full.
PlaceAgain(s) ==
    CommitTable([Now EXCEPT !.placed[s] = IF @ = {} THEN DOMAIN Now.rows ELSE {}])

\* Topics are named again: layers come and go.
NameTopics(named) == named # Now.layers /\ CommitTable([Now EXCEPT !.layers = named])

-----------------------------------------------------------------------------
(* GET /api/atlas/status and /api/atlas/points                             *)

\* A space is built when it places a row.
BuiltRows(table, s) == table.placed[s]

Page(p) == page' = p /\ UNCHANGED <<commits, bodies, drawing>>

\* The table is opened once for all the spaces.
AtlasStatus == Page([page EXCEPT !.offered = {s \in Layouts : BuiltRows(Now, s) # {}}])

Draw(c, request) == drawing' = [drawing EXCEPT ![c] = request]
Cached(key) == {i \in DOMAIN bodies : bodies[i].key = key}
Answer(c, body) == Draw(c, Resting) /\ page' = [page EXCEPT !.body = body]

\* MUTANT of PointsKey: the version is read again, by name.
PointsKeyNow(request) == <<request.space, Len(commits)>>

PointsKey(request) == <<request.space, request.opened>>

\* A space the page was offered; what is opened does not move.
AtlasPoints(c, s) ==
    /\ drawing[c] = Resting /\ s \in page.offered
    /\ BuiltRows(Now, s) # {}
    /\ Draw(c, [at |-> "look", space |-> s, opened |-> Len(commits)])
    /\ UNCHANGED <<commits, bodies, page>>

\* The colours are the broadest topic layer there is: the highest numbered.
ResolveChannels(table) == Max({0} \cup table.layers)

\* One scan of the rows that are placed, with their ids.
BuildPoints(table, s) ==
    [space |-> s, rows |-> [id \in BuiltRows(table, s) |-> table.rows[id]],
     channel |-> ResolveChannels(table)]

LookAtCache(c) ==
    LET request == drawing[c]
    IN  /\ request.at = "look"
        /\ \/ \E i \in Cached(PointsKey(request)) : Answer(c, bodies[i].body)
           \/ /\ Cached(PointsKey(request)) = {}
              /\ Draw(c, [request EXCEPT !.at = "store"])
              /\ UNCHANGED page
        /\ UNCHANGED <<commits, bodies>>

\* While the cache is full its oldest entry is looked up, and then taken out.
PickOldest(c) ==
    /\ drawing[c].at = "store" /\ Len(bodies) >= PointsMax
    /\ Draw(c, [at |-> "evict", space |-> drawing[c].space, opened |-> drawing[c].opened,
                oldest |-> bodies[1].key])
    /\ UNCHANGED <<commits, bodies, page>>

Popped(key) == RemoveFirstMatch(bodies, LAMBDA e : e.key = key)

\* It fails when another thread took it out in between.
TakeOldest(c) ==
    LET request == drawing[c]
        others == Popped(request.oldest)
    IN  /\ request.at = "evict"
        /\ bodies' = others
        /\ Draw(c, IF others = bodies THEN Resting
                   ELSE [at |-> "store", space |-> request.space, opened |-> request.opened])
        /\ UNCHANGED <<commits, page>>

FoundRoom(c) ==
    /\ drawing[c].at = "store" /\ Len(bodies) < PointsMax
    /\ Draw(c, [drawing[c] EXCEPT !.at = "keep"])
    /\ UNCHANGED <<commits, bodies, page>>

\* Two threads that built the same body overwrite one entry.
StorePoints(c) ==
    LET request == drawing[c]
        key == PointsKey(request)
        entry == [key |-> key, body |-> BuildPoints(commits[request.opened], request.space)]
    IN  /\ request.at = "keep"
        /\ bodies' = IF Cached(key) = {} THEN Append(bodies, entry)
                     ELSE [i \in DOMAIN bodies |-> IF i \in Cached(key) THEN entry ELSE bodies[i]]
        /\ Answer(c, entry.body)
        /\ UNCHANGED commits

-----------------------------------------------------------------------------
(* POST /api/atlas/chunks and GET /api/atlas/chunk                         *)

Open(hits) == hits # page.opened /\ Page([page EXCEPT !.opened = hits])

\* A selection is addressed by row ids, in the table as it is now.
AtlasChunks ==
    \E picked \in SUBSET DOMAIN page.body.rows :
       Open([id \in picked \cap DOMAIN Now.rows |-> Now.rows[id]])

\* One point is addressed by the key of its chunk.
AtlasChunk ==
    \E id \in DOMAIN page.body.rows :
       /\ page.body.rows[id] \in Present(Now.rows)
       /\ Open([i \in {id} |-> page.body.rows[id]])

PointsNext ==
    \/ \E k \in Speech, gone \in SUBSET DOMAIN Now.rows : IngestAgain(gone, k)
    \/ \E s \in Layouts : PlaceAgain(s)
    \/ \E named \in SUBSET (1..Layers) : NameTopics(named)
    \/ AtlasStatus \/ AtlasChunks \/ AtlasChunk
    \/ \E c \in Drawers :
          \/ \E s \in Layouts : AtlasPoints(c, s)
          \/ LookAtCache(c) \/ PickOldest(c) \/ TakeOldest(c) \/ FoundRoom(c) \/ StorePoints(c)

-----------------------------------------------------------------------------
\* Points are kept under the version and the space they show, so a page never
\* shows one version's places in another's colours; the memory overshoots its
\* bound by the other threads at most; and a point opened from a page drawn long
\* ago is the chunk it was drawn for, or none.
PointsWhole ==
    /\ \A i \in DOMAIN bodies :
          LET key == bodies[i].key
          IN  bodies[i].body = BuildPoints(commits[key[2]], key[1])
    /\ Len(bodies) < PointsMax + Cardinality(Drawers)
    /\ \A id \in DOMAIN page.opened \cap DOMAIN page.body.rows :
          page.opened[id] = page.body.rows[id]

=============================================================================
