------------------------------ MODULE SearchCache ------------------------------
(***************************************************************************)
(* Searches over the tables of one dataset, in the threads of one process: *)
(* a cache of results keyed by the versions of the tables.                 *)
(*                                                                         *)
(* The versions for the key are read table by table, then the search opens *)
(* the tables again; others write all along.  Nothing locks the cache.     *)
(***************************************************************************)
EXTENDS Naturals, Sequences, SequencesExt

CONSTANTS
    RowTable,       \* the table the hits are rows of
    FrameTables,    \* tables of frames with vectors and captions
    Modes,          \* the modes asked for, of "fts", "hybrid", "vector", "vector_fts", "all"
    Threads,
    MaxCached,      \* search_cache_size
    MaxWrites       \* bound: writes to each table

SearchTables == {RowTable} \cup FrameTables

ASSUME SearchAssumption ==
    /\ RowTable \notin FrameTables
    /\ MaxCached \in Nat \ {0}

VARIABLES
    version,     \* of each table
    cached,      \* the entries, least recently used first
    search       \* the search each thread runs

searchVars == <<version, cached, search>>

Quiet == [at |-> "idle"]
Ran(c, step) == search[c].at = step
Move(c, next) == search' = [search EXCEPT ![c] = next]
With(c, step) == Move(c, [search[c] EXCEPT !.at = step])

SearchInit ==
    /\ version = [t \in SearchTables |-> 1]
    /\ cached = <<>>
    /\ search = [c \in Threads |-> Quiet]

WriteTable(t) ==
    /\ version[t] < MaxWrites
    /\ version' = [version EXCEPT ![t] = @ + 1]
    /\ UNCHANGED <<cached, search>>

-----------------------------------------------------------------------------
(* The key                                                                 *)

Unreadable == 0
Unasked == [t \in SearchTables |-> Unreadable]

\* The hash of the query stands for everything else that matters to the result.
Search(c, query) ==
    /\ Ran(c, "idle")
    /\ Move(c, [at |-> "key", key |-> [query |-> query, versions |-> Unasked],
                left |-> SearchTables])
    /\ UNCHANGED <<version, cached>>

\* version_signature: one table after the other; one that does not open leaves
\* a question mark.
VersionSignature(c) ==
    /\ Ran(c, "key") /\ search[c].left # {}
    /\ LET t == CHOOSE u \in search[c].left : TRUE
       IN  \E v \in {Unreadable, version[t]} :
              Move(c, [search[c] EXCEPT !.key.versions[t] = v, !.left = @ \ {t}])
    /\ UNCHANGED <<version, cached>>

Entries(key) == {i \in 1..Len(cached) : cached[i].key = key}
RemoveKey(key) == RemoveFirstMatch(cached, LAMBDA e : e.key = key)

\* resolve_target opens the row table; what is open does not move.
ResolveTarget(c) ==
    Move(c, [at |-> "run", key |-> search[c].key, opened |-> version[RowTable]])

\* The lookup reads only the cache and a miss then opens only the table, so the
\* two are one step: whatever came between could as well have come before.
Lookup(c) ==
    /\ Ran(c, "key") /\ search[c].left = {}
    /\ \/ /\ Entries(search[c].key) = {}
          /\ ResolveTarget(c)
       \/ \E i \in Entries(search[c].key) :
             Move(c, [at |-> "hit", key |-> search[c].key, hits |-> cached[i].hits])
    /\ UNCHANGED <<version, cached>>

\* A hit is moved to the end in two steps; the first fails if another thread is
\* between the two, or evicted the entry.
TakeOut(c) ==
    /\ Ran(c, "hit") /\ Entries(search[c].key) # {}
    /\ cached' = RemoveKey(search[c].key)
    /\ With(c, "putback")
    /\ UNCHANGED <<version>>

PutBack(c) ==
    /\ Ran(c, "putback")
    /\ cached' = Append(RemoveKey(search[c].key), [key |-> search[c].key, hits |-> search[c].hits])
    /\ Move(c, Quiet)
    /\ UNCHANGED <<version>>

-----------------------------------------------------------------------------
(* run_search: which tables a mode gets its hits from.                     *)

RowHits == {{RowTable}}

\* Browsing, BM25 and its fusion with a vector read the rows, and fail with them.
SearchFts == RowHits
SearchHybrid == RowHits

\* Without the column there are no hits.
VectorSearch == {{}} \cup RowHits

\* Frames are ranked, within the scope and else without; with no index there are
\* none.
RankedOrFallback(t) == {{}, {t}}

\* The best frames, joined to their rows.
FramesToRowHits(ranked) == IF ranked = {} THEN {} ELSE ranked \cup {RowTable}
FrameSearch(t) == {FramesToRowHits(ranked) : ranked \in RankedOrFallback(t)}

\* One space of vectors: of the rows, or of a table of frames.
VectorLeg(t) == IF t = RowTable THEN VectorSearch ELSE FrameSearch(t)

\* A space that is not declared, or that the query cannot drive, has no hits.
SearchVectorMode(found) == {{}} \cup UNION {VectorLeg(t) : t \in {RowTable} \cup found}

\* The captions of the frames, as words.
FrameFtsSearch(t) == {FramesToRowHits(ranked) : ranked \in RankedOrFallback(t)}

\* The text a space of frames was made from.
SearchVectorFtsMode(found) == {{}} \cup UNION {FrameFtsSearch(t) : t \in found}

\* Every leg that answers, fused; one that fails is left out.
SearchAll(found) ==
    {UNION legs : legs \in SUBSET (RowHits \cup UNION {VectorLeg(t) : t \in found})}

Dispatch(mode, found) ==
    CASE mode = "fts"        -> SearchFts
      [] mode = "hybrid"     -> SearchHybrid
      [] mode = "vector"     -> SearchVectorMode(found)
      [] mode = "vector_fts" -> SearchVectorFtsMode(found)
      [] mode = "all"        -> SearchAll(found)

\* Captions decorate what hits there are, when they can be read.
AttachCaptions(found, read) == {read \cup more : more \in SUBSET IF read = {} THEN {} ELSE found}

\* The frame tables are opened now, and one that does not open is left out; the
\* row table was opened before.
RunSearch(c) ==
    /\ Ran(c, "run")
    /\ \E found \in SUBSET FrameTables :
       \E legs \in Dispatch(search[c].key.query, found) :
       \E read \in AttachCaptions(found, legs) :
          Move(c, [at |-> "store", key |-> search[c].key,
                   hits |-> [t \in SearchTables |->
                                IF t \notin read THEN Unreadable
                                ELSE IF t = RowTable THEN search[c].opened
                                ELSE version[t]]])
    /\ UNCHANGED <<version, cached>>

-----------------------------------------------------------------------------
(* Storing, and the answer.                                                *)

Full == Len(cached) >= MaxCached

EvictOldest(c) ==
    /\ Ran(c, "store") /\ Full
    /\ cached' = Tail(cached)
    /\ UNCHANGED <<version, search>>

\* MUTANT of CacheKey: the versions are read when the result is stored.
CacheKeyAfter(c) == [search[c].key EXCEPT !.versions = version]

CacheKey(c) == search[c].key

\* Storing comes after the look at the size; an entry that came meanwhile is
\* overwritten in its place.
Checked(c) ==
    /\ Ran(c, "store") /\ ~Full
    /\ With(c, "keep")
    /\ UNCHANGED <<version, cached>>

Keep(c) ==
    /\ Ran(c, "keep")
    /\ LET entry == [key |-> CacheKey(c), hits |-> search[c].hits]
       IN  cached' = IF Entries(CacheKey(c)) = {}
                     THEN Append(cached, entry)
                     ELSE [i \in DOMAIN cached |->
                              IF i \in Entries(CacheKey(c)) THEN entry ELSE cached[i]]
    /\ Move(c, Quiet)
    /\ UNCHANGED <<version>>

\* A request may fail anywhere: the embedding or rerank service is down, a query
\* is refused, a dictionary was changed under it.
FailSearch(c) ==
    /\ ~Ran(c, "idle")
    /\ Move(c, Quiet)
    /\ UNCHANGED <<version, cached>>

SearchNext ==
    \/ \E t \in SearchTables : WriteTable(t)
    \/ \E c \in Threads :
          \/ \E query \in Modes : Search(c, query)
          \/ VersionSignature(c) \/ Lookup(c) \/ TakeOut(c) \/ PutBack(c)
          \/ RunSearch(c) \/ EvictOldest(c) \/ Checked(c) \/ Keep(c) \/ FailSearch(c)

-----------------------------------------------------------------------------
\* No answer is older than the versions its request read for the key, whether it
\* was searched or cached by another thread while others wrote: short of a table
\* the key could not read, or one the search left out.
AnswerNotStale ==
    LET NotOlder(answer) == \A t \in SearchTables :
            answer.hits[t] = Unreadable \/ answer.hits[t] >= answer.key.versions[t]
    IN  /\ \A i \in DOMAIN cached : NotOlder(cached[i])
        /\ \A c \in Threads :
              search[c].at \in {"hit", "putback", "store", "keep"} => NotOlder(search[c])

=============================================================================
