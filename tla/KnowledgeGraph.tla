----------------------------- MODULE KnowledgeGraph -----------------------------
(***************************************************************************)
(* The knowledge graph: the chunks are exported to a file, a builder asks  *)
(* a language model which entities each of them names, a fold turns what   *)
(* the builder left on disk into four tables, and the viewer answers from  *)
(* an engine over the four, which it keeps.                                *)
(*                                                                         *)
(* The builder saves each of its files on its own, and resumes from the    *)
(* file of chunks that are done; the fold overwrites one table after       *)
(* another.  Which names are aliases of which is a matter of spelling: any *)
(* forest of names may be.                                                 *)
(***************************************************************************)
EXTENDS Naturals, FiniteSets, Sequences

CONSTANTS
    Chunks,
    Names,      \* what the chunks name
    Viewers,    \* requests the viewer has at once
    MaxFolds,   \* bound: folds begun
    KeptEngines \* how many engines the viewer keeps

ASSUME GraphAssumption == IsFiniteSet(Names) /\ MaxFolds \in Nat /\ KeptEngines \in Nat \ {0}

VARIABLES
    exported,  \* the chunks in the file
    says,      \* the two names that each chunk in the graph gives, and relates
    disk,      \* the builder's files: the chunks in the graph, and those done
    builder,   \* the chunks a builder at work was to do
    folds,     \* folds begun
    folded,    \* the rows of the last of them
    next,      \* the table it writes next
    kg,        \* the four tables: the fold that wrote each
    engines,   \* the engines the viewer keeps, oldest first
    viewing    \* the viewer's requests

kgVars == <<exported, says, disk, builder, folds, folded, next, kg, engines, viewing>>

Files == {"graph", "done"}
Tables == 1..4    \* entities, chunks, mentions, relationships: written and read in this order
Unwritten == 0
NoBuilder == {}
NotFolding == 0
NotViewing == [at |-> "away", since |-> 0, key |-> 0, engine |-> <<>>]

KgInit ==
    /\ exported = {}
    /\ says = [c \in Chunks |-> {}]
    /\ disk = [f \in Files |-> {}] /\ builder = NoBuilder
    /\ folds = 0 /\ folded = <<{}, {}, {}, {}>> /\ next = NotFolding
    /\ kg = [t \in Tables |-> Unwritten]
    /\ engines = <<>> /\ viewing = [v \in Viewers |-> NotViewing]

-----------------------------------------------------------------------------
(* The builder.                                                            *)

\* The chunks that have text now, in a file of their own.
ExportChunks ==
    /\ exported' \in (SUBSET Chunks) \ {exported}
    /\ UNCHANGED <<says, disk, builder, folds, folded, next, kg, engines, viewing>>

Building(todo) ==
    /\ builder' = todo
    /\ UNCHANGED <<exported, folds, folded, next, kg, engines, viewing>>

\* A resume skips what is done, whatever else reached the disk.
BuildStarts ==
    /\ builder = NoBuilder
    /\ Building(exported \ disk["done"]) /\ UNCHANGED <<says, disk>>

\* What a chunk gives, as the model answers.
Extractions == {names \in SUBSET Names : Cardinality(names) = 2}

\* Each file is saved when its own interval is over, and at the end, with what was
\* inserted by then.  A chunk whose extraction fails is done, and not in the graph.
PersistFile ==
    /\ \E f \in Files : \E inserted \in (SUBSET (builder \ disk[f])) \ {{}} :
          /\ disk' = [disk EXCEPT ![f] = @ \cup inserted]
          /\ \E given \in [inserted -> Extractions] :
                says' = IF f = "graph"
                        THEN [c \in Chunks |-> IF c \in inserted THEN given[c] ELSE says[c]]
                        ELSE says
    /\ Building(builder)

BuildEnds ==
    /\ builder # NoBuilder /\ builder \subseteq disk["done"]
    /\ Building(NoBuilder) /\ UNCHANGED <<says, disk>>

BuildDies == builder # NoBuilder /\ Building(NoBuilder) /\ UNCHANGED <<says, disk>>

-----------------------------------------------------------------------------
(* The fold.                                                               *)

\* Each name's alias, itself for a name that is none: a base form and its
\* inflections merge into the one most chunks give, and that one into another.
Forests(entities) ==
    {alias \in [entities -> entities] :
        \A ns \in (SUBSET entities) \ {{}} :
            (\A n \in ns : alias[n] \in ns) => \E n \in ns : alias[n] = n}

\* MUTANT of Resolved: one alias is looked up.
ResolvedOnce(alias, n) == alias[n]

\* The name that the aliases of n end in.
Resolved(alias, n) ==
    LET after[k \in 0 .. Cardinality(DOMAIN alias)] == IF k = 0 THEN n ELSE alias[after[k - 1]]
    IN  after[Cardinality(DOMAIN alias)]

\* The chunks of a relation.  A chunk that is not exported, or whose text was not
\* saved, is not known; a relation given by such chunks only is lent a chunk of one
\* of its ends, if there is one.
GivenBy(pair, known, lent) ==
    LET own == {c \in known : says[c] = pair}
    IN  IF own # {} THEN own ELSE {c \in {lent} \cap known : says[c] \cap pair # {}}

\* One relation for all chunks that give it, none between aliases of one name.
Related(alias, pairs) ==
    {e \in {{Resolved(alias, n) : n \in pair} : pair \in pairs} : Cardinality(e) = 2}

\* The rows of the four tables.
FoldedGraph(alias, known, lent) ==
    LET pairs == {pair \in {says[c] : c \in disk["graph"]} : GivenBy(pair, known, lent) # {}}
        seen(n) == UNION {GivenBy(p, known, lent) : p \in {q \in pairs : n \in q}}
        mentions == UNION {{<<Resolved(alias, n), c>> : c \in seen(n)} : n \in DOMAIN alias}
    IN  <<{n \in DOMAIN alias : alias[n] = n}, {m[2] : m \in mentions}, mentions, Related(alias, pairs)>>

\* A builder's directory without a graph is passed over: the tables are empty then.
FoldReads ==
    /\ next = NotFolding /\ folds < MaxFolds /\ folds' = folds + 1
    /\ \E alias \in Forests(UNION {says[c] : c \in disk["graph"]}),
          known \in SUBSET (disk["graph"] \cap exported), lent \in Chunks :
          folded' = FoldedGraph(alias, known, lent)
    /\ next' = 1
    /\ UNCHANGED <<exported, says, disk, builder, kg, engines, viewing>>

\* The next table is overwritten, and its old versions removed.
FoldWrites ==
    /\ next \in Tables
    /\ kg' = [kg EXCEPT ![next] = folds]
    /\ next' = IF next + 1 \in Tables THEN next + 1 ELSE NotFolding
    /\ UNCHANGED <<exported, says, disk, builder, folds, folded, engines, viewing>>

FoldDies ==
    /\ next \in Tables /\ next' = NotFolding
    /\ UNCHANGED <<exported, says, disk, builder, folds, folded, kg, engines, viewing>>

-----------------------------------------------------------------------------
(* The viewer.                                                             *)

Viewing(v, r) ==
    /\ viewing' = [viewing EXCEPT ![v] = r]
    /\ UNCHANGED <<exported, says, disk, builder, folds, folded, next, kg>>

\* MUTANT of EngineKey: one engine for all versions.
SoleKey(version) == 0

\* An engine is kept under the version its entities had.
EngineKey(version) == version

\* A request sees that the four tables exist, and the version of the entities.
AskGraph(v) ==
    /\ viewing[v] = NotViewing
    /\ \A t \in Tables : kg[t] # Unwritten
    /\ Viewing(v, [at |-> "keyed", since |-> kg[1], key |-> EngineKey(kg[1]), engine |-> <<>>])
    /\ UNCHANGED engines

Kept(key) == {i \in DOMAIN engines : engines[i].key = key}

\* One request at a time looks for the engine, and builds the one it misses.
OpenEngine(v) ==
    /\ viewing[v].at = "keyed"
    /\ \A w \in Viewers : viewing[w].at # "building"
    /\ \/ /\ Kept(viewing[v].key) = {}
          /\ Viewing(v, [viewing[v] EXCEPT !.at = "building"])
       \/ \E i \in Kept(viewing[v].key) :
             Viewing(v, [viewing[v] EXCEPT !.at = "answered", !.engine = engines[i].engine])
    /\ UNCHANGED engines

\* The tables are read one after another; the new engine is kept, and the oldest
\* dropped.
BuildEngine(v) ==
    /\ viewing[v].at = "building"
    /\ LET engine == Append(viewing[v].engine, kg[Len(viewing[v].engine) + 1])
           all == Append(engines, [key |-> viewing[v].key, engine |-> engine])
       IN  IF Len(engine) \in Tables \ {4}
           THEN Viewing(v, [viewing[v] EXCEPT !.engine = engine]) /\ UNCHANGED engines
           ELSE /\ Viewing(v, [viewing[v] EXCEPT !.at = "answered", !.engine = engine])
                /\ engines' = IF Len(engines) = KeptEngines THEN Tail(all) ELSE all

GraphAnswered(v) ==
    /\ viewing[v].at = "answered"
    /\ Viewing(v, NotViewing)
    /\ UNCHANGED engines

KgNext ==
    \/ ExportChunks \/ BuildStarts \/ PersistFile \/ BuildEnds \/ BuildDies
    \/ FoldReads \/ FoldWrites \/ FoldDies
    \/ \E v \in Viewers : AskGraph(v) \/ OpenEngine(v) \/ BuildEngine(v) \/ GraphAnswered(v)

-----------------------------------------------------------------------------
\* Whatever the builder lost and whichever names are aliases of which, the ends of
\* every relation, and what every mention joins, are rows of the same fold.
GraphIsClosed ==
    (\A t \in Tables : kg[t] = folds) =>
        /\ UNION folded[4] \subseteq folded[1]
        /\ folded[3] \subseteq folded[1] \X folded[2]

\* No request is answered from entities older than those there were when it came,
\* though engines are built and dropped while folds overwrite the tables.
EntitiesAsOfAsking ==
    \A v \in Viewers : viewing[v].at = "answered" => viewing[v].engine[1] >= viewing[v].since

=============================================================================
