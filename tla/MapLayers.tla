------------------------------- MODULE MapLayers -------------------------------
(***************************************************************************)
(* The map of the chunks: the columns that place each chunk, one after     *)
(* another, and the layers of topics that are named from the places, with  *)
(* the tree that nests them.                                               *)
(*                                                                         *)
(* There is a map for the text and one for the images.  A command drops a  *)
(* column in one commit and adds it in another, and works on the rows it   *)
(* read; it can die, and rows be ingested, in between.                     *)
(***************************************************************************)
EXTENDS Naturals, FiniteSets

CONSTANTS
    MaxChunks,   \* bound: chunks ingested
    MaxLayers,   \* bound: layers of one topic build
    MaxBuilds,   \* bound: atlas and topic builds
    MaxDeaths    \* bound: commands that die

ASSUME MapAssumption ==
    MaxChunks \in Nat /\ MaxLayers \in Nat \ {0} /\ MaxBuilds \in Nat /\ MaxDeaths \in Nat

VARIABLES
    held,        \* the chunks there are
    vectors,     \* for each space, how many of them have a vector
    layout,      \* for each space, its columns: the build each is of and the chunks it covers
    projecting,  \* the atlas command: its space, step, build and the chunks it read
    topics,      \* for each layer, the build it is of
    naming,      \* the topics command: its step, build, layers and the chunks it read
    tree,        \* the builds whose layers the topics table nests
    builds, deaths

mapVars == <<held, vectors, layout, projecting, topics, naming, tree, builds, deaths>>

Spaces == {"text", "visual"}
Axes == 1..3    \* x, y, cluster, in the order they are attached
Missing == 0
NoColumn == [build |-> Missing, upto |-> 0]
NotProjecting == [at |-> "idle", space |-> "text", all |-> FALSE, axis |-> 0, build |-> 0, upto |-> 0]
NotNaming == [at |-> "idle", build |-> 0, layers |-> 0, upto |-> 0, seen |-> {}]

MapInit ==
    /\ held = 0
    /\ vectors = [s \in Spaces |-> 0]
    /\ layout = [s \in Spaces |-> [a \in Axes |-> NoColumn]]
    /\ projecting = NotProjecting
    /\ topics = [l \in 1..MaxLayers |-> Missing] /\ naming = NotNaming /\ tree = {}
    /\ builds = 0 /\ deaths = 0

Build == builds < MaxBuilds /\ builds' = builds + 1

IngestChunk ==
    /\ held < MaxChunks /\ held' = held + 1
    /\ UNCHANGED <<vectors, layout, projecting, topics, naming, tree, builds, deaths>>

\* The text's vectors are filled in, as far as the run gets.
EmbedTextColumn ==
    /\ \E n \in vectors["text"] + 1 .. held : vectors' = [vectors EXCEPT !["text"] = n]
    /\ UNCHANGED <<held, layout, projecting, topics, naming, tree, builds, deaths>>

-----------------------------------------------------------------------------
(* The atlas.                                                              *)

Projecting(p) ==
    /\ projecting' = p
    /\ UNCHANGED <<held, topics, naming, tree, deaths>>

\* The images' vectors are first copied to their chunks, into a column that is
\* dropped before it is built again.
RunAtlas(s, all) ==
    /\ projecting = NotProjecting /\ Build
    /\ LET join == s = "visual" /\ (vectors[s] = 0 \/ all)
       IN  /\ vectors' = IF join THEN [vectors EXCEPT ![s] = 0] ELSE vectors
           /\ Projecting([NotProjecting EXCEPT !.at = IF join THEN "join" ELSE "read", !.space = s,
                                               !.all = all, !.build = builds + 1])
    /\ UNCHANGED layout

\* A chunk whose frame has no vector is left without one.
ChunkFrameEmbeddingColumn ==
    /\ projecting.at = "join"
    /\ \E n \in 0..held : vectors' = [vectors EXCEPT ![projecting.space] = n]
    /\ Projecting([projecting EXCEPT !.at = "read"])
    /\ UNCHANGED <<layout, builds>>

\* Columns that are all there are left as they are, unless --all; a chunk without
\* a vector ends the command.
LoadEmbeddingMatrix ==
    /\ projecting.at = "read"
    /\ LET s == projecting.space
           there == \A a \in Axes : layout[s][a] # NoColumn
       IN  Projecting(IF (there /\ ~projecting.all) \/ vectors[s] < held \/ held = 0
                      THEN NotProjecting
                      ELSE [projecting EXCEPT !.at = "drop", !.axis = 1, !.upto = held])
    /\ UNCHANGED <<vectors, layout, builds>>

\* One column after another is dropped and added.  A chunk ingested since the read
\* has no value, which fails the command with the column dropped.
AttachColumn ==
    LET s == projecting.space  a == projecting.axis
    IN  /\ \/ /\ projecting.at = "drop"
              /\ layout' = [layout EXCEPT ![s][a] = NoColumn]
              /\ Projecting([projecting EXCEPT !.at = "add"])
           \/ /\ projecting.at = "add" /\ projecting.upto = held
              /\ layout' = [layout EXCEPT ![s][a] = [build |-> projecting.build, upto |-> held]]
              /\ Projecting(IF a + 1 \in Axes
                            THEN [projecting EXCEPT !.at = "drop", !.axis = a + 1]
                            ELSE NotProjecting)
           \/ /\ projecting.at = "add" /\ projecting.upto # held
              /\ Projecting(NotProjecting) /\ UNCHANGED layout
        /\ UNCHANGED <<vectors, builds>>

-----------------------------------------------------------------------------
(* The topics.                                                             *)

Naming(n) ==
    /\ naming' = n
    /\ UNCHANGED <<held, vectors, layout, projecting, deaths>>

\* Every chunk needs a vector and a place.
RunTopics ==
    /\ naming = NotNaming /\ Build
    /\ held > 0 /\ vectors["text"] = held
    /\ \A a \in {1, 2} : layout["text"][a].build # Missing /\ layout["text"][a].upto = held
    /\ \E n \in 1..MaxLayers :
          Naming([NotNaming EXCEPT !.at = "drop", !.build = builds + 1, !.layers = n, !.upto = held])
    /\ UNCHANGED <<topics, tree>>

\* MUTANT of Existing: only the layers that are built again are dropped.
ExistingAgain(layers) == 1..layers

\* All the layers there are, however many the new build has.
Existing(layers) == DOMAIN topics

\* The layers are dropped in one commit, and the new ones added in one.
AttachTopics ==
    /\ \/ /\ naming.at = "drop"
          /\ topics' = [l \in DOMAIN topics |-> IF l \in Existing(naming.layers) THEN Missing ELSE topics[l]]
          /\ Naming([naming EXCEPT !.at = "add"])
       \/ /\ naming.at = "add" /\ naming.upto = held
          /\ topics' = [l \in DOMAIN topics |-> IF l <= naming.layers THEN naming.build ELSE topics[l]]
          /\ Naming([naming EXCEPT !.at = "tree"])
       \/ /\ naming.at = "add" /\ naming.upto # held
          /\ Naming(NotNaming) /\ UNCHANGED topics
    /\ UNCHANGED <<tree, builds>>

\* The layers that are there, whoever built them: the last step of the topics
\* command, and a command of its own.
ReadLayers ==
    /\ naming.at \in {"idle", "tree"}
    /\ LET seen == {topics[l] : l \in {k \in DOMAIN topics : topics[k] # Missing}}
       IN  seen # {} /\ Naming([NotNaming EXCEPT !.at = "fold", !.seen = seen])
    /\ UNCHANGED <<topics, tree, builds>>

BuildTopicTree ==
    /\ naming.at = "fold"
    /\ tree' = naming.seen
    /\ Naming(NotNaming)
    /\ UNCHANGED <<topics, builds>>

DieBuilding ==
    /\ deaths < MaxDeaths /\ deaths' = deaths + 1
    /\ \/ projecting # NotProjecting /\ projecting' = NotProjecting /\ UNCHANGED naming
       \/ naming # NotNaming /\ naming' = NotNaming /\ UNCHANGED projecting
    /\ UNCHANGED <<held, vectors, layout, topics, tree, builds>>

MapNext ==
    \/ IngestChunk \/ EmbedTextColumn
    \/ \E s \in Spaces, all \in BOOLEAN : RunAtlas(s, all)
    \/ ChunkFrameEmbeddingColumn \/ LoadEmbeddingMatrix \/ AttachColumn
    \/ RunTopics \/ AttachTopics \/ ReadLayers \/ BuildTopicTree \/ DieBuilding

-----------------------------------------------------------------------------
\* The layers of topics, and the tree that nests them, are of one build, though
\* builds differ in their number of layers and die between their commits: the
\* broadest layer names what the finer ones split.
TopicsOfOneBuild ==
    /\ \A l, m \in DOMAIN topics : Missing \in {topics[l], topics[m]} \/ topics[l] = topics[m]
    /\ Cardinality(tree) <= 1

=============================================================================
