------------------------------ MODULE FeatureStages ------------------------------
(***************************************************************************)
(* The stages of the media pipeline: ingest replaces the rows of a         *)
(* document, and a driver derives from them, commit by commit, a column    *)
(* (a scan stage), the rows of another table (an append stage), and a      *)
(* column of that table's blobs (a blob stage).                            *)
(*                                                                         *)
(* Any of them can be killed between two commits and run again: what a run *)
(* still has to do is read from the tables.  There is one driver for each  *)
(* stage.  A document has one chunk, whose text is numbered by the ingest  *)
(* that wrote it.                                                          *)
(***************************************************************************)
EXTENDS Naturals, FiniteSets, SequencesExt

CONSTANTS
    Documents,
    Parts,       \* the rows an append stage makes of a document
    MaxIngests,  \* bound: ingests
    MaxKills     \* bound: runs that die

ASSUME StagesAssumption == MaxIngests \in Nat \ {0} /\ MaxKills \in Nat

VARIABLES
    chunks,      \* the chunk of each document: its text and the value derived from it
    documents,   \* documents with a row of their own
    ingest,      \* the ingest's step, its document and text
    ingests, kills,
    fill,        \* the scan stage's step and the rows it has yet to commit
    overlapped,  \* history: documents last replaced between a scan stage's read and its commit
    output,      \* how often each row was appended
    extract,     \* the append stage's step and the rows it has yet to commit
    embedded,    \* rows with a value in the blob stage's column
    column,      \* whether that column exists
    sidecar,     \* rows whose value is in the checkpoint
    torn,        \* whether the checkpoint ends in half a line
    embed        \* the blob stage's step, the rows it saw, and the values it has

chunkVars == <<chunks, documents, ingest, ingests>>
fillVars == <<fill, overlapped>>
extractVars == <<output, extract>>
embedVars == <<embedded, column, sidecar, torn, embed>>
stageVars == <<chunkVars, kills, fillVars, extractVars, embedVars>>

NoText == 0
NoChunk == [text |-> NoText, value |-> NoText]
Resting == [at |-> "idle", todo |-> {}]
NoEmbed == [at |-> "idle", rows |-> {}, values |-> {}]
Rows == Documents \X Parts
Appended == {r \in Rows : output[r] > 0}

StagesInit ==
    /\ chunks = [d \in Documents |-> NoChunk]
    /\ documents = {}
    /\ ingest = [at |-> "idle", doc |-> {}, text |-> NoText] /\ ingests = 0 /\ kills = 0
    /\ fill = Resting /\ overlapped = {}
    /\ output = [r \in Rows |-> 0] /\ extract = Resting
    /\ embedded = {} /\ column = FALSE
    /\ sidecar = {} /\ torn = FALSE /\ embed = NoEmbed

-----------------------------------------------------------------------------
(* Ingest.                                                                 *)

\* MUTANT of Aligned: a replaced row keeps what was derived from the old one.
AlignedKeeping(d, text) == [text |-> text, value |-> IF d \in documents THEN 1 ELSE NoText]

\* A new row has nothing in the columns the table gained since.
Aligned(d, text) == [text |-> text, value |-> NoText]

\* The chunks are deleted and then added, and after them the document's own row.
IngestStarts(d) ==
    /\ ingest.at = "idle" /\ ingests < MaxIngests
    /\ ingests' = ingests + 1
    /\ chunks' = [chunks EXCEPT ![d] = NoChunk]
    /\ ingest' = [at |-> "add", doc |-> {d}, text |-> ingests + 1]
    /\ overlapped' = IF \E r \in fill.todo : r.doc = d THEN overlapped \cup {d} ELSE overlapped \ {d}
    /\ UNCHANGED <<documents, kills, fill, extractVars, embedVars>>

IngestAdds(d) ==
    /\ ingest.at = "add" /\ d \in ingest.doc
    /\ chunks' = [chunks EXCEPT ![d] = Aligned(d, ingest.text)]
    /\ ingest' = [ingest EXCEPT !.at = "replace"]
    /\ UNCHANGED <<documents, ingests, kills, fillVars, extractVars, embedVars>>

IngestDescribes(d) ==
    /\ d \in ingest.doc
    /\ \/ /\ ingest.at = "replace"
          /\ documents' = documents \ {d}
          /\ ingest' = [ingest EXCEPT !.at = "describe"]
       \/ /\ ingest.at = "describe"
          /\ documents' = documents \cup {d}
          /\ ingest' = [at |-> "idle", doc |-> {}, text |-> NoText]
    /\ UNCHANGED <<chunks, ingests, kills, fillVars, extractVars, embedVars>>

-----------------------------------------------------------------------------
(* The scan stage.                                                         *)

Pending == {[doc |-> d, text |-> chunks[d].text] :
               d \in {c \in Documents : chunks[c].text # NoText /\ chunks[c].value = NoText}}

FillReads ==
    /\ fill.at = "idle" /\ Pending # {}
    /\ fill' = [at |-> "merge", todo |-> Pending]
    /\ UNCHANGED <<chunkVars, kills, overlapped, extractVars, embedVars>>

\* What a batch derived is merged on the row's key, whatever the row holds by now.
FillMerges ==
    /\ fill.at = "merge"
    /\ \E r \in fill.todo :
          /\ chunks' = [chunks EXCEPT ![r.doc].value = IF chunks[r.doc] = NoChunk THEN @ ELSE r.text]
          /\ fill' = IF fill.todo = {r} THEN Resting ELSE [fill EXCEPT !.todo = @ \ {r}]
    /\ UNCHANGED <<documents, ingest, ingests, kills, overlapped, extractVars, embedVars>>

-----------------------------------------------------------------------------
(* The append stage.                                                       *)

\* MUTANT of Undone: a document is done when all its rows are there.
UndoneInPart ==
    {r \in Rows : r[1] \in documents /\ \E p \in Parts : output[<<r[1], p>>] = 0}

\* The documents, less those that have any row in the output.
Undone ==
    {r \in Rows : r[1] \in documents /\ \A p \in Parts : output[<<r[1], p>>] = 0}

ExtractReads ==
    /\ extract.at = "idle" /\ Undone # {}
    /\ extract' = [at |-> "append", todo |-> Undone]
    /\ UNCHANGED <<chunkVars, kills, fillVars, output, embedVars>>

\* The results are cut into batches with no regard for documents; a document
\* that fails yields no rows and is passed over.
ExtractAppends ==
    /\ extract.at = "append"
    /\ \/ \E batch \in (SUBSET extract.todo) \ {{}} :
             /\ output' = [r \in Rows |-> IF r \in batch THEN output[r] + 1 ELSE output[r]]
             /\ extract' = IF extract.todo = batch THEN Resting
                           ELSE [extract EXCEPT !.todo = @ \ batch]
       \/ \E d \in Documents :
             LET rows == {d} \X Parts
             IN  /\ rows \subseteq extract.todo
                 /\ extract' = IF extract.todo = rows THEN Resting
                               ELSE [extract EXCEPT !.todo = @ \ rows]
                 /\ UNCHANGED output
    /\ UNCHANGED <<chunkVars, kills, fillVars, embedVars>>

-----------------------------------------------------------------------------
(* The blob stage.                                                         *)

\* A rebuild drops the column first.  Half a line in the checkpoint cannot be
\* loaded; otherwise the values in it are not computed again.
EmbedReads ==
    /\ embed.at = "idle" /\ Appended # {}
    /\ column' = FALSE /\ embedded' = {}
    /\ embed' = IF torn THEN NoEmbed
                ELSE [at |-> "compute", rows |-> Appended, values |-> sidecar]
    /\ UNCHANGED <<chunkVars, kills, fillVars, extractVars, sidecar, torn>>

EmbedComputes ==
    /\ embed.at = "compute"
    /\ \E batch \in (SUBSET (embed.rows \ embed.values)) \ {{}} :
          /\ sidecar' = sidecar \cup batch
          /\ embed' = [embed EXCEPT !.values = @ \cup batch]
    /\ UNCHANGED <<chunkVars, kills, fillVars, extractVars, embedded, column, torn>>

\* A row that has no value fails the attach.
Attachable == Appended \subseteq embed.values

EmbedAttaches ==
    /\ embed.at = "compute" /\ embed.rows \subseteq embed.values
    /\ IF Attachable
       THEN /\ column' = TRUE
            /\ embedded' = Appended \cap embed.values
            /\ embed' = [embed EXCEPT !.at = "clean"]
       ELSE embed' = NoEmbed /\ UNCHANGED <<column, embedded>>
    /\ UNCHANGED <<chunkVars, kills, fillVars, extractVars, sidecar, torn>>

EmbedCleans ==
    /\ embed.at = "clean"
    /\ sidecar' = {} /\ embed' = NoEmbed
    /\ UNCHANGED <<chunkVars, kills, fillVars, extractVars, embedded, column, torn>>

-----------------------------------------------------------------------------
(* A run that dies, or fails on a model server or on the store.            *)

Killed == kills < MaxKills /\ kills' = kills + 1

KillIngest ==
    /\ ingest.at # "idle" /\ Killed
    /\ ingest' = [at |-> "idle", doc |-> {}, text |-> NoText]
    /\ UNCHANGED <<chunks, documents, ingests, fillVars, extractVars, embedVars>>

KillFill ==
    /\ fill # Resting /\ Killed
    /\ fill' = Resting
    /\ UNCHANGED <<chunkVars, overlapped, extractVars, embedVars>>

KillExtract ==
    /\ extract # Resting /\ Killed
    /\ extract' = Resting
    /\ UNCHANGED <<chunkVars, fillVars, output, embedVars>>

\* A kill in the middle of a write to the checkpoint leaves half a line.
KillEmbed ==
    /\ embed # NoEmbed /\ Killed
    /\ embed' = NoEmbed
    /\ torn' \in {torn, torn \/ embed.rows \ embed.values # {}}
    /\ UNCHANGED <<chunkVars, fillVars, extractVars, embedded, column, sidecar>>

StagesNext ==
    \/ \E d \in Documents : IngestStarts(d) \/ IngestAdds(d) \/ IngestDescribes(d)
    \/ FillReads \/ FillMerges
    \/ ExtractReads \/ ExtractAppends
    \/ EmbedReads \/ EmbedComputes \/ EmbedAttaches \/ EmbedCleans
    \/ KillIngest \/ KillFill \/ KillExtract \/ KillEmbed

-----------------------------------------------------------------------------
\* However often ingests and scan stages are killed and run again, a value was
\* derived from the text it stands beside; the one exception is a document that
\* was replaced while a stage was at work on it.
DerivedFromItsText ==
    \A d \in Documents :
        chunks[d].value # NoText /\ d \notin overlapped => chunks[d].value = chunks[d].text

\* An append stage that is killed and run again appends no row a second time.
NoRowTwice == \A r \in Rows : output[r] <= 1

\* driver.py: a killed append stage that is run again converges.
AppendConverges ==
    extract = Resting /\ Undone = {} =>
        \A d \in documents, p \in Parts : output[<<d, p>>] > 0

=============================================================================
