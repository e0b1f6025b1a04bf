---------------------------- MODULE Pipeline_proofs ----------------------------
(***************************************************************************)
(* What the media pipeline promises of reruns and of what is read while    *)
(* they write, proved for any numbers of documents, parts, callers, kills, *)
(* ingests, runs, recordings, chunks, builds, folds and requests.          *)
(***************************************************************************)
EXTENDS Pipeline, SequenceTheorems, FiniteSetTheorems, WellFoundedInduction, TLAPS

USE DEF stageVars, chunkVars, fillVars, extractVars, embedVars, runnerVars, voiceVars, mapVars, kgVars

-----------------------------------------------------------------------------
(* The append stage.                                                       *)

\* What a run of the append stage still has to append is not in the output.
ExtractInv ==
    /\ output \in [Rows -> Nat]
    /\ extract.todo \subseteq Rows
    /\ \A r \in extract.todo : output[r] = 0
    /\ NoRowTwice

\* No step of the stages appends a row that is in the output.
LEMMA ExtractStep == ASSUME ExtractInv, StagesNext PROVE ExtractInv'
<1>1. CASE ExtractReads
  <2>1. Undone \subseteq Rows /\ \A r \in Undone : output[r] = 0
    <3> SUFFICES ASSUME NEW r \in Undone PROVE r \in Rows /\ output[r] = 0
      OBVIOUS
    <3>1. r \in Rows /\ \A p \in Parts : output[<<r[1], p>>] = 0
      BY DEF Undone
    <3>2. r[2] \in Parts /\ r = <<r[1], r[2]>>
      BY <3>1 DEF Rows
    <3>3. QED BY <3>1, <3>2
  <2>2. extract'.todo = Undone /\ output' = output
    BY <1>1 DEF ExtractReads
  <2>3. QED BY <2>1, <2>2 DEF ExtractInv, NoRowTwice
<1>2. CASE ExtractAppends
  <2>1. ASSUME NEW batch \in (SUBSET extract.todo) \ {{}},
               output' = [r \in Rows |-> IF r \in batch THEN output[r] + 1 ELSE output[r]],
               extract' = IF extract.todo = batch THEN Resting
                          ELSE [extract EXCEPT !.todo = @ \ batch]
        PROVE  ExtractInv'
    <3>1. extract'.todo = {} \/ extract'.todo = extract.todo \ batch
      BY <1>2, <2>1 DEF Resting
    <3>2. \A r \in Rows : output'[r] \in Nat /\ output'[r] <= 1
      BY <2>1 DEF ExtractInv, NoRowTwice
    <3>3. \A r \in extract'.todo : r \in Rows /\ output'[r] = 0
      BY <2>1, <3>1 DEF ExtractInv
    <3>4. output' \in [Rows -> Nat]
      BY <2>1, <3>2 DEF ExtractInv
    <3>5. Rows' = Rows
      BY DEF Rows
    <3>6. QED BY <3>2, <3>3, <3>4, <3>5 DEF ExtractInv, NoRowTwice
  <2>2. ASSUME NEW d \in Documents, UNCHANGED output,
               extract' = IF extract.todo = {d} \X Parts THEN Resting
                          ELSE [extract EXCEPT !.todo = @ \ ({d} \X Parts)]
        PROVE  ExtractInv'
    <3>1. extract'.todo \subseteq extract.todo
      BY <1>2, <2>2 DEF Resting
    <3>2. QED BY <2>2, <3>1 DEF ExtractInv, NoRowTwice, Rows
  <2>3. QED BY <1>2, <2>1, <2>2 DEF ExtractAppends
<1>3. CASE KillExtract
  BY <1>3 DEF KillExtract, ExtractInv, NoRowTwice, Rows, Resting
<1>4. ASSUME UNCHANGED extractVars PROVE ExtractInv'
  BY <1>4 DEF ExtractInv, NoRowTwice, Rows
<1>5. QED
  BY <1>1, <1>2, <1>3, <1>4 DEF StagesNext, IngestStarts, IngestAdds, IngestDescribes,
     FillReads, FillMerges, EmbedReads, EmbedComputes, EmbedAttaches, EmbedCleans,
     KillIngest, KillFill, KillEmbed

\* driver.py's anti-join: an append stage that is killed and run again, however
\* often, appends no row a second time.
THEOREM AppendsOnce == Spec => []NoRowTwice
<1>1. Init => ExtractInv
  BY DEF Init, StagesInit, ExtractInv, NoRowTwice, Resting, Rows
<1>2. ExtractInv /\ [Next]_vars => ExtractInv'
  <2> SUFFICES ASSUME ExtractInv, [Next]_vars PROVE ExtractInv'
    OBVIOUS
  <2>1. CASE StagesNext
    BY <2>1, ExtractStep
  <2>2. CASE UNCHANGED stageVars
    BY <2>2 DEF ExtractInv, NoRowTwice, Rows
  <2>3. QED BY <2>1, <2>2 DEF Next, vars
<1>3. ExtractInv => NoRowTwice
  BY DEF ExtractInv
<1>4. QED BY <1>1, <1>2, <1>3, PTL DEF Spec

-----------------------------------------------------------------------------
(* The scan stage.                                                         *)

\* A batch that a scan stage has yet to merge was derived from the text that is
\* there, unless the document was replaced since; a document whose new chunk is
\* yet to be added has none, and is overlapped if the batch holds it.
FillInv ==
    /\ DOMAIN chunks = Documents
    /\ \A d \in Documents : chunks[d] = [text |-> chunks[d].text, value |-> chunks[d].value]
    /\ ingest = [at |-> ingest.at, doc |-> ingest.doc, text |-> ingest.text]
    /\ DerivedFromItsText
    /\ \A r \in fill.todo :
          r.doc \in Documents /\ (r.doc \notin overlapped => r.text = chunks[r.doc].text)
    /\ ingest.at = "add" =>
          \A d \in ingest.doc \cap Documents :
             /\ chunks[d] = NoChunk
             /\ \A r \in fill.todo : r.doc = d => d \in overlapped

LEMMA FillStep == ASSUME FillInv, StagesNext PROVE FillInv'
<1>1. ASSUME NEW d \in Documents, IngestStarts(d) PROVE FillInv'
  <2>1. /\ chunks' = [chunks EXCEPT ![d] = NoChunk] /\ fill' = fill
        /\ ingest' = [at |-> "add", doc |-> {d}, text |-> ingests + 1]
    BY <1>1 DEF IngestStarts
  <2>2. \A r \in fill.todo : r.doc = d => d \in overlapped'
    BY <1>1 DEF IngestStarts
  <2>3. \A e \in Documents \ {d} : e \in overlapped' <=> e \in overlapped
    BY <1>1 DEF IngestStarts
  <2>4. QED BY <2>1, <2>2, <2>3 DEF FillInv, DerivedFromItsText, NoChunk, NoText
<1>2. ASSUME NEW d \in Documents, IngestAdds(d) PROVE FillInv'
  <2>1. /\ ingest.at = "add" /\ d \in ingest.doc
        /\ ingest' = [at |-> "replace", doc |-> ingest.doc, text |-> ingest.text]
        /\ chunks' = [chunks EXCEPT ![d] = Aligned(d, ingest.text)]
        /\ UNCHANGED <<fill, overlapped>>
    BY <1>2 DEF IngestAdds, FillInv
  <2>2. QED BY <2>1 DEF FillInv, DerivedFromItsText, Aligned, NoText
<1>3. ASSUME NEW d \in Documents, IngestDescribes(d) PROVE FillInv'
  <2>1. /\ ingest'.at # "add"
        /\ ingest' = [at |-> ingest'.at, doc |-> ingest'.doc, text |-> ingest'.text]
        /\ UNCHANGED <<chunks, fill, overlapped>>
    BY <1>3 DEF IngestDescribes, FillInv
  <2>2. QED BY <2>1 DEF FillInv, DerivedFromItsText
<1>4. CASE FillReads
  <2>1. fill'.todo = Pending /\ UNCHANGED <<chunks, ingest, overlapped>>
    BY <1>4 DEF FillReads
  <2>2. \A r \in Pending :
           r.doc \in Documents /\ r.text = chunks[r.doc].text /\ r.text # NoText
    BY DEF Pending
  <2>3. QED BY <2>1, <2>2 DEF FillInv, DerivedFromItsText, NoChunk
<1>5. CASE FillMerges
  <2>1. PICK r \in fill.todo :
          /\ chunks' = [chunks EXCEPT ![r.doc].value =
                           IF chunks[r.doc] = NoChunk THEN @ ELSE r.text]
          /\ fill' = IF fill.todo = {r} THEN Resting ELSE [fill EXCEPT !.todo = @ \ {r}]
    BY <1>5 DEF FillMerges
  <2>2. fill'.todo \subseteq fill.todo /\ UNCHANGED <<ingest, overlapped>>
    BY <1>5, <2>1 DEF FillMerges, Resting
  <2>3. r.doc \in Documents
    BY DEF FillInv
  <2>4. /\ DOMAIN chunks' = Documents
        /\ \A d \in Documents \ {r.doc} : chunks'[d] = chunks[d]
    BY <2>1 DEF FillInv
  <2>5. /\ chunks'[r.doc] = [text |-> chunks'[r.doc].text, value |-> chunks'[r.doc].value]
        /\ chunks'[r.doc].text = chunks[r.doc].text
        /\ chunks'[r.doc].value = IF chunks[r.doc] = NoChunk THEN chunks[r.doc].value ELSE r.text
        /\ chunks[r.doc] = NoChunk => chunks'[r.doc] = NoChunk
    <3> DEFINE c == chunks[r.doc]
               v == IF c = NoChunk THEN c.value ELSE r.text
    <3>1. c = [text |-> c.text, value |-> c.value]
      BY <2>3 DEF FillInv
    <3>2. chunks'[r.doc] = [c EXCEPT !.value = v]
      BY <2>1, <2>3 DEF FillInv
    <3> HIDE DEF c, v
    <3>3. [c EXCEPT !.value = v] = [text |-> c.text, value |-> v]
      BY <3>1
    <3>4. QED BY <3>1, <3>2, <3>3 DEF c, v, NoChunk
  <2>6. QED BY <2>2, <2>3, <2>4, <2>5 DEF FillInv, DerivedFromItsText
<1>6. CASE KillIngest
  BY <1>6 DEF KillIngest, FillInv, DerivedFromItsText
<1>7. CASE KillFill
  BY <1>7 DEF KillFill, FillInv, DerivedFromItsText, Resting
<1>8. ASSUME UNCHANGED <<chunkVars, fillVars>> PROVE FillInv'
  BY <1>8 DEF FillInv, DerivedFromItsText
<1>9. QED
  BY <1>1, <1>2, <1>3, <1>4, <1>5, <1>6, <1>7, <1>8 DEF StagesNext, ExtractReads,
     ExtractAppends, EmbedReads, EmbedComputes, EmbedAttaches, EmbedCleans,
     KillExtract, KillEmbed

\* The scan stage's merge on the row's key: a derived value stands beside the text
\* it was derived from, unless the document was replaced while the stage worked.
THEOREM ValuesMatchTexts == Spec => []DerivedFromItsText
<1>1. Init => FillInv
  BY DEF Init, StagesInit, FillInv, DerivedFromItsText, Resting, NoChunk, NoText
<1>2. FillInv /\ [Next]_vars => FillInv'
  <2> SUFFICES ASSUME FillInv, [Next]_vars PROVE FillInv'
    OBVIOUS
  <2>1. CASE StagesNext
    BY <2>1, FillStep
  <2>2. CASE UNCHANGED stageVars
    BY <2>2 DEF FillInv, DerivedFromItsText
  <2>3. QED BY <2>1, <2>2 DEF Next, vars
<1>3. FillInv => DerivedFromItsText
  BY DEF FillInv
<1>4. QED BY <1>1, <1>2, <1>3, PTL DEF Spec

-----------------------------------------------------------------------------
(* The runners' jobs.                                                      *)

\* The run that has the name is the last one.  A request that came when the last
\* run was over stays in that state until another starts; one that waits does so
\* for a run that was not over when it came.
RunsInv ==
    /\ started \in Nat
    /\ run = NoRun \/ (run.state # "none" /\ run.number = started /\ started > 0)
    /\ DOMAIN caller = Callers
    /\ \A c \in Callers :
          /\ caller[c] = [at |-> caller[c].at, since |-> caller[c].since,
                          answer |-> caller[c].answer]
          /\ caller[c].since \in Nat /\ caller[c].since <= started
          /\ caller[c].at # "away" /\ caller[c].since = started =>
                run = NoRun \/ run.state \in Terminal
          /\ caller[c].at = "await" => caller[c].since < started
    /\ AnsweredAfresh

LEMMA RunsStep == ASSUME RunsInv, RunnersNext PROVE RunsInv'
<1> USE DEF RunsInv, AnsweredAfresh
<1>1. ASSUME NEW c \in Callers, RunRunner(c) PROVE RunsInv'
  BY <1>1 DEF RunRunner, Over, Away, NoRun, Terminal
<1>2. ASSUME NEW c \in Callers, Submit(c) PROVE RunsInv'
  BY <1>2 DEF Submit, Launch, CallerGoto, NoRun, Terminal
<1>3. ASSUME NEW c \in Callers, ReadStatus(c) PROVE RunsInv'
  BY <1>3 DEF ReadStatus, Attach, CallerGoto
<1>4. ASSUME NEW c \in Callers, DeleteJob(c) PROVE RunsInv'
  BY <1>4 DEF DeleteJob, CallerGoto
<1>5. ASSUME NEW c \in Callers, Resubmit(c) PROVE RunsInv'
  BY <1>5 DEF Resubmit, Launch, CallerGoto, NoRun, Terminal
<1>6. ASSUME NEW c \in Callers, AwaitRun(c) PROVE RunsInv'
  BY <1>6 DEF AwaitRun, CallerGoto, NoRun
<1>7. ASSUME NEW c \in Callers, Leave(c) PROVE RunsInv'
  BY <1>7 DEF Leave, Away
<1>8. CASE WorkerEnds
  BY <1>8 DEF WorkerEnds, Terminal, NoRun
<1>9. QED BY <1>1, <1>2, <1>3, <1>4, <1>5, <1>6, <1>7, <1>8 DEF RunnersNext

\* jobs.py's delete and submit again: a request is answered by a run that was
\* not over when it came, however many callers delete and submit at once.
THEOREM BuildsAreFresh == Spec => []AnsweredAfresh
<1>1. Init => RunsInv
  BY DEF Init, RunnersInit, RunsInv, AnsweredAfresh, Away
<1>2. RunsInv /\ [Next]_vars => RunsInv'
  <2> SUFFICES ASSUME RunsInv, [Next]_vars PROVE RunsInv'
    OBVIOUS
  <2>1. CASE RunnersNext
    BY <2>1, RunsStep
  <2>2. CASE UNCHANGED runnerVars
    BY <2>2 DEF RunsInv, AnsweredAfresh
  <2>3. QED BY <2>1, <2>2 DEF Next, vars
<1>3. RunsInv => AnsweredAfresh
  BY DEF RunsInv
<1>4. QED BY <1>1, <1>2, <1>3, PTL DEF Spec

-----------------------------------------------------------------------------
(* The voices.                                                             *)

\* The commands that write turns or voices, recording by recording.
Listing(kind, table) ==
    [kind : {kind}, table : {table}, todo : SUBSET Recordings, create : BOOLEAN]

Listings == Listing("extract", "turns") \cup Listing("embed", "voices")

\* A command at work lists recordings that have nothing yet of what it writes, and
\* is the only one of its kind.
VoicesInv ==
    /\ turns \in [Recordings -> Nat]
    /\ voices \in [Recordings -> {<<>>} \cup {<<part>> : part \in KeptTurns}]
    /\ \A c \in commands : c.kind \in {"extract", "embed"} => c \in Listings
    /\ \A c \in commands : c.kind = "extract" => \A r \in c.todo : turns[r] = 0
    /\ \A c \in commands : c.kind = "embed" => \A r \in c.todo : voices[r] = <<>>
    /\ \A c, d \in commands : c.kind = d.kind => c = d
    /\ \A r \in Recordings : turns[r] <= 1

\* What the invariant says of the commands.
CommandsFit(cs, ts, vs) ==
    /\ \A c \in cs : c.kind \in {"extract", "embed"} => c \in Listings
    /\ \A c \in cs : c.kind = "extract" => \A r \in c.todo : ts[r] = 0
    /\ \A c \in cs : c.kind = "embed" => \A r \in c.todo : vs[r] = <<>>
    /\ \A c, d \in cs : c.kind = d.kind => c = d

\* A command that has done one more recording lists the others.
LEMMA CommandGoesOn ==
    ASSUME VoicesInv, NEW c \in commands, c.kind \in {"extract", "embed"}, NEW r \in c.todo,
           Advances(c, r) \/ Writes(c, r)
    PROVE  \A d \in commands' :
              \/ d \in commands /\ d # c
              \/ d \in Listings /\ d.kind = c.kind /\ d.todo = c.todo \ {r}
                 /\ \A e \in commands' : e.kind = d.kind => e = d
<1>1. c \in Listings
  BY DEF VoicesInv
<1>2. PICK left : left = [c EXCEPT !.todo = @ \ {r}]
  OBVIOUS
<1>3. PICK appending : appending = [c EXCEPT !.todo = @ \ {r}, !.create = FALSE]
  OBVIOUS
<1>4. /\ left \in Listings /\ left.kind = c.kind /\ left.todo = c.todo \ {r}
      /\ appending \in Listings /\ appending.kind = c.kind /\ appending.todo = c.todo \ {r}
  BY <1>1, <1>2, <1>3 DEF Listings, Listing
<1>5. PICK one \in {left, appending} : \A d \in commands' : d \in commands \ {c} \/ d = one
  BY <1>2, <1>3 DEF Advances, Writes
<1>6. \A e \in commands \ {c} : e.kind # c.kind
  BY DEF VoicesInv
<1>7. QED BY <1>4, <1>5, <1>6

\* A command that begins is the only one of its kind.
LEMMA CommandBegins ==
    ASSUME VoicesInv, NEW c, Starts(c)
    PROVE  /\ commands' = commands \cup {c}
           /\ \A d \in commands : d.kind # c.kind
BY DEF Starts, Working

\* No step of the commands, and none of the viewer's, voices a recording twice.
LEMMA VoicesStep == ASSUME VoicesInv, VoicesNext PROVE VoicesInv'
<1>1. CASE ExtractSpeakerTurns
  <2>1. PICK all, kept :
            /\ all \in BOOLEAN
            /\ kept = IF all THEN [r \in Recordings |-> 0] ELSE turns
            /\ turns' = kept
            /\ UNCHANGED voices
            /\ \E todo \in SUBSET {r \in Recordings : kept[r] = 0} :
                  IF todo = {} THEN UNCHANGED commands
                  ELSE Starts([kind |-> "extract", table |-> "turns", todo |-> todo,
                               create |-> "turns" \notin tables'])
    BY <1>1 DEF ExtractSpeakerTurns
  <2>2. /\ turns' \in [Recordings -> Nat]
        /\ \A r \in Recordings : turns'[r] <= 1 /\ (turns[r] = 0 => turns'[r] = 0)
    BY <2>1 DEF VoicesInv
  <2>3. CommandsFit(commands', turns', voices')
    <3>1. PICK todo \in SUBSET {r \in Recordings : turns'[r] = 0} :
              IF todo = {} THEN UNCHANGED commands
              ELSE Starts([kind |-> "extract", table |-> "turns", todo |-> todo,
                           create |-> "turns" \notin tables'])
      BY <2>1
    <3>2. CommandsFit(commands, turns', voices')
      BY <2>1, <2>2 DEF VoicesInv, CommandsFit, Listings, Listing
    <3>3. PICK c : c = [kind |-> "extract", table |-> "turns", todo |-> todo,
                        create |-> "turns" \notin tables']
      OBVIOUS
    <3>4. c \in Listings /\ c.kind = "extract" /\ c.todo = todo
      BY <3>3 DEF Listings, Listing
    <3>5. CASE Starts(c)
      <4>1. commands' = commands \cup {c} /\ \A d \in commands : d.kind # c.kind
        BY <3>5, CommandBegins
      <4>2. QED BY <3>2, <3>4, <4>1 DEF CommandsFit
    <3>6. QED BY <3>1, <3>2, <3>3, <3>5
  <2>4. QED BY <2>1, <2>2, <2>3 DEF VoicesInv, CommandsFit, Listings, Listing, KeptTurns
<1>2. CASE WriteSpeakerTurns
  <2>1. PICK c, r :
            /\ c \in commands /\ r \in c.todo
            /\ c.kind = "extract"
            /\ \/ /\ turns' = [s \in Recordings |-> IF s = r THEN (IF c.create THEN 1 ELSE turns[s] + 1)
                                                    ELSE IF c.create THEN 0 ELSE turns[s]]
                  /\ Writes(c, r)
               \/ Advances(c, r) /\ UNCHANGED <<turns, tables>>
            /\ UNCHANGED voices
    BY <1>2 DEF WriteSpeakerTurns
  <2>2. c \in Listings /\ r \in Recordings /\ turns[r] = 0
    BY <2>1 DEF VoicesInv, Listings, Listing
  <2>3. \A d \in commands' :
              \/ d \in commands /\ d # c
              \/ d \in Listings /\ d.kind = c.kind /\ d.todo = c.todo \ {r}
                 /\ \A e \in commands' : e.kind = d.kind => e = d
    BY <2>1, CommandGoesOn
  <2>4. /\ turns' \in [Recordings -> Nat]
        /\ \A s \in Recordings : turns'[s] <= 1 /\ (turns[s] = 0 /\ s # r => turns'[s] = 0)
    BY <2>1, <2>2 DEF VoicesInv, Listings, Listing
  <2>5. \A d \in commands' : d.kind = "extract" => \A s \in d.todo : turns'[s] = 0
    <3> SUFFICES ASSUME NEW d \in commands', d.kind = "extract", NEW s \in d.todo PROVE turns'[s] = 0
      OBVIOUS
    <3>1. d \in Listings /\ d.todo = c.todo \ {r}
      BY <2>1, <2>3 DEF VoicesInv
    <3>2. s \in Recordings /\ s \in c.todo /\ s # r
      BY <3>1, <2>2 DEF Listings, Listing
    <3>3. turns[s] = 0
      BY <2>1, <3>2 DEF VoicesInv
    <3>4. QED BY <2>4, <3>2, <3>3
  <2>6. \A d \in commands' : d.kind = "embed" => \A s \in d.todo : voices'[s] = <<>>
    BY <2>1, <2>3 DEF VoicesInv
  <2>7. \A d \in commands' : d.kind \in {"extract", "embed"} => d \in Listings
    BY <2>3 DEF VoicesInv
  <2>8. \A d, e \in commands' : d.kind = e.kind => d = e
    <3> SUFFICES ASSUME NEW d \in commands', NEW e \in commands', d.kind = e.kind PROVE d = e
      OBVIOUS
    <3>1. CASE d \in commands /\ e \in commands
      BY <3>1 DEF VoicesInv
    <3>2. QED BY <2>3, <3>1
  <2>9. QED BY <2>1, <2>4, <2>5, <2>6, <2>7, <2>8 DEF VoicesInv, Listings, Listing, KeptTurns
<1>3. CASE EmbedSpeakerTurns
  <2>1. PICK all, kept :
            /\ all \in BOOLEAN
            /\ kept = IF all THEN [r \in Recordings |-> <<>>] ELSE voices
            /\ voices' = kept
            /\ UNCHANGED turns
            /\ \E todo \in SUBSET Unvoiced(kept) :
                  IF todo = {} THEN UNCHANGED commands
                  ELSE Starts([kind |-> "embed", table |-> "voices", todo |-> todo,
                               create |-> "voices" \notin tables'])
    BY <1>3 DEF EmbedSpeakerTurns
  <2>2. /\ voices' \in [Recordings -> {<<>>} \cup {<<part>> : part \in KeptTurns}]
        /\ \A r \in Recordings : voices[r] = <<>> => voices'[r] = <<>>
    BY <2>1 DEF VoicesInv
  <2>3. CommandsFit(commands', turns', voices')
    <3>1. PICK todo \in SUBSET {r \in Recordings : voices'[r] = <<>>} :
              IF todo = {} THEN UNCHANGED commands
              ELSE Starts([kind |-> "embed", table |-> "voices", todo |-> todo,
                           create |-> "voices" \notin tables'])
      BY <2>1 DEF Unvoiced
    <3>2. CommandsFit(commands, turns', voices')
      BY <2>1, <2>2 DEF VoicesInv, CommandsFit, Listings, Listing
    <3>3. PICK c : c = [kind |-> "embed", table |-> "voices", todo |-> todo,
                        create |-> "voices" \notin tables']
      OBVIOUS
    <3>4. c \in Listings /\ c.kind = "embed" /\ c.todo = todo
      BY <3>3 DEF Listings, Listing
    <3>5. CASE Starts(c)
      <4>1. commands' = commands \cup {c} /\ \A d \in commands : d.kind # c.kind
        BY <3>5, CommandBegins
      <4>2. QED BY <3>2, <3>4, <4>1 DEF CommandsFit
    <3>6. QED BY <3>1, <3>2, <3>3, <3>5
  <2>4. QED BY <2>1, <2>2, <2>3 DEF VoicesInv, CommandsFit, Listings, Listing, KeptTurns
<1>4. CASE WriteSpeakerEmbeddings
  <2>1. PICK c, r :
            /\ c \in commands /\ r \in c.todo
            /\ c.kind = "embed"
            /\ \/ /\ \E part \in KeptTurns :
                        voices' = [s \in Recordings |->
                                      IF s = r THEN (IF c.create THEN <<part>> ELSE Append(voices[s], part))
                                      ELSE IF c.create THEN <<>> ELSE voices[s]]
                  /\ Writes(c, r)
               \/ Advances(c, r) /\ UNCHANGED <<voices, tables>>
            /\ UNCHANGED turns
    BY <1>4 DEF WriteSpeakerEmbeddings
  <2>2. c \in Listings /\ r \in Recordings /\ voices[r] = <<>>
    BY <2>1 DEF VoicesInv, Listings, Listing
  <2>3. \A d \in commands' :
              \/ d \in commands /\ d # c
              \/ d \in Listings /\ d.kind = c.kind /\ d.todo = c.todo \ {r}
                 /\ \A e \in commands' : e.kind = d.kind => e = d
    BY <2>1, CommandGoesOn
  <2>4. /\ voices' \in [Recordings -> {<<>>} \cup {<<part>> : part \in KeptTurns}]
        /\ \A s \in Recordings : voices[s] = <<>> /\ s # r => voices'[s] = <<>>
    <3>1. ASSUME NEW part \in KeptTurns PROVE Append(<<>>, part) = <<part>>
      OBVIOUS
    <3>2. CASE UNCHANGED voices
      BY <3>2 DEF VoicesInv
    <3>3. ASSUME NEW part \in KeptTurns,
                 voices' = [s \in Recordings |->
                               IF s = r THEN (IF c.create THEN <<part>> ELSE Append(voices[s], part))
                               ELSE IF c.create THEN <<>> ELSE voices[s]]
          PROVE  /\ voices' \in [Recordings -> {<<>>} \cup {<<p>> : p \in KeptTurns}]
                 /\ \A s \in Recordings : voices[s] = <<>> /\ s # r => voices'[s] = <<>>
      <4>1. ASSUME NEW s \in Recordings
            PROVE  /\ voices'[s] \in {<<>>} \cup {<<p>> : p \in KeptTurns}
                   /\ voices[s] = <<>> /\ s # r => voices'[s] = <<>>
        <5>1. CASE s = r
          <6>1. voices'[s] = IF c.create THEN <<part>> ELSE Append(voices[r], part)
            BY <3>3, <5>1
          <6>2. voices'[s] = <<part>>
            BY <6>1, <3>1, <2>2
          <6>3. QED BY <6>2, <5>1
        <5>2. CASE s # r
          <6>1. voices'[s] = IF c.create THEN <<>> ELSE voices[s]
            BY <3>3, <5>2
          <6>2. voices[s] \in {<<>>} \cup {<<p>> : p \in KeptTurns}
            BY DEF VoicesInv
          <6>3. QED BY <6>1, <6>2
        <5>3. QED BY <5>1, <5>2
      <4>2. voices' = [s \in Recordings |-> voices'[s]]
        BY <3>3
      <4>3. QED BY <4>1, <4>2
    <3>4. QED BY <2>1, <3>2, <3>3
  <2>5. \A d \in commands' : d.kind = "embed" => \A s \in d.todo : voices'[s] = <<>>
    <3> SUFFICES ASSUME NEW d \in commands', d.kind = "embed", NEW s \in d.todo PROVE voices'[s] = <<>>
      OBVIOUS
    <3>1. d \in Listings /\ d.todo = c.todo \ {r}
      BY <2>1, <2>3 DEF VoicesInv
    <3>2. s \in Recordings /\ s \in c.todo /\ s # r
      BY <3>1, <2>2 DEF Listings, Listing
    <3>3. voices[s] = <<>>
      BY <2>1, <3>2 DEF VoicesInv
    <3>4. QED BY <2>4, <3>2, <3>3
  <2>6. \A d \in commands' : d.kind = "extract" => \A s \in d.todo : turns'[s] = 0
    BY <2>1, <2>3 DEF VoicesInv
  <2>7. \A d \in commands' : d.kind \in {"extract", "embed"} => d \in Listings
    BY <2>3 DEF VoicesInv
  <2>8. \A d, e \in commands' : d.kind = e.kind => d = e
    <3> SUFFICES ASSUME NEW d \in commands', NEW e \in commands', d.kind = e.kind PROVE d = e
      OBVIOUS
    <3>1. CASE d \in commands /\ e \in commands
      BY <3>1 DEF VoicesInv
    <3>2. QED BY <2>3, <3>1
  <2>9. QED BY <2>1, <2>4, <2>5, <2>6, <2>7, <2>8 DEF VoicesInv, Listings, Listing, KeptTurns
<1>5. ASSUME UNCHANGED <<turns, voices>>,
             \/ commands' \subseteq commands
             \/ \E c : Starts(c) /\ c.kind \in {"build", "cluster"}
      PROVE  VoicesInv'
  <2>1. CommandsFit(commands, turns, voices)
    BY DEF VoicesInv, CommandsFit
  <2>2. CommandsFit(commands', turns, voices)
    <3>1. ASSUME NEW c, Starts(c), c.kind \in {"build", "cluster"}
          PROVE  CommandsFit(commands', turns, voices)
      <4>1. commands' = commands \cup {c} /\ \A d \in commands : d.kind # c.kind
        BY <3>1, CommandBegins
      <4>2. c.kind \notin {"extract", "embed"}
        BY <3>1
      <4>3. QED BY <2>1, <4>1, <4>2 DEF CommandsFit
    <3>2. QED BY <1>5, <2>1, <3>1 DEF CommandsFit
  <2>3. QED BY <1>5, <2>2 DEF VoicesInv, CommandsFit, Listings, Listing, KeptTurns
<1>6. CASE BuildSpeakers
  <2>1. ASSUME NEW built \in (SUBSET Voiced) \ {{}},
               Starts([kind |-> "build", todo |-> [r \in Recordings |->
                          IF r \in built THEN Noise ELSE Absent]]),
               UNCHANGED <<turns, voices>>
        PROVE  VoicesInv'
    <3>1. PICK c : c = [kind |-> "build", todo |-> [r \in Recordings |->
                           IF r \in built THEN Noise ELSE Absent]]
      OBVIOUS
    <3>2. c.kind = "build" /\ Starts(c)
      BY <2>1, <3>1
    <3>3. QED BY <1>5, <2>1, <3>2
  <2>2. QED BY <1>5, <1>6, <2>1 DEF BuildSpeakers
<1>7. CASE ClusterSpeakers
  <2>1. ASSUME NEW given \in IdentityLayer,
               Starts([kind |-> "cluster", todo |-> [r \in Recordings |->
                          IF speakers[r] = Absent THEN Absent ELSE given[r]]]),
               UNCHANGED <<turns, voices>>
        PROVE  VoicesInv'
    <3>1. PICK c : c = [kind |-> "cluster", todo |-> [r \in Recordings |->
                           IF speakers[r] = Absent THEN Absent ELSE given[r]]]
      OBVIOUS
    <3>2. c.kind = "cluster" /\ Starts(c)
      BY <2>1, <3>1
    <3>3. QED BY <1>5, <2>1, <3>2
  <2>2. QED BY <1>5, <1>7, <2>1 DEF ClusterSpeakers
<1>8. CASE StopCommand
  BY <1>5, <1>8 DEF StopCommand
<1>9. CASE \E r \in Recordings : SpeakerIdentity(r) \/ ResolveAnchor(r)
  BY <1>5, <1>9 DEF SpeakerIdentity, ResolveAnchor, ViewerGoto
<1>10. CASE ReadMembers \/ SimilarVoicesForUpload \/ RankSimilarTurns \/ AttachSpeakerClusters \/ Answered
  BY <1>5, <1>10 DEF ReadMembers, SimilarVoicesForUpload, RankSimilarTurns, AttachSpeakerClusters,
                     Answered, ViewerGoto
<1>11. QED BY <1>1, <1>2, <1>3, <1>4, <1>6, <1>7, <1>8, <1>9, <1>10 DEF VoicesNext

\* Whichever commands run, with --all or without, and wherever they are stopped, each
\* recording has its turns once and its voices once.
THEOREM NoneVoicedTwice == Spec => []VoicedOnce
<1>1. Init => VoicesInv
  BY DEF Init, VoicesInit, VoicesInv
<1>2. VoicesInv /\ [Next]_vars => VoicesInv'
  <2> SUFFICES ASSUME VoicesInv, [Next]_vars PROVE VoicesInv'
    OBVIOUS
  <2>1. CASE VoicesNext
    BY <2>1, VoicesStep
  <2>2. CASE UNCHANGED voiceVars
    BY <2>2 DEF VoicesInv, Listings, Listing, KeptTurns
  <2>3. QED BY <2>1, <2>2 DEF Next, vars
<1>3. VoicesInv => VoicedOnce
  <2> SUFFICES ASSUME VoicesInv, NEW r \in Recordings PROVE turns[r] <= 1 /\ Len(voices[r]) <= 1
    BY DEF VoicedOnce
  <2>1. voices[r] = <<>> \/ \E part \in KeptTurns : voices[r] = <<part>>
    BY DEF VoicesInv
  <2>2. Len(<<>>) = 0 /\ \A part : Len(<<part>>) = 1
    OBVIOUS
  <2>3. Len(voices[r]) <= 1
    <3>1. PICK n : n = Len(voices[r])
      OBVIOUS
    <3>2. n = 0 \/ n = 1
      BY <2>1, <2>2, <3>1, Zenon
    <3>3. n <= 1
      BY <3>2
    <3>4. QED BY <3>1, <3>3, Zenon
  <2>4. QED BY <2>3 DEF VoicesInv
<1>4. QED BY <1>1, <1>2, <1>3, PTL DEF Spec

-----------------------------------------------------------------------------
(* The topics.                                                             *)

\* The layers that are there are of one build, and none is there when a command is
\* about to add its own.
TopicsInv ==
    /\ topics \in [1..MaxLayers -> Nat]
    /\ builds \in Nat
    /\ naming \in [at : {"idle", "drop", "add", "tree", "fold"}, build : Nat, layers : Nat,
                   upto : Nat, seen : SUBSET Nat]
    /\ held \in Nat
    /\ \A l, m \in 1..MaxLayers : Missing \in {topics[l], topics[m]} \/ topics[l] = topics[m]
    /\ naming.at = "add" => \A l \in 1..MaxLayers : topics[l] = Missing
    /\ \A a, b \in naming.seen : a = b
    /\ \A a, b \in tree : a = b

\* A set of which any two members are the same has one at most.
LEMMA OneAtMost ==
    ASSUME NEW S, \A a, b \in S : a = b
    PROVE  IsFiniteSet(S) /\ Cardinality(S) <= 1
<1>1. CASE S = {}
  <2>1. IsFiniteSet(S) /\ Cardinality(S) = 0
    BY <1>1, FS_EmptySet
  <2>2. QED BY <2>1
<1>2. CASE S # {}
  <2>1. PICK a : a \in S
    BY <1>2
  <2>2. S = {a}
    BY <2>1
  <2>3. IsFiniteSet(S) /\ Cardinality(S) = 1
    BY <2>2, FS_Singleton
  <2>4. QED BY <2>3
<1>3. QED BY <1>1, <1>2

\* What the layers are left alone by keeps the invariant.
LEMMA LayersKept ==
    ASSUME TopicsInv, UNCHANGED <<topics, naming, tree>>, builds' \in Nat, held' \in Nat
    PROVE  TopicsInv'
BY DEF TopicsInv, Missing

\* As does a command that ends.
LEMMA NamingEnds ==
    ASSUME TopicsInv, naming' = NotNaming, UNCHANGED <<topics, tree>>, builds' \in Nat, held' \in Nat
    PROVE  TopicsInv'
BY DEF TopicsInv, Missing, NotNaming

\* No step of the commands leaves layers of two builds.
LEMMA TopicsStep == ASSUME TopicsInv, MapNext PROVE TopicsInv'
<1> USE MapAssumption
<1>0. builds \in Nat /\ held \in Nat /\ DOMAIN topics = 1..MaxLayers
  BY DEF TopicsInv
<1>1. CASE IngestChunk
  BY <1>0, <1>1, LayersKept DEF IngestChunk
<1>2. CASE EmbedTextColumn
  BY <1>0, <1>2, LayersKept DEF EmbedTextColumn
<1>3. CASE \E s \in Spaces, all \in BOOLEAN : RunAtlas(s, all)
  BY <1>0, <1>3, LayersKept DEF RunAtlas, Projecting, Build
<1>4. CASE ChunkFrameEmbeddingColumn \/ LoadEmbeddingMatrix \/ AttachColumn
  BY <1>0, <1>4, LayersKept DEF ChunkFrameEmbeddingColumn, LoadEmbeddingMatrix, AttachColumn, Projecting
<1>5. CASE RunTopics
  <2>1. PICK n \in 1..MaxLayers :
            naming' = [NotNaming EXCEPT !.at = "drop", !.build = builds + 1, !.layers = n, !.upto = held]
    BY <1>5 DEF RunTopics, Naming
  <2>2. naming' = [at |-> "drop", build |-> builds + 1, layers |-> n, upto |-> held, seen |-> {}]
    BY <2>1 DEF NotNaming
  <2>3. UNCHANGED <<topics, tree, held>> /\ builds' = builds + 1
    BY <1>5 DEF RunTopics, Naming, Build
  <2>4. QED BY <1>0, <2>2, <2>3 DEF TopicsInv, Missing
<1>6. CASE AttachTopics
  <2>1. UNCHANGED <<tree, builds, held>>
    BY <1>6 DEF AttachTopics, Naming
  <2>2. ASSUME naming.at = "drop",
               topics' = [l \in DOMAIN topics |-> IF l \in Existing(naming.layers) THEN Missing ELSE topics[l]],
               naming' = [naming EXCEPT !.at = "add"]
        PROVE  TopicsInv'
    <3>1. topics' \in [1..MaxLayers -> Nat] /\ \A l \in 1..MaxLayers : topics'[l] = Missing
      BY <1>0, <2>2 DEF Existing, Missing
    <3>2. QED BY <1>0, <2>1, <2>2, <3>1 DEF TopicsInv
  <2>3. ASSUME naming.at = "add",
               topics' = [l \in DOMAIN topics |-> IF l <= naming.layers THEN naming.build ELSE topics[l]],
               naming' = [naming EXCEPT !.at = "tree"]
        PROVE  TopicsInv'
    <3>1. \A l \in 1..MaxLayers : topics'[l] \in {naming.build, Missing}
      BY <1>0, <2>3 DEF TopicsInv
    <3>2. topics' \in [1..MaxLayers -> Nat]
      BY <1>0, <2>3, <3>1 DEF TopicsInv
    <3>3. QED BY <1>0, <2>1, <2>3, <3>1, <3>2 DEF TopicsInv
  <2>4. CASE naming' = NotNaming /\ UNCHANGED topics
    BY <1>0, <2>1, <2>4, NamingEnds
  <2>5. QED BY <1>6, <2>2, <2>3, <2>4 DEF AttachTopics, Naming
<1>7. CASE ReadLayers
  <2>1. PICK seen : /\ seen = {topics[l] : l \in {k \in DOMAIN topics : topics[k] # Missing}}
                    /\ naming' = [NotNaming EXCEPT !.at = "fold", !.seen = seen]
    BY <1>7 DEF ReadLayers, Naming
  <2>2. UNCHANGED <<topics, tree, builds, held>>
    BY <1>7 DEF ReadLayers, Naming
  <2>3. \A a, b \in seen : a = b
    BY <1>0, <2>1 DEF TopicsInv
  <2>4. seen \subseteq Nat
    BY <1>0, <2>1 DEF TopicsInv
  <2>5. naming' = [at |-> "fold", build |-> 0, layers |-> 0, upto |-> 0, seen |-> seen]
    BY <2>1 DEF NotNaming
  <2>6. QED BY <1>0, <2>2, <2>3, <2>4, <2>5 DEF TopicsInv
<1>8. CASE BuildTopicTree
  <2>1. tree' = naming.seen /\ naming' = NotNaming /\ UNCHANGED <<topics, builds, held>>
    BY <1>8 DEF BuildTopicTree, Naming
  <2>2. QED BY <1>0, <2>1 DEF TopicsInv, NotNaming
<1>9. CASE DieBuilding
  <2>1. UNCHANGED <<topics, tree, builds, held>> /\ (UNCHANGED naming \/ naming' = NotNaming)
    BY <1>9 DEF DieBuilding
  <2>2. QED BY <1>0, <2>1, LayersKept, NamingEnds
<1>10. QED BY <1>1, <1>2, <1>3, <1>4, <1>5, <1>6, <1>7, <1>8, <1>9 DEF MapNext

\* Whatever number of layers each build has, and wherever it dies, the layers that are
\* there are of one build, and so is the tree.
THEOREM LayersAgree == Spec => []TopicsOfOneBuild
<1>1. Init => TopicsInv
  BY MapAssumption DEF Init, MapInit, TopicsInv, NotNaming, Missing
<1>2. TopicsInv /\ [Next]_vars => TopicsInv'
  <2> SUFFICES ASSUME TopicsInv, [Next]_vars PROVE TopicsInv'
    OBVIOUS
  <2>1. CASE MapNext
    BY <2>1, TopicsStep
  <2>2. CASE UNCHANGED mapVars
    BY <2>2, LayersKept DEF TopicsInv
  <2>3. QED BY <2>1, <2>2 DEF Next, vars
<1>3. TopicsInv => TopicsOfOneBuild
  <2> SUFFICES ASSUME TopicsInv PROVE TopicsOfOneBuild
    OBVIOUS
  <2>1. Cardinality(tree) <= 1
    BY OneAtMost DEF TopicsInv
  <2>2. QED BY <2>1 DEF TopicsInv, TopicsOfOneBuild
<1>4. QED BY <1>1, <1>2, <1>3, PTL DEF Spec

-----------------------------------------------------------------------------
(* What the aliases end in.                                                *)

\* A set of naturals has a least one, if it has any: what holds of 0, and of every
\* number that the one before it has it, holds of all.
LEMMA LeastIn ==
    ASSUME NEW S \in SUBSET Nat, S # {}
    PROVE  \E least \in S : \A n \in S : least <= n
<1> DEFINE Before == {p \in Nat \X Nat : p[1] < p[2]}
<1>1. IsWellFoundedOn(Before, Nat)
  <2>1. OpToRel(<, Nat) = Before
    BY Zenon DEF OpToRel
  <2>2. QED BY <2>1, NatLessThanWellFounded
<1>2. PICK least \in S : \A n \in S : ~(<<n, least>> \in Before)
  BY <1>1, WFMin
<1>3. ASSUME NEW n \in S PROVE least <= n
  <2>1. n \in Nat /\ least \in Nat
    OBVIOUS
  <2>2. ~(n < least)
    BY <1>2, <2>1
  <2>3. QED BY <2>1, <2>2
<1>4. QED BY <1>3

\* The first m aliases of aliases of n.
Chain(alias, n, m, f) ==
    /\ f \in [0..m -> DOMAIN alias]
    /\ f[0] = n
    /\ \A k \in 1..m : f[k] = alias[f[k - 1]]

\* However far they are followed, there they are.
LEMMA ChainThere ==
    ASSUME NEW E, NEW alias \in [E -> E], NEW n \in E, NEW m \in Nat
    PROVE  \E f : Chain(alias, n, m, f)
<1> DEFINE Short == {k \in Nat : ~\E f : Chain(alias, n, k, f)}
<1>1. SUFFICES ASSUME Short # {} PROVE FALSE
  OBVIOUS
<1>2. PICK k \in Short : \A j \in Short : k <= j
  <2>1. Short \in SUBSET Nat
    OBVIOUS
  <2>2. QED BY <1>1, <2>1, LeastIn
<1>3. k # 0
  <2>1. PICK f : f = [j \in 0..0 |-> n]
    OBVIOUS
  <2>2. Chain(alias, n, 0, f)
    BY <2>1 DEF Chain
  <2>3. QED BY <1>2, <2>2
<1>4. k \in Nat /\ k - 1 \in Nat /\ k - 1 \notin Short
  BY <1>2, <1>3
<1>5. PICK f : Chain(alias, n, k - 1, f)
  BY <1>4
<1>6. PICK g : g = [j \in 0..k |-> IF j = k THEN alias[f[k - 1]] ELSE f[j]]
  OBVIOUS
<1>7. /\ f \in [0 .. (k - 1) -> E] /\ f[0] = n
      /\ \A j \in 1 .. (k - 1) : f[j] = alias[f[j - 1]]
  BY <1>5 DEF Chain
<1>8. g[0] = n /\ g[k] = alias[f[k - 1]] /\ \A j \in 0 .. (k - 1) : g[j] = f[j]
  BY <1>3, <1>4, <1>6, <1>7
<1>9. g \in [0..k -> E]
  <2>1. alias[f[k - 1]] \in E
    BY <1>4, <1>7
  <2>2. \A j \in 0..k : j # k => f[j] \in E
    BY <1>4, <1>7
  <2>3. QED BY <1>6, <2>1, <2>2
<1>10. \A j \in 1..k : g[j] = alias[g[j - 1]]
  <2> SUFFICES ASSUME NEW j \in 1..k PROVE g[j] = alias[g[j - 1]]
    OBVIOUS
  <2>1. j - 1 \in 0 .. (k - 1)
    BY <1>4
  <2>2. g[j - 1] = f[j - 1]
    BY <1>8, <2>1
  <2>3. CASE j = k
    BY <1>8, <2>2, <2>3
  <2>4. CASE j # k
    <3>1. j \in 1 .. (k - 1) /\ j \in 0 .. (k - 1)
      BY <1>4, <2>4
    <3>2. QED BY <1>7, <1>8, <2>2, <3>1
  <2>5. QED BY <2>3, <2>4
<1>11. Chain(alias, n, k, g)
  BY <1>8, <1>9, <1>10 DEF Chain
<1>12. QED BY <1>2, <1>11

\* What is resolved is the last of as many aliases as there are names.
LEMMA ResolvedLast ==
    ASSUME NEW E, IsFiniteSet(E), NEW alias \in [E -> E], NEW n \in E
    PROVE  \E f : Chain(alias, n, Cardinality(E), f) /\ Resolved(alias, n) = f[Cardinality(E)]
<1>1. PICK m : m = Cardinality(E)
  OBVIOUS
<1>2. m \in Nat /\ DOMAIN alias = E
  BY <1>1, FS_CardinalityType
<1> DEFINE Whole(f) == f = [k \in 0..m |-> IF k = 0 THEN n ELSE alias[f[k - 1]]]
<1>3. Resolved(alias, n) = (CHOOSE f : Whole(f))[m]
  BY <1>1, <1>2, Zenon DEF Resolved
<1>4. \E f : Whole(f)
  <2>1. PICK f : Chain(alias, n, m, f)
    BY <1>2, ChainThere
  <2>2. f \in [0..m -> E] /\ f[0] = n /\ \A k \in 1..m : f[k] = alias[f[k - 1]]
    BY <1>2, <2>1 DEF Chain
  <2>3. \A k \in 0..m : f[k] = IF k = 0 THEN n ELSE alias[f[k - 1]]
    BY <1>2, <2>2
  <2>4. Whole(f)
    BY <2>2, <2>3
  <2>5. QED BY <2>4
<1>5. PICK f : f = CHOOSE g : Whole(g)
  OBVIOUS
<1>6. Whole(f)
  BY <1>4, <1>5
<1> HIDE DEF Whole
<1>7. /\ f = [k \in 0..m |-> f[k]] /\ f[0] = n
      /\ \A k \in 1..m : f[k] = alias[f[k - 1]]
  <2>1. f = [k \in 0..m |-> IF k = 0 THEN n ELSE alias[f[k - 1]]]
    BY <1>6 DEF Whole
  <2>2. DOMAIN f = 0..m /\ \A k \in 0..m : f[k] = IF k = 0 THEN n ELSE alias[f[k - 1]]
    BY <2>1
  <2>3. f = [k \in 0..m |-> f[k]]
    BY <2>1, <2>2
  <2>4. QED BY <1>2, <2>2, <2>3
<1>8. \A k \in 0..m : f[k] \in E
  <2> DEFINE Outside == {k \in 0..m : f[k] \notin E}
  <2>1. SUFFICES ASSUME Outside # {} PROVE FALSE
    OBVIOUS
  <2>2. PICK k \in Outside : \A j \in Outside : k <= j
    <3>1. Outside \in SUBSET Nat
      OBVIOUS
    <3>2. QED BY <2>1, <3>1, LeastIn
  <2>3. k # 0
    BY <1>7, <2>2
  <2>4. k \in 1..m /\ k - 1 \in 0..m /\ k - 1 \notin Outside
    BY <1>2, <2>2, <2>3
  <2>5. f[k - 1] \in E
    BY <2>4
  <2>6. f[k] = alias[f[k - 1]]
    BY <1>7, <2>4
  <2>7. QED BY <2>2, <2>5, <2>6
<1>9. Chain(alias, n, m, f)
  BY <1>2, <1>7, <1>8 DEF Chain
<1>10. Resolved(alias, n) = f[m]
  BY <1>3, <1>5, Zenon DEF Whole
<1>11. QED BY <1>1, <1>9, <1>10

\* The name that the aliases of a name end in is no alias.
LEMMA ResolvedIsRoot ==
    ASSUME NEW E, IsFiniteSet(E), NEW alias \in Forests(E), NEW n \in E
    PROVE  Resolved(alias, n) \in E /\ alias[Resolved(alias, n)] = Resolved(alias, n)
<1>1. alias \in [E -> E]
  BY DEF Forests
<1>2. PICK m : m = Cardinality(E)
  OBVIOUS
<1>3. m \in Nat
  BY <1>2, FS_CardinalityType
<1>4. PICK f : Chain(alias, n, m, f) /\ Resolved(alias, n) = f[m]
  BY <1>1, <1>2, ResolvedLast
<1>5. /\ f \in [0..m -> E]
      /\ \A k \in 1..m : f[k] = alias[f[k - 1]]
  BY <1>1, <1>4 DEF Chain
<1>6. \A k \in 0..m : k # m => k + 1 \in 1..m /\ k + 1 \in 0..m /\ f[k + 1] = alias[f[k]]
  <2> SUFFICES ASSUME NEW k \in 0..m, k # m
               PROVE  k + 1 \in 1..m /\ k + 1 \in 0..m /\ f[k + 1] = alias[f[k]]
    OBVIOUS
  <2>1. k + 1 \in 1..m /\ k + 1 \in 0..m /\ (k + 1) - 1 = k
    BY <1>3
  <2>2. QED BY <1>5, <2>1
\* The names met on the way are more than there are names, so one is met twice.
<1>7. PICK i \in 0..m, j \in 0..m : i < j /\ f[i] = f[j]
  <2>1. IsFiniteSet(0..m) /\ Cardinality(0..m) = m + 1
    BY <1>3, FS_Interval
  <2>2. Cardinality(E) < Cardinality(0..m)
    BY <1>2, <1>3, <2>1
  <2>3. PICK x \in 0..m, y \in 0..m : x # y /\ f[x] = f[y]
    <3>1. PICK S : S = 0..m
      OBVIOUS
    <3>2. IsFiniteSet(S) /\ Cardinality(E) < Cardinality(S) /\ f \in [S -> E]
      BY <1>5, <2>1, <2>2, <3>1
    <3>3. \E x, y \in S : x # y /\ f[x] = f[y]
      BY <3>2, FS_PigeonHole, Zenon
    <3>4. QED BY <3>1, <3>3
  <2>4. x < y \/ y < x
    BY <1>3, <2>3
  <2>5. QED BY <2>3, <2>4
\* The names between are aliases of one another, so one of them is no alias.
<1>8. PICK k \in 0..m : alias[f[k]] = f[k]
  <2> DEFINE Cycle == {f[k] : k \in i .. (j - 1)}
  <2>1. \A k \in i .. (j - 1) : k \in 0..m /\ k # m /\ k < j
    BY <1>3, <1>7
  <2>2. Cycle \subseteq E /\ Cycle # {}
    <3>1. i \in i .. (j - 1)
      BY <1>3, <1>7
    <3>2. QED BY <1>5, <2>1, <3>1
  <2>3. ASSUME NEW x \in Cycle PROVE alias[x] \in Cycle
    <3>1. PICK k \in i .. (j - 1) : x = f[k]
      OBVIOUS
    <3>2. alias[x] = f[k + 1]
      BY <1>6, <2>1, <3>1
    <3>3. k + 1 \in i .. (j - 1) \/ k + 1 = j
      BY <1>3, <1>7, <2>1
    <3>4. i \in i .. (j - 1)
      BY <1>3, <1>7
    <3>5. QED BY <1>7, <3>2, <3>3, <3>4
  <2>4. PICK x \in Cycle : alias[x] = x
    <3>1. \A ns \in (SUBSET E) \ {{}} : (\A x \in ns : alias[x] \in ns) => \E x \in ns : alias[x] = x
      BY DEF Forests
    <3>2. Cycle \in (SUBSET E) \ {{}}
      BY <2>2
    <3> HIDE DEF Cycle
    <3>3. QED BY <2>3, <3>1, <3>2
  <2>5. QED BY <2>1, <2>4
\* What follows it is itself.
<1>9. \A l \in 0..m : l >= k => alias[f[l]] = f[l]
  <2> DEFINE Moved == {l \in 0..m : l >= k /\ alias[f[l]] # f[l]}
  <2>1. SUFFICES ASSUME Moved # {} PROVE FALSE
    OBVIOUS
  <2>2. PICK l \in Moved : \A o \in Moved : l <= o
    <3>1. Moved \in SUBSET Nat
      OBVIOUS
    <3>2. QED BY <2>1, <3>1, LeastIn
  <2>3. l \in 0..m /\ k < l
    BY <1>3, <1>8, <2>2
  <2>4. l - 1 \in 0..m /\ l - 1 >= k /\ l - 1 # m /\ (l - 1) + 1 = l /\ l - 1 < l
    BY <1>3, <1>8, <2>3
  <2>5. alias[f[l - 1]] = f[l - 1]
    <3>1. l - 1 \notin Moved
      BY <1>3, <2>2, <2>4
    <3>2. QED BY <2>4, <3>1
  <2>6. f[l] = f[l - 1]
    BY <1>6, <2>4, <2>5
  <2>7. QED BY <2>2, <2>5, <2>6
<1>10. m \in 0..m /\ m >= k
  BY <1>3, <1>8
<1>11. alias[f[m]] = f[m] /\ f[m] \in E
  BY <1>5, <1>9, <1>10
<1>12. QED BY <1>4, <1>11

-----------------------------------------------------------------------------
(* The graph.                                                              *)

\* The ends of the relations, and what the mentions join, are rows.
Closed(graph) ==
    /\ UNION graph[4] \subseteq graph[1]
    /\ graph[3] \subseteq graph[1] \X graph[2]

\* Whatever of its relations a fold knows the chunks of, it folds a closed graph.
LEMMA FoldIsClosed ==
    ASSUME NEW known, NEW lent,
           IsFiniteSet(UNION {says[c] : c \in disk["graph"]}),
           NEW alias \in Forests(UNION {says[c] : c \in disk["graph"]})
    PROVE  Closed(FoldedGraph(alias, known, lent))
<1>1. PICK E : E = UNION {says[c] : c \in disk["graph"]}
  OBVIOUS
<1> DEFINE pairs == {pair \in {says[c] : c \in disk["graph"]} : GivenBy(pair, known, lent) # {}}
           seen(n) == UNION {GivenBy(p, known, lent) : p \in {q \in pairs : n \in q}}
           mentions == UNION {{<<Resolved(alias, n), c>> : c \in seen(n)} : n \in DOMAIN alias}
           roots == {n \in DOMAIN alias : alias[n] = n}
<1>2. FoldedGraph(alias, known, lent) = <<roots, {m[2] : m \in mentions}, mentions, Related(alias, pairs)>>
  BY Zenon DEF FoldedGraph
<1>3. DOMAIN alias = E
  BY <1>1 DEF Forests
<1>4. \A pair \in pairs : pair \subseteq E
  BY <1>1
<1>5. \A n \in E : Resolved(alias, n) \in roots
  BY <1>1, <1>3, ResolvedIsRoot
<1>6. mentions = UNION {{<<Resolved(alias, n), c>> : c \in seen(n)} : n \in E}
  BY <1>3
<1> HIDE DEF pairs, seen, mentions, roots
<1>8. UNION Related(alias, pairs) \subseteq roots
  <2> SUFFICES ASSUME NEW e \in Related(alias, pairs), NEW x \in e PROVE x \in roots
    OBVIOUS
  <2>1. PICK pair \in pairs : e = {Resolved(alias, n) : n \in pair}
    BY DEF Related
  <2>2. PICK n \in pair : x = Resolved(alias, n)
    BY <2>1
  <2>3. n \in E
    BY <1>4
  <2>4. QED BY <1>5, <2>2, <2>3
<1>9. mentions \subseteq roots \X {m[2] : m \in mentions}
  <2> SUFFICES ASSUME NEW m \in mentions PROVE m \in roots \X {o[2] : o \in mentions}
    OBVIOUS
  <2>1. PICK n \in E : \E c \in seen(n) : m = <<Resolved(alias, n), c>>
    BY <1>6
  <2>2. PICK c : m = <<Resolved(alias, n), c>>
    BY <2>1
  <2>3. c = m[2] /\ c \in {o[2] : o \in mentions}
    BY <2>2
  <2>4. Resolved(alias, n) \in roots
    BY <1>5
  <2>5. QED BY <2>2, <2>3, <2>4
<1>10. PICK graph : graph = FoldedGraph(alias, known, lent)
  OBVIOUS
<1>11. graph[1] = roots /\ graph[2] = {m[2] : m \in mentions} /\ graph[3] = mentions
       /\ graph[4] = Related(alias, pairs)
  BY <1>2, <1>10
<1>12. Closed(graph)
  BY <1>8, <1>9, <1>11 DEF Closed
<1>13. QED BY <1>10, <1>12

\* The builder's files are of chunks there are, and what was folded is closed.
GraphInv ==
    /\ exported \subseteq Chunks
    /\ builder \subseteq Chunks
    /\ disk \in [Files -> SUBSET Chunks]
    /\ says \in [Chunks -> SUBSET Names]
    /\ Closed(folded)

\* No step of the builder or of the fold opens the graph.
LEMMA GraphStep == ASSUME GraphInv, KgNext PROVE GraphInv'
<1>1. CASE ExportChunks
  BY <1>1 DEF ExportChunks, GraphInv, Closed
<1>2. CASE BuildStarts \/ BuildEnds \/ BuildDies
  <2>1. builder' \subseteq Chunks
    BY <1>2 DEF BuildStarts, BuildEnds, BuildDies, Building, NoBuilder, GraphInv
  <2>2. UNCHANGED <<exported, disk, says, folded>>
    BY <1>2 DEF BuildStarts, BuildEnds, BuildDies, Building
  <2>3. QED BY <2>1, <2>2 DEF GraphInv, Closed
<1>3. CASE PersistFile
  <2>1. PICK f, inserted :
            /\ f \in Files
            /\ inserted \subseteq builder
            /\ disk' = [disk EXCEPT ![f] = @ \cup inserted]
            /\ \E given \in [inserted -> Extractions] :
                  says' = IF f = "graph"
                          THEN [c \in Chunks |-> IF c \in inserted THEN given[c] ELSE says[c]]
                          ELSE says
    BY <1>3 DEF PersistFile
  <2>2. UNCHANGED <<exported, builder, folded>>
    BY <1>3 DEF PersistFile, Building
  <2>3. disk' \in [Files -> SUBSET Chunks]
    BY <2>1 DEF GraphInv
  <2>4. says' \in [Chunks -> SUBSET Names]
    <3>1. PICK given \in [inserted -> Extractions] :
              says' = IF f = "graph"
                      THEN [c \in Chunks |-> IF c \in inserted THEN given[c] ELSE says[c]]
                      ELSE says
      BY <2>1
    <3>2. \A c \in inserted : given[c] \in SUBSET Names
      BY DEF Extractions
    <3>3. QED BY <3>1, <3>2 DEF GraphInv
  <2>5. QED BY <2>2, <2>3, <2>4 DEF GraphInv, Closed
<1>4. CASE FoldReads
  <2>1. PICK alias, known, lent :
            /\ alias \in Forests(UNION {says[c] : c \in disk["graph"]})
            /\ folded' = FoldedGraph(alias, known, lent)
    BY <1>4 DEF FoldReads
  <2>2. disk["graph"] \subseteq Chunks
    BY DEF GraphInv, Files
  <2>3. UNION {says[c] : c \in disk["graph"]} \subseteq Names
    BY <2>2 DEF GraphInv
  <2>4. IsFiniteSet(UNION {says[c] : c \in disk["graph"]})
    BY <2>3, GraphAssumption, FS_Subset
  <2>5. Closed(FoldedGraph(alias, known, lent))
    BY <2>1, <2>4, FoldIsClosed
  <2>6. PICK graph : graph = folded'
    OBVIOUS
  <2>7. Closed(graph)
    BY <2>1, <2>5, <2>6
  <2>8. UNCHANGED <<exported, disk, says, builder>>
    BY <1>4 DEF FoldReads
  <2>9. QED BY <2>6, <2>7, <2>8 DEF GraphInv, Closed
<1>5. CASE FoldWrites \/ FoldDies
  BY <1>5 DEF FoldWrites, FoldDies, GraphInv, Closed
<1>6. CASE \E v \in Viewers : AskGraph(v) \/ OpenEngine(v) \/ BuildEngine(v) \/ GraphAnswered(v)
  <2>1. UNCHANGED <<exported, disk, says, builder, folded>>
    BY <1>6 DEF AskGraph, OpenEngine, BuildEngine, GraphAnswered, Viewing
  <2>2. QED BY <2>1 DEF GraphInv, Closed
<1>7. QED BY <1>1, <1>2, <1>3, <1>4, <1>5, <1>6 DEF KgNext

\* Whichever names are aliases of which, in chains of any length, and whatever the
\* builder lost, the tables that one fold wrote are closed.
THEOREM FoldsAreClosed == Spec => []GraphIsClosed
<1>1. Init => GraphInv
  BY DEF Init, KgInit, GraphInv, Closed, NoBuilder
<1>2. GraphInv /\ [Next]_vars => GraphInv'
  <2> SUFFICES ASSUME GraphInv, [Next]_vars PROVE GraphInv'
    OBVIOUS
  <2>1. CASE KgNext
    BY <2>1, GraphStep
  <2>2. CASE UNCHANGED kgVars
    BY <2>2 DEF GraphInv, Closed
  <2>3. QED BY <2>1, <2>2 DEF Next, vars
<1>3. GraphInv => GraphIsClosed
  BY DEF GraphInv, Closed, GraphIsClosed
<1>4. QED BY <1>1, <1>2, <1>3, PTL DEF Spec

-----------------------------------------------------------------------------
(* The engines of the viewer.                                              *)

\* The engines whose entities are at least of the fold they are kept under.
FreshEngines == {e \in [key : Nat, engine : Seq(Nat)] : e.engine # <<>> /\ e.engine[1] >= e.key}

\* What a request holds: the fold it is to have, and the tables read so far.
FreshRequest(r) ==
    /\ r.at \in {"keyed", "building"} =>
          /\ r.since \in Nat /\ r.key = r.since /\ r.key <= kg[1]
          /\ r.engine \in Seq(Nat)
          /\ IF r.engine = <<>> THEN TRUE ELSE r.engine[1] >= r.key
    /\ r.at = "keyed" => r.engine = <<>>
    /\ r.at = "building" => Len(r.engine) < 4
    /\ r.at = "answered" => r.engine[1] >= r.since

Requests == [at : {"away", "keyed", "building", "answered"}, since : Nat, key : Nat, engine : Seq(Nat)]

\* The tables are of folds that have begun, and what was read of them is no older than
\* what it is kept as.
EnginesInv ==
    /\ folds \in Nat
    /\ kg \in [Tables -> Nat] /\ \A t \in Tables : kg[t] <= folds
    /\ engines \in Seq(FreshEngines)
    /\ viewing \in [Viewers -> Requests]
    /\ \A v \in Viewers : FreshRequest(viewing[v])

\* A table is only overwritten by a later fold, so that what was fresh stays so.
LEMMA TablesAdvance ==
    ASSUME EnginesInv, folds' \in Nat, folds <= folds', UNCHANGED <<engines, viewing>>,
           \/ UNCHANGED kg
           \/ \E t \in Tables : kg' = [kg EXCEPT ![t] = folds]
    PROVE  EnginesInv'
<1>1. kg' \in [Tables -> Nat] /\ \A t \in Tables : kg'[t] <= folds' /\ kg[t] <= kg'[t]
  BY DEF EnginesInv
<1>2. 1 \in Tables
  BY DEF Tables
<1>3. kg[1] \in Nat /\ kg'[1] \in Nat /\ kg[1] <= kg'[1]
  BY <1>1, <1>2 DEF EnginesInv
<1>4. ASSUME NEW v \in Viewers PROVE FreshRequest(viewing[v])'
  <2>1. FreshRequest(viewing[v]) /\ viewing'[v] = viewing[v] /\ viewing[v].key \in Nat
    BY DEF EnginesInv, Requests
  <2>2. viewing[v].key <= kg[1] => viewing[v].key <= kg'[1]
    BY <2>1, <1>3
  <2>3. QED BY <2>1, <2>2 DEF FreshRequest
<1>5. QED BY <1>1, <1>4 DEF EnginesInv

\* A request that takes a step leaves the others as they are.
LEMMA RequestSteps ==
    ASSUME EnginesInv, NEW v \in Viewers, NEW r \in Requests, Viewing(v, r), FreshRequest(r),
           engines' \in Seq(FreshEngines)
    PROVE  EnginesInv'
<1>1. UNCHANGED <<folds, kg>> /\ viewing' = [viewing EXCEPT ![v] = r]
  BY DEF Viewing
<1>2. viewing' \in [Viewers -> Requests]
  BY <1>1 DEF EnginesInv
<1>3. ASSUME NEW w \in Viewers PROVE FreshRequest(viewing[w])'
  <2>1. viewing'[w] = r \/ viewing'[w] = viewing[w]
    BY <1>1 DEF EnginesInv
  <2>2. FreshRequest(viewing[w])
    BY DEF EnginesInv
  <2>3. QED BY <1>1, <2>1, <2>2 DEF FreshRequest
<1>4. QED BY <1>1, <1>2, <1>3 DEF EnginesInv

\* No step answers a request from older entities.
LEMMA EnginesStep == ASSUME EnginesInv, KgNext PROVE EnginesInv'
<1> USE GraphAssumption
<1>0. folds \in Nat /\ kg \in [Tables -> Nat] /\ 1 \in Tables /\ engines \in Seq(FreshEngines)
  BY DEF EnginesInv, Tables
<1>1. CASE ExportChunks \/ BuildStarts \/ PersistFile \/ BuildEnds \/ BuildDies \/ FoldDies
  <2>1. UNCHANGED <<folds, kg, engines, viewing>>
    BY <1>1 DEF ExportChunks, BuildStarts, PersistFile, BuildEnds, BuildDies, FoldDies, Building
  <2>2. QED BY <1>0, <2>1, TablesAdvance
<1>2. CASE FoldReads
  <2>1. folds' = folds + 1 /\ UNCHANGED <<kg, engines, viewing>>
    BY <1>2 DEF FoldReads
  <2>2. folds' \in Nat /\ folds <= folds'
    BY <1>0, <2>1
  <2>3. QED BY <2>1, <2>2, TablesAdvance
<1>3. CASE FoldWrites
  <2>1. next \in Tables /\ kg' = [kg EXCEPT ![next] = folds] /\ UNCHANGED <<folds, engines, viewing>>
    BY <1>3 DEF FoldWrites
  <2>2. folds' \in Nat /\ folds <= folds'
    BY <1>0, <2>1
  <2>3. QED BY <2>1, <2>2, TablesAdvance
<1>4. ASSUME NEW v \in Viewers, AskGraph(v) PROVE EnginesInv'
  <2>1. PICK r : r = [at |-> "keyed", since |-> kg[1], key |-> EngineKey(kg[1]), engine |-> <<>>]
    OBVIOUS
  <2>2. Viewing(v, r) /\ UNCHANGED engines
    BY <1>4, <2>1 DEF AskGraph
  <2>3. r \in Requests
    BY <1>0, <2>1 DEF Requests, EngineKey
  <2>4. FreshRequest(r)
    <3>1. kg[1] \in Nat
      BY <1>0
    <3>2. r.at = "keyed" /\ r.since = kg[1] /\ r.key = kg[1] /\ r.engine = <<>>
      BY <2>1 DEF EngineKey
    <3>3. QED BY <3>1, <3>2 DEF FreshRequest
  <2>5. QED BY <1>0, <2>2, <2>3, <2>4, RequestSteps
<1>5. ASSUME NEW v \in Viewers, OpenEngine(v) PROVE EnginesInv'
  <2>1. viewing[v] \in Requests /\ FreshRequest(viewing[v]) /\ viewing[v].at = "keyed"
    BY <1>5 DEF EnginesInv, OpenEngine
  <2>2. CASE Viewing(v, [viewing[v] EXCEPT !.at = "building"])
    <3>1. PICK r : r = [viewing[v] EXCEPT !.at = "building"]
      OBVIOUS
    <3>0. viewing[v].engine = <<>>
      BY <2>1 DEF FreshRequest
    <3>2. /\ r \in Requests /\ r.at = "building" /\ r.since = viewing[v].since
          /\ r.key = viewing[v].key /\ r.engine = <<>>
      BY <2>1, <3>0, <3>1 DEF Requests
    <3>3. FreshRequest(r)
      <4>1. Len(r.engine) < 4
        BY <3>2
      <4>2. QED BY <2>1, <3>2, <4>1 DEF FreshRequest
    <3>4. QED BY <1>0, <1>5, <2>2, <3>1, <3>2, <3>3, RequestSteps DEF OpenEngine
  <2>3. ASSUME NEW i \in Kept(viewing[v].key),
               Viewing(v, [viewing[v] EXCEPT !.at = "answered", !.engine = engines[i].engine])
        PROVE  EnginesInv'
    <3>1. PICK r : r = [viewing[v] EXCEPT !.at = "answered", !.engine = engines[i].engine]
      OBVIOUS
    <3>2. engines[i] \in FreshEngines /\ engines[i].key = viewing[v].key
      BY <1>0 DEF Kept
    <3>3. /\ r \in Requests /\ r.at = "answered" /\ r.since = viewing[v].since
          /\ r.engine = engines[i].engine
      BY <2>1, <3>1, <3>2 DEF Requests, FreshEngines
    <3>4. FreshRequest(r)
      BY <2>1, <3>2, <3>3 DEF FreshRequest, FreshEngines
    <3>5. QED BY <1>0, <1>5, <2>3, <3>1, <3>3, <3>4, RequestSteps DEF OpenEngine
  <2>4. QED BY <1>5, <2>2, <2>3 DEF OpenEngine
<1>6. ASSUME NEW v \in Viewers, BuildEngine(v) PROVE EnginesInv'
  <2>1. PICK r : r = viewing[v]
    OBVIOUS
  <2>2. r \in Requests /\ FreshRequest(r) /\ r.at = "building"
    BY <1>6, <2>1 DEF EnginesInv, BuildEngine
  <2>3. /\ r.since \in Nat /\ r.key = r.since /\ r.key <= kg[1] /\ r.engine \in Seq(Nat)
        /\ Len(r.engine) < 4
        /\ IF r.engine = <<>> THEN TRUE ELSE r.engine[1] >= r.key
    BY <2>2 DEF FreshRequest
  <2>4. PICK n : n = Len(r.engine)
    OBVIOUS
  <2>5. n \in Nat /\ n < 4 /\ n + 1 \in Tables /\ kg[n + 1] \in Nat
    <3>1. n \in Nat /\ n < 4
      BY <2>3, <2>4
    <3>2. n + 1 \in Tables
      BY <3>1 DEF Tables
    <3>3. QED BY <1>0, <3>1, <3>2
  <2>6. PICK engine : engine = Append(r.engine, kg[n + 1])
    OBVIOUS
  <2>7. engine \in Seq(Nat) /\ Len(engine) = n + 1
    BY <2>3, <2>4, <2>5, <2>6
  <2>8. engine # <<>>
    BY <2>5, <2>7
  <2>9. engine[1] >= r.key
    <3>1. CASE r.engine = <<>>
      <4>1. n = 0 /\ engine[1] = kg[1]
        BY <2>4, <2>6, <3>1
      <4>2. kg[1] \in Nat /\ r.key \in Nat
        BY <1>0, <2>3
      <4>3. QED BY <2>3, <4>1, <4>2
    <3>2. CASE r.engine # <<>>
      <4>1. engine[1] = r.engine[1]
        BY <2>3, <2>5, <2>6, <3>2
      <4>2. QED BY <2>3, <3>2, <4>1
    <3>3. QED BY <3>1, <3>2
  <2>10. CASE Len(engine) \in Tables \ {4} /\ Viewing(v, [r EXCEPT !.engine = engine]) /\ UNCHANGED engines
    <3>1. PICK s : s = [r EXCEPT !.engine = engine]
      OBVIOUS
    <3>2. /\ s \in Requests /\ s.at = "building" /\ s.since = r.since /\ s.key = r.key
          /\ s.engine = engine
      BY <2>2, <2>7, <3>1 DEF Requests
    <3>3. Len(engine) < 4
      <4>1. PICK k : k = Len(engine)
        OBVIOUS
      <4>2. k \in 1..4 /\ k # 4
        BY <2>10, <4>1, Zenon DEF Tables
      <4>3. k < 4
        BY <4>2
      <4>4. QED BY <4>1, <4>3, Zenon
    <3>4. FreshRequest(s)
      BY <2>3, <2>7, <2>8, <2>9, <3>2, <3>3 DEF FreshRequest
    <3>5. QED BY <1>0, <2>10, <3>1, <3>2, <3>4, RequestSteps
  <2>11. ASSUME NEW all, all = Append(engines, [key |-> r.key, engine |-> engine]),
                Viewing(v, [r EXCEPT !.at = "answered", !.engine = engine]),
                engines' = IF Len(engines) = KeptEngines THEN Tail(all) ELSE all
         PROVE  EnginesInv'
    <3>1. PICK s : s = [r EXCEPT !.at = "answered", !.engine = engine]
      OBVIOUS
    <3>2. /\ s \in Requests /\ s.at = "answered" /\ s.since = r.since /\ s.engine = engine
      BY <2>2, <2>7, <3>1 DEF Requests
    <3>3. FreshRequest(s)
      BY <2>3, <2>9, <3>2 DEF FreshRequest
    <3>4. PICK kept : kept = [key |-> r.key, engine |-> engine]
      OBVIOUS
    <3>5. kept \in FreshEngines
      BY <2>3, <2>7, <2>8, <2>9, <3>4 DEF FreshEngines
    <3>6. all \in Seq(FreshEngines) /\ Len(all) = Len(engines) + 1
      BY <1>0, <2>11, <3>4, <3>5
    <3>7. Tail(all) \in Seq(FreshEngines)
      BY <3>6, <1>0
    <3>8. QED BY <2>11, <3>1, <3>2, <3>3, <3>6, <3>7, RequestSteps
  <2>12. QED
    BY <1>6, <2>1, <2>4, <2>6, <2>10, <2>11 DEF BuildEngine
<1>7. ASSUME NEW v \in Viewers, GraphAnswered(v) PROVE EnginesInv'
  <2>1. NotViewing \in Requests /\ FreshRequest(NotViewing)
    BY DEF NotViewing, Requests, FreshRequest
  <2>2. QED BY <1>0, <1>7, <2>1, RequestSteps DEF GraphAnswered
<1>8. QED BY <1>1, <1>2, <1>3, <1>4, <1>5, <1>6, <1>7 DEF KgNext

\* Whichever folds die and whichever engines are dropped, a request is answered from
\* entities of the fold they were of when it came, or of a later one.
THEOREM EntitiesNoOlder == Spec => []EntitiesAsOfAsking
<1>1. Init => EnginesInv
  <2> SUFFICES ASSUME Init PROVE EnginesInv
    OBVIOUS
  <2>1. NotViewing \in Requests /\ FreshRequest(NotViewing)
    BY DEF NotViewing, Requests, FreshRequest
  <2>2. QED BY <2>1 DEF Init, KgInit, EnginesInv, Unwritten
<1>2. EnginesInv /\ [Next]_vars => EnginesInv'
  <2> SUFFICES ASSUME EnginesInv, [Next]_vars PROVE EnginesInv'
    OBVIOUS
  <2>1. CASE KgNext
    BY <2>1, EnginesStep
  <2>2. CASE UNCHANGED kgVars
    BY <2>2, TablesAdvance DEF EnginesInv
  <2>3. QED BY <2>1, <2>2 DEF Next, vars
<1>3. EnginesInv => EntitiesAsOfAsking
  BY DEF EnginesInv, FreshRequest, EntitiesAsOfAsking
<1>4. QED BY <1>1, <1>2, <1>3, PTL DEF Spec

===============================================================================
