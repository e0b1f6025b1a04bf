------------------------------ MODULE Voiceprints ------------------------------
(***************************************************************************)
(* Whose voice is heard where: the commands that find the turns of each    *)
(* recording, embed the voice of each turn, aggregate the voices of a      *)
(* speaker and cluster the speakers, and the viewer's requests that read   *)
(* their tables meanwhile.                                                 *)
(*                                                                         *)
(* Every command commits to one table, and any of them can be stopped      *)
(* between two commits and run again.  A recording has one speaker.        *)
(***************************************************************************)
EXTENDS Naturals, FiniteSets, Sequences

CONSTANTS
    Recordings,
    Clusters,     \* the numbers a clustering gives; those of two runs are unrelated
    MaxCommands,  \* bound: commands that run at once
    MaxRebuilds,  \* bound: commands run with --all
    MaxStops      \* bound: commands that die

ASSUME VoicesAssumption == MaxCommands \in Nat /\ MaxRebuilds \in Nat /\ MaxStops \in Nat

VARIABLES
    turns,     \* how often the turns of each recording were written
    voices,    \* the voices each recording has: for each commit, whether every turn has one
    speakers,  \* the speakers table: the speaker of each recording and their cluster
    tables,    \* the tables that exist
    commands,  \* the commands at work
    rebuilds, stops,
    ask        \* the viewer's request

voiceVars == <<turns, voices, speakers, tables, commands, rebuilds, stops, ask>>

Absent == "absent"
Noise == "noise"
Unasked == [at |-> "away", of |-> {}, table |-> <<>>, cluster |-> Noise, found |-> {}]

VoicesInit ==
    /\ turns = [r \in Recordings |-> 0]
    /\ voices = [r \in Recordings |-> <<>>]
    /\ speakers = [r \in Recordings |-> Absent]
    /\ tables = {} /\ commands = {} /\ rebuilds = 0 /\ stops = 0
    /\ ask = Unasked

Working(kind) == \E c \in commands : c.kind = kind

Starts(c) ==
    /\ Cardinality(commands) < MaxCommands /\ ~Working(c.kind)
    /\ commands' = commands \cup {c}

\* A command with --all first drops its table; it is rebuilt from nothing.
Rebuilds == rebuilds < MaxRebuilds /\ rebuilds' = rebuilds + 1

\* What a command does next once r is done.
Advances(c, r) ==
    commands' = (commands \ {c}) \cup
                (IF c.todo = {r} THEN {} ELSE {[c EXCEPT !.todo = @ \ {r}]})

\* As Advances, once r is written: the next write appends.
Writes(c, r) ==
    /\ tables' = tables \cup {c.table}
    /\ commands' = (commands \ {c}) \cup
                   (IF c.todo = {r} THEN {} ELSE {[c EXCEPT !.todo = @ \ {r}, !.create = FALSE]})

-----------------------------------------------------------------------------
(* The turns.                                                              *)

\* --limit, and recordings whose source is not found, leave a part of what is
\* left to do.
ExtractSpeakerTurns ==
    \E all \in BOOLEAN :
        LET kept == IF all THEN [r \in Recordings |-> 0] ELSE turns
        IN  /\ IF all THEN Rebuilds /\ "turns" \in tables ELSE UNCHANGED rebuilds
            /\ tables' = IF all THEN tables \ {"turns"} ELSE tables
            /\ turns' = kept
            /\ \E todo \in SUBSET {r \in Recordings : kept[r] = 0} :
                  IF todo = {} THEN UNCHANGED commands
                  ELSE Starts([kind |-> "extract", table |-> "turns", todo |-> todo,
                               create |-> "turns" \notin tables'])
            /\ UNCHANGED <<voices, speakers, stops, ask>>

\* A recording that fails, or has no turns, has no row; the first write of a new
\* table replaces whatever is there.
WriteSpeakerTurns ==
    \E c \in commands : c.kind = "extract" /\ \E r \in c.todo :
        /\ \/ /\ turns' = [s \in Recordings |-> IF s = r THEN (IF c.create THEN 1 ELSE turns[s] + 1)
                                                ELSE IF c.create THEN 0 ELSE turns[s]]
              /\ Writes(c, r)
           \/ Advances(c, r) /\ UNCHANGED <<turns, tables>>
        /\ UNCHANGED <<voices, speakers, rebuilds, stops, ask>>

-----------------------------------------------------------------------------
(* The voices.                                                             *)

\* MUTANT of Unvoiced: a recording is done once all its turns have a voice.
UnvoicedInPart(kept) == {r \in Recordings : turns[r] > 0 /\ <<"all">> # kept[r]}

\* The recordings that have turns and no voice; one voice makes a recording done.
Unvoiced(kept) == {r \in Recordings : turns[r] > 0 /\ kept[r] = <<>>}

EmbedSpeakerTurns ==
    /\ "turns" \in tables
    /\ \E all \in BOOLEAN :
        LET kept == IF all THEN [r \in Recordings |-> <<>>] ELSE voices
        IN  /\ IF all THEN Rebuilds /\ "voices" \in tables ELSE UNCHANGED rebuilds
            /\ tables' = IF all THEN tables \ {"voices"} ELSE tables
            /\ voices' = kept
            /\ \E todo \in SUBSET Unvoiced(kept) :
                  IF todo = {} THEN UNCHANGED commands
                  ELSE Starts([kind |-> "embed", table |-> "voices", todo |-> todo,
                               create |-> "voices" \notin tables'])
    /\ UNCHANGED <<turns, speakers, stops, ask>>

\* Turns that are too short have no voice: some of a recording's, or all of them.
KeptTurns == {"some", "all"}

WriteSpeakerEmbeddings ==
    \E c \in commands : c.kind = "embed" /\ \E r \in c.todo :
        /\ \/ /\ \E part \in KeptTurns :
                    voices' = [s \in Recordings |->
                                  IF s = r THEN (IF c.create THEN <<part>> ELSE Append(voices[s], part))
                                  ELSE IF c.create THEN <<>> ELSE voices[s]]
              /\ Writes(c, r)
           \/ Advances(c, r) /\ UNCHANGED <<voices, tables>>
        /\ UNCHANGED <<turns, speakers, rebuilds, stops, ask>>

-----------------------------------------------------------------------------
(* The speakers.                                                           *)

Voiced == {r \in Recordings : voices[r] # <<>>}

\* The speakers of the recordings that have voices, in no cluster.  One whose
\* voices cancel out is left out.
BuildSpeakers ==
    \/ /\ \E built \in (SUBSET Voiced) \ {{}} :
             Starts([kind |-> "build", todo |-> [r \in Recordings |->
                        IF r \in built THEN Noise ELSE Absent]])
       /\ UNCHANGED <<turns, voices, speakers, tables, rebuilds, stops, ask>>
    \/ \E c \in commands :
          /\ c.kind = "build"
          /\ speakers' = c.todo /\ tables' = tables \cup {"speakers"}
          /\ commands' = commands \ {c}
          /\ UNCHANGED <<turns, voices, rebuilds, stops, ask>>

\* The coarsest layer that keeps the speakers of a recording apart, else the one the
\* clustering likes best: with one speaker to a recording that is any.
IdentityLayer == [Recordings -> Clusters \cup {Noise}]

\* The speakers it read are written back, each in the cluster it was given.
ClusterSpeakers ==
    \/ /\ \E r \in Recordings : speakers[r] # Absent
       /\ \E given \in IdentityLayer :
             Starts([kind |-> "cluster", todo |-> [r \in Recordings |->
                        IF speakers[r] = Absent THEN Absent ELSE given[r]]])
       /\ UNCHANGED <<turns, voices, speakers, tables, rebuilds, stops, ask>>
    \/ \E c \in commands :
          /\ c.kind = "cluster"
          /\ speakers' = c.todo /\ commands' = commands \ {c}
          /\ UNCHANGED <<turns, voices, tables, rebuilds, stops, ask>>

StopCommand ==
    /\ stops < MaxStops /\ stops' = stops + 1
    /\ \E c \in commands : commands' = commands \ {c}
    /\ UNCHANGED <<turns, voices, speakers, tables, rebuilds, ask>>

-----------------------------------------------------------------------------
(* The viewer.                                                             *)

ViewerGoto(at, of, table, cluster, found) ==
    /\ ask' = [at |-> at, of |-> of, table |-> table, cluster |-> cluster, found |-> found]
    /\ UNCHANGED <<turns, voices, speakers, tables, commands, rebuilds, stops>>

\* Who is this speaker: the speakers table is opened, and the speaker's row read.
\* One in no cluster is all there is of that identity.
SpeakerIdentity(r) ==
    /\ ask = Unasked /\ "speakers" \in tables
    /\ speakers[r] # Absent
    /\ IF speakers[r] = Noise
       THEN ViewerGoto("identified", {r}, speakers, Noise, {r})
       ELSE ViewerGoto("row", {r}, speakers, speakers[r], {})

\* Both reads of a request are of the version it opened.
OpenedSpeakers == ask.table

\* The members of the speaker's cluster.
ReadMembers ==
    /\ ask.at = "row"
    /\ ViewerGoto("identified", ask.of, ask.table, ask.cluster,
                  {s \in Recordings : OpenedSpeakers[s] = ask.cluster})

\* Who sounds like this: the voice of a turn or of a speaker there is, whose
\* recording may be left out,
ResolveAnchor(r) ==
    /\ ask = Unasked /\ "voices" \in tables
    /\ r \in Voiced \/ ("speakers" \in tables /\ speakers[r] # Absent)
    /\ \E excluded \in {{}, {r}} : ViewerGoto("anchor", excluded, <<>>, Noise, {})

\* or that of an upload, which belongs to no recording.
SimilarVoicesForUpload ==
    /\ ask = Unasked /\ "voices" \in tables
    /\ ViewerGoto("anchor", {}, <<>>, Noise, {})

SearchTurns(excluded) == SUBSET (Voiced \ excluded)

\* A voice that no chunk overlaps is passed over.
WithChunk(found) == SUBSET found

\* The voices are opened again and searched.
RankSimilarTurns ==
    /\ ask.at = "anchor"
    /\ \E found \in SearchTurns(ask.of) :
       \E hits \in WithChunk(found) : ViewerGoto("ranked", {}, <<>>, Noise, hits)

\* Each hit is given the cluster its speaker has by then.
AttachSpeakerClusters ==
    /\ ask.at = "ranked"
    /\ ViewerGoto("similar", {}, [r \in ask.found |-> speakers[r]], Noise, ask.found)

Answered == ask.at \in {"identified", "similar"} /\ ViewerGoto("away", {}, <<>>, Noise, {})

VoicesNext ==
    \/ ExtractSpeakerTurns \/ WriteSpeakerTurns
    \/ EmbedSpeakerTurns \/ WriteSpeakerEmbeddings
    \/ BuildSpeakers \/ ClusterSpeakers \/ StopCommand
    \/ \E r \in Recordings : SpeakerIdentity(r) \/ ResolveAnchor(r)
    \/ ReadMembers \/ SimilarVoicesForUpload \/ RankSimilarTurns \/ AttachSpeakerClusters \/ Answered

-----------------------------------------------------------------------------
\* However often the commands are stopped and run again, with --all or without,
\* no recording's turns or voices are written a second time.
VoicedOnce == \A r \in Recordings : turns[r] <= 1 /\ Len(voices[r]) <= 1

=============================================================================
