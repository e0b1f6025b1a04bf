------------------------------- MODULE BlobReads -------------------------------
(***************************************************************************)
(* One recording, a blob in a table that is written again meanwhile.  The   *)
(* catalog serves it in ranges to a client that resumes broken downloads;  *)
(* the viewer serves it to players and to the transcoder of its own clips, *)
(* which are kept on disk.                                                 *)
(***************************************************************************)
EXTENDS Naturals, Sequences, SequencesExt

CONSTANTS Payloads,
          Size,         \* of each payload, in chunks
          Windows,      \* the excerpts asked for
          Viewers,      \* the viewer's threads
          Kept,         \* clips kept on disk
          MaxVersions   \* bounds the writes of the table

ASSUME BlobAssumption == Size \in [Payloads -> Nat] /\ Kept \in Nat \ {0}

VARIABLES contents,   \* the recording in each version of its table
          download,   \* what the client has, and the answer it is reading
          clips,      \* the files of the clip cache, last written last: the versions each was
                \* cut from, and history: the version when its transcoding began
          asks,       \* what each thread is asked for
          builder     \* who holds the build lock

blobVars == <<contents, download, clips, asks, builder>>

Latest == Len(contents)
Chunk(version, at) == <<contents[version], at>>

NoReply == [version |-> 0, at |-> 0, left |-> 0]
NoEtag == 0   \* the tag is the version, beside the column and the row, which are fixed
NothingYet == [etag |-> NoEtag, size |-> 0, parts |-> <<>>, reply |-> NoReply]
NoAsk == [at |-> "idle"]

BlobsInit ==
    /\ contents = <<>>
    /\ download = NothingYet
    /\ clips = <<>>
    /\ asks = [c \in Viewers |-> NoAsk]
    /\ builder = {}

\* A write of the table: this row's payload may be another now, or its old one.
WriteBlob ==
    /\ Latest < MaxVersions
    /\ \E p \in Payloads : contents' = Append(contents, p)
    /\ UNCHANGED <<download, clips, asks, builder>>

-----------------------------------------------------------------------------
(* GET /v1/table/{id}/blobs                                                *)

Whole == [first |-> 0, last |-> 0, kind |-> "whole"]
Bounds == 0..2

\* What _parse_range lets through: from a byte on, the last bytes, or both ends;
\* a header it cannot read asks for the whole.
Ranges == {Whole} \cup {r \in [first : Bounds, last : Bounds, kind : {"from", "suffix", "between"}] :
                           /\ r.kind = "from" => r.last = 0
                           /\ r.kind = "suffix" => r.first = 0
                           /\ r.kind = "between" => r.first <= r.last}

Satisfiable(r, size) ==
    CASE r.kind = "suffix" -> r.last > 0 /\ size > 0
      [] r.kind # "suffix" -> r.first < size

\* The window, by its first chunk and its length.
Resolved(r, size) ==
    LET least(a, b) == IF a <= b THEN a ELSE b
        last == IF r.kind = "between" THEN least(r.last, size - 1) ELSE size - 1
    IN  CASE r.kind = "suffix" -> [at |-> size - least(r.last, size), left |-> least(r.last, size)]
          [] r.kind # "suffix" -> [at |-> r.first, left |-> last - r.first + 1]

\* MUTANT of Honoured: the validator is not compared.
HonouredAnyway(r, validator) == r # Whole

\* If-Range: with another validator than the present one the range is dropped.
Honoured(r, validator) == r # Whole /\ (validator = NoEtag \/ validator = Latest)

\* read_blob opens the latest version, and what it opened does not move.  The
\* client trusts If-Range: what follows a 206 is more of what it has, a 200
\* replaces it, and a 416 ends the attempt.
ReadBlob(r) ==
    LET size == Size[contents[Latest]]
        answered(window) == [version |-> Latest, at |-> window.at, left |-> window.left]
    IN  /\ contents # <<>> /\ download.reply = NoReply
        /\ download' =
             CASE ~Honoured(r, download.etag) ->
                    [etag |-> Latest, size |-> size, parts |-> <<>>,
                     reply |-> answered([at |-> 0, left |-> size])]
               [] Honoured(r, download.etag) /\ ~Satisfiable(r, size) -> NothingYet
               [] OTHER ->
                    [download EXCEPT !.etag = IF @ = NoEtag THEN Latest ELSE @,
                                     !.size = IF download.etag = NoEtag THEN size ELSE @,
                                     !.reply = answered(Resolved(r, size))]
        /\ UNCHANGED <<contents, clips, asks, builder>>

\* BlobStream.chunks
ReceiveChunk ==
    LET reply == download.reply
    IN  /\ reply.left > 0
        /\ download' = [download EXCEPT
              !.parts = [at \in DOMAIN @ \cup {reply.at + 1} |->
                            IF at = reply.at + 1 THEN Chunk(reply.version, reply.at) ELSE @[at]],
              !.reply = IF reply.left = 1 THEN NoReply
                        ELSE [reply EXCEPT !.at = reply.at + 1, !.left = reply.left - 1]]
        /\ UNCHANGED <<contents, clips, asks, builder>>

\* The connection breaks, or there is nothing to send; what arrived is kept.
EndReply ==
    /\ download.reply # NoReply
    /\ download' = [download EXCEPT !.reply = NoReply]
    /\ UNCHANGED <<contents, clips, asks, builder>>

DownloadNext == WriteBlob \/ (\E r \in Ranges : ReadBlob(r)) \/ ReceiveChunk \/ EndReply

-----------------------------------------------------------------------------
(* GET /api/media/{doc} and /api/media-clip/{doc}                          *)

\* A clip is transcoded under another name and then renamed.
ClipPath(w) == <<w, "mp4">>

\* MUTANT of ScratchPath: the transcoder writes the clip in its place.
ScratchInPlace(w) == ClipPath(w)
ScratchPath(w) == <<w, "tmp.mp4">>

Named(path) == {i \in DOMAIN clips : clips[i].path = path}
Without(path) == RemoveFirstMatch(clips, LAMBDA f : f.path = path)
Goto(c, ask) == asks' = [asks EXCEPT ![c] = ask]

\* build_clip looks for the clip before it takes the lock.
MediaClip(c, w) ==
    /\ contents # <<>> /\ asks[c] = NoAsk
    /\ Goto(c, [at |-> IF Named(ClipPath(w)) # {} THEN "send" ELSE "wait", window |-> w])
    /\ UNCHANGED <<contents, download, clips, builder>>

\* And again under the lock.
TakeBuildLock(c) ==
    /\ asks[c].at = "wait" /\ builder = {}
    /\ IF Named(ClipPath(asks[c].window)) # {}
       THEN Goto(c, [asks[c] EXCEPT !.at = "send"]) /\ UNCHANGED <<clips, builder>>
       ELSE /\ Goto(c, [asks[c] EXCEPT !.at = "build"])
            /\ builder' = {c}
            /\ clips' = Append(Without(ScratchPath(asks[c].window)),
                               [path |-> ScratchPath(asks[c].window), of |-> {},
                                since |-> Latest, whole |-> FALSE])
    /\ UNCHANGED <<contents, download>>

\* The transcoder asks for ranges of the recording as a player does: each answer
\* is of the version that is the latest then, and no validator ties them.
TranscodeRange(c) ==
    /\ asks[c].at = "build" /\ Size[contents[Latest]] > 0
    /\ clips' = [i \in DOMAIN clips |->
                    IF i \in Named(ScratchPath(asks[c].window))
                    THEN [clips[i] EXCEPT !.of = @ \cup {Latest}] ELSE clips[i]]
    /\ UNCHANGED <<contents, download, asks, builder>>

\* A transcode that fails or times out leaves no file.
FailBuild(c) ==
    /\ asks[c].at = "build"
    /\ clips' = Without(ScratchPath(asks[c].window))
    /\ builder' = {} /\ Goto(c, NoAsk)
    /\ UNCHANGED <<contents, download>>

EvictOldClips(files) ==
    IF Len(files) <= Kept THEN files ELSE SubSeq(files, Len(files) - Kept + 1, Len(files))

PublishClip(c) ==
    LET w == asks[c].window
    IN  /\ asks[c].at = "build"
        /\ \E i \in Named(ScratchPath(w)) :
              /\ clips[i].of # {}
              /\ clips' = EvictOldClips(Append(Without(ScratchPath(w)),
                             [clips[i] EXCEPT !.path = ClipPath(w), !.whole = TRUE]))
        /\ builder' = {} /\ Goto(c, [asks[c] EXCEPT !.at = "send"])
        /\ UNCHANGED <<contents, download>>

\* The file may have been evicted since; the answer is an error then.
SendClip(c) ==
    /\ asks[c].at = "send"
    /\ Goto(c, NoAsk)
    /\ UNCHANGED <<contents, download, clips, builder>>

\* The viewer dies: what was transcoded in part stays on the disk, and counts as
\* a clip when the oldest are evicted.
ViewerDies ==
    /\ \E c \in Viewers : asks[c] # NoAsk
    /\ asks' = [c \in Viewers |-> NoAsk]
    /\ builder' = {}
    /\ UNCHANGED <<contents, download, clips>>

ClipNext ==
    \/ WriteBlob
    \/ \E c \in Viewers : \/ \E w \in Windows : MediaClip(c, w)
                          \/ TakeBuildLock(c) \/ TranscodeRange(c) \/ FailBuild(c)
                          \/ PublishClip(c) \/ SendClip(c)
    \/ ViewerDies

-----------------------------------------------------------------------------
\* A download put together from any ranges, over any number of broken answers and
\* writes of the table, is one payload.  No thread sends a clip that is being
\* transcoded, or whose transcoding failed or died; and a clip shows the recording
\* as it was while this clip was transcoded, nothing an earlier attempt left: one
\* payload, unless the recording was replaced in that time.
RecordingsWhole ==
    /\ \A at \in DOMAIN download.parts : download.parts[at] = Chunk(download.etag, at - 1)
    /\ \A c \in Viewers : asks[c].at = "send" =>
          \A i \in Named(ClipPath(asks[c].window)) :
             clips[i].whole /\ clips[i].of # {} /\ \A v \in clips[i].of : clips[i].since <= v

=============================================================================
