------------------------------ MODULE StageCascade ------------------------------
(***************************************************************************)
(* The medallion cascade on Ray: the producer writes raw data, the lineage *)
(* event of that write starts the chain, and each stage's mover submits a  *)
(* job to the cluster, measures and checks what it wrote, reports the run  *)
(* and triggers the next stage.                                            *)
(*                                                                         *)
(* A job outlives the mover that submitted it; its name is the stage and   *)
(* the token, and a redelivered trigger finds it by that name.             *)
(***************************************************************************)
EXTENDS Naturals, Sequences, FiniteSets

CONSTANTS
    Tokens,      \* one for each cascade
    LastStage,   \* stages are numbered from 1; 0 is the raw data
    LegacyAt,    \* stages whose dataset is from before stable row ids
    Quality,     \* whether the movers check what they wrote
    MaxDeliver,  \* deliveries of a trigger, redelivered or published again
    MaxArrivals, \* deliveries of the event of a raw write
    Ceiling      \* objects that one ingest of media may land

ASSUME StageAssumption ==
    /\ {LastStage, MaxDeliver, MaxArrivals, Ceiling} \subseteq Nat \ {0}
    /\ LegacyAt \subseteq 1..LastStage
    /\ Quality \in BOOLEAN

Stages == 1..LastStage
Runs == Stages \X Tokens

VARIABLES
    store,     \* the rows of each dataset, counted in batches; <<>> where there is none
    legacy,    \* stages that still hold their old dataset
    job,       \* the job of each stage and token
    message,   \* the trigger of each; that of stage 0 is the event of the raw write
    mover,     \* the handler of each trigger
    lock,      \* the token that writes, one for each stage
    complete,  \* runs whose COMPLETE the broker accepted
    blocked    \* runs that failed the quality check, and stop there

cascadeVars == <<store, legacy, job, message, mover, lock, complete, blocked>>

Nobody == "nobody"
NoJob == [at |-> "none", pinned |-> 0]
Unsent == [state |-> "none", tries |-> 0]

CascadeInit ==
    /\ store = [s \in 0..LastStage |-> IF s \in LegacyAt THEN <<1>> ELSE <<>>]
    /\ legacy = LegacyAt
    /\ job = [k \in Runs |-> NoJob]
    /\ message = [k \in (0..LastStage) \X Tokens |-> Unsent]
    /\ mover = [k \in Runs |-> "idle"]
    /\ lock = [s \in Stages |-> Nobody]
    /\ complete = {} /\ blocked = {}

Running(k) == job[k].at \notin {"none", "SUCCEEDED", "FAILED"}

\* A trigger on its way is not doubled by another.
Sent(k) == [message EXCEPT ![k].state = IF message[k].tries < MaxDeliver THEN "queued" ELSE @]

\* What the sidecar does with RETRY: deliver again, and in the end park.
AgainUpTo(most, m) == [m EXCEPT !.state = IF m.tries < most THEN "queued" ELSE "parked"]
Again(m) == AgainUpTo(MaxDeliver, m)

-----------------------------------------------------------------------------
(* The producer, which is also the head of the media chain.                *)

\* Nothing is delivered after an acknowledgement, so the count is over.
Arrived == [state |-> "done", tries |-> 0]

SeedRaw == [store EXCEPT ![0] = <<1>>]

\* The raw data is overwritten and the write reported; on a failure the client
\* repeats the request with its token.
Produce(t) ==
    /\ message[<<0, t>>].state = "none"
    /\ store' = SeedRaw
    /\ message' \in {message, Sent(<<0, t>>)}
    /\ UNCHANGED <<legacy, job, mover, lock, complete, blocked>>

\* One commit at the end of a bounded stream: a prefix with nothing under it, or
\* with more than the ceiling, lands nothing.
IngestToBronze(objects) ==
    IF objects \in 1..Ceiling THEN [store EXCEPT ![0] = <<1>>] ELSE store

\* Reported, but the first trigger's publish failed: the client is to repeat it.
Refused == [state |-> "refused", tries |-> 0]

\* The media head reports its write, and only then publishes the first trigger
\* itself.  A client that is told of a failure, or of nothing, repeats the request
\* with its token although one or both may be out.
IngestMedia(t) ==
    LET k == <<0, t>>
    IN  /\ message[k].state \in {"none", "refused", "done"}
        /\ \E objects \in 0..(Ceiling + 1) :
              /\ store' = IngestToBronze(objects)
              /\ \/ UNCHANGED message
                 \/ /\ objects \in 1..Ceiling
                    /\ \/ message[k].state # "done" /\ message' = [message EXCEPT ![k] = Refused]
                       \/ message' = [Sent(<<1, t>>) EXCEPT ![k] = Arrived]
        /\ UNCHANGED <<legacy, job, mover, lock, complete, blocked>>

\* The producer hears of its own write, and publishes the first trigger.  A
\* publish that fails may have been accepted.
HandleRawArrival(t) ==
    LET k == <<0, t>>
        heard == [message EXCEPT ![k].tries = @ + 1]
    IN  /\ message[k].state = "queued"
        /\ \E sent \in {message, Sent(<<1, t>>)} :
           \E verdict \in {Arrived, AgainUpTo(MaxArrivals, heard[k])} :
              /\ verdict.state = "done" => sent = Sent(<<1, t>>)
              /\ message' = [sent EXCEPT ![k] = verdict]
        /\ UNCHANGED <<store, legacy, job, mover, lock, complete, blocked>>

-----------------------------------------------------------------------------
(* The movers.                                                             *)

Goto(k, step) == mover' = [mover EXCEPT ![k] = step]
Unlocked(k) == [lock EXCEPT ![k[1]] = IF @ = k[2] THEN Nobody ELSE @]

\* A trigger whose handler waits for the lock is as one still queued.
HandleStage(k) ==
    /\ message[k].state = "queued" /\ mover[k] = "idle"
    /\ lock[k[1]] = Nobody
    /\ message' = [message EXCEPT ![k] = [state |-> "held", tries |-> @.tries + 1]]
    /\ lock' = [lock EXCEPT ![k[1]] = k[2]]
    /\ Goto(k, "submit")
    /\ UNCHANGED <<store, legacy, job, complete, blocked>>

\* The mover may not write the stage, projects are not routed here, or the project
\* has no active warehouse by now: the run is reported as failed, if at all.
DropTrigger(k) ==
    /\ message[k].state = "queued" /\ mover[k] = "idle"
    /\ message' = [message EXCEPT ![k] = [state |-> "dropped", tries |-> @.tries + 1]]
    /\ UNCHANGED <<store, legacy, job, mover, lock, complete, blocked>>

\* A name that is taken is refused by the cluster: a job that failed is deleted
\* and submitted afresh, any other is waited for.
SubmitOrReattach(k) ==
    \/ /\ job[k].at = "none"
       /\ job' = [job EXCEPT ![k].at = "open"]
       /\ Goto(k, "await")
    \/ /\ job[k].at = "FAILED"
       /\ job' = [job EXCEPT ![k] = NoJob]
       /\ UNCHANGED mover
    \/ /\ Running(k) \/ job[k].at = "SUCCEEDED"
       /\ Goto(k, "await")
       /\ UNCHANGED job

SubmitStageJob(k) ==
    /\ mover[k] = "submit"
    /\ SubmitOrReattach(k)
    /\ UNCHANGED <<store, legacy, message, lock, complete, blocked>>

\* The job's success is final, and the dataset it wrote is opened.
AwaitSuccess(k) ==
    /\ mover[k] = "await" /\ job[k].at = "SUCCEEDED"
    /\ store[k[1]] # <<>>
    /\ Goto(k, "assert")
    /\ UNCHANGED <<store, legacy, job, message, lock, complete, blocked>>

\* The dataset is opened once more for the check, still under the lock.
AssertQuality(k) ==
    /\ mover[k] = "assert"
    /\ Quality => store[k[1]] # <<>>
    /\ Goto(k, IF Quality /\ store[k[1]] = <<0>> THEN "reject" ELSE "report")
    /\ lock' = Unlocked(k)
    /\ UNCHANGED <<store, legacy, job, message, complete, blocked>>

\* MUTANT of Promoted: a run reported before does not trigger the next again.
PromotedOnce(k) == IF k \in complete THEN message ELSE Sent(<<k[1] + 1, k[2]>>)

Promoted(k) == Sent(<<k[1] + 1, k[2]>>)

\* The run is reported and then the next stage triggered; a run that failed the
\* check is reported, and its trigger dropped.
Report(k) ==
    LET last == mover[k] = "reject" \/ k[1] = LastStage
    IN  /\ mover[k] \in {"report", "reject"}
        /\ complete' = complete \cup {k}
        /\ message' = [(IF last THEN message ELSE Promoted(k)) EXCEPT ![k].state = "done"]
        /\ blocked' = IF mover[k] = "reject" THEN blocked \cup {k} ELSE blocked
        /\ Goto(k, "idle")
        /\ UNCHANGED <<store, legacy, job, lock>>

\* MUTANT of ReportedFirst: the trigger is published before the report.
TriggeredFirst(k) == complete

\* A run whose trigger for the next stage is out has been reported.
ReportedFirst(k) == complete \cup {k}

\* What was on its way when the handler failed may have arrived: the submission
\* whose answer was lost, the report or the trigger whose publish timed out.
Ambiguous(k) ==
    \/ UNCHANGED <<job, complete>> /\ message' = [message EXCEPT ![k] = Again(@)]
    \/ /\ mover[k] = "submit" /\ job[k].at = "none"
       /\ job' = [job EXCEPT ![k].at = "open"]
       /\ message' = [message EXCEPT ![k] = Again(@)]
       /\ UNCHANGED complete
    \/ /\ mover[k] \in {"report", "reject"}
       /\ complete' = complete \cup {k}
       /\ message' = [message EXCEPT ![k] = Again(@)]
       /\ UNCHANGED job
    \/ /\ mover[k] = "report" /\ k[1] < LastStage
       /\ complete' = ReportedFirst(k)
       /\ message' = [Promoted(k) EXCEPT ![k] = Again(@)]
       /\ UNCHANGED job

\* The cluster does not answer, the job failed or takes too long, the dataset
\* does not open, a publish fails: the trigger is retried.
RetryStage(k) ==
    /\ mover[k] # "idle"
    /\ mover[k] = "await" => job[k].at # "SUCCEEDED" \/ store[k[1]] = <<>>
    /\ Ambiguous(k)
    /\ Goto(k, "idle")
    /\ lock' = Unlocked(k)
    /\ UNCHANGED <<store, legacy, blocked>>

\* The process of a stage dies with its lock and its handlers, and not the jobs.
Restart(s) ==
    LET lost == {k \in Runs : k[1] = s /\ mover[k] # "idle"}
    IN  /\ lost # {}
        /\ mover' = [k \in Runs |-> IF k \in lost THEN "idle" ELSE mover[k]]
        /\ message' = [k \in DOMAIN message |-> IF k \in lost THEN Again(message[k]) ELSE message[k]]
        /\ lock' = [lock EXCEPT ![s] = Nobody]
        /\ UNCHANGED <<store, legacy, job, complete, blocked>>

-----------------------------------------------------------------------------
(* The jobs.                                                               *)

JobGoto(k, step) == job' = [job EXCEPT ![k].at = step]

RunStage(k) ==
    /\ job[k].at = "open"
    /\ IF store[k[1] - 1] = <<>>
       THEN JobGoto(k, "FAILED")
       ELSE job' = [job EXCEPT ![k] = [at |-> "write", pinned |-> store[k[1] - 1][1]]]
    /\ UNCHANGED <<store, legacy, message, mover, lock, complete, blocked>>

\* A dataset from before stable row ids cannot be overwritten: it is removed.
ResetIfLegacy(k) ==
    /\ job[k].at = "write" /\ k[1] \in legacy
    /\ JobGoto(k, "reset")
    /\ UNCHANGED <<store, legacy, message, mover, lock, complete, blocked>>

ResetDataset(k) ==
    /\ job[k].at = "reset"
    /\ store' = [store EXCEPT ![k[1]] = <<>>]
    /\ legacy' = legacy \ {k[1]}
    /\ JobGoto(k, "write")
    /\ UNCHANGED <<message, mover, lock, complete, blocked>>

\* The first stage reads raw rows for their ids and writes them at once, as it
\* does blobs; the others copy in two commits.
WriteWhole(k) ==
    /\ job[k].at = "write" /\ k[1] \notin legacy /\ k[1] = 1
    /\ store' = [store EXCEPT ![k[1]] = <<job[k].pinned>>]
    /\ JobGoto(k, "check")
    /\ UNCHANGED <<legacy, message, mover, lock, complete, blocked>>

WriteEmpty(k) ==
    /\ job[k].at = "write" /\ k[1] \notin legacy /\ k[1] > 1
    /\ store' = [store EXCEPT ![k[1]] = <<0>>]
    /\ JobGoto(k, "append")
    /\ UNCHANGED <<legacy, message, mover, lock, complete, blocked>>

\* The rows are read as they are written: those that were counted, or newer ones,
\* unless the upstream is being reset by then.
AppendRows(k) ==
    /\ job[k].at = "append"
    /\ IF store[k[1]] = <<>>
       THEN JobGoto(k, "FAILED") /\ UNCHANGED store
       ELSE /\ \E rows \in {job[k].pinned} \cup {store[k[1] - 1][i] : i \in DOMAIN store[k[1] - 1]} :
                  store' = [store EXCEPT ![k[1]] = <<@[1] + rows>>]
            /\ JobGoto(k, "check")
    /\ UNCHANGED <<legacy, message, mover, lock, complete, blocked>>

\* MUTANT of CountsAgree: an empty dataset is the only one refused.
CountsAgreeUnlessEmpty(k) == store[k[1]] \notin {<<>>, <<0>>}

CountsAgree(k) == store[k[1]] = <<job[k].pinned>>

CheckRows(k) ==
    /\ job[k].at = "check"
    /\ JobGoto(k, IF CountsAgree(k) THEN "SUCCEEDED" ELSE "FAILED")
    /\ UNCHANGED <<store, legacy, message, mover, lock, complete, blocked>>

FailJob(k) ==
    /\ Running(k)
    /\ JobGoto(k, "FAILED")
    /\ UNCHANGED <<store, legacy, message, mover, lock, complete, blocked>>

CascadeNext ==
    \/ \E t \in Tokens : Produce(t) \/ HandleRawArrival(t) \/ IngestMedia(t)
    \/ \E k \in Runs :
          \/ HandleStage(k) \/ DropTrigger(k) \/ SubmitStageJob(k) \/ AwaitSuccess(k)
          \/ AssertQuality(k) \/ Report(k) \/ RetryStage(k)
          \/ RunStage(k) \/ ResetIfLegacy(k) \/ ResetDataset(k) \/ WriteWhole(k)
          \/ WriteEmpty(k) \/ AppendRows(k) \/ CheckRows(k) \/ FailJob(k)
    \/ \E s \in Stages : Restart(s)

-----------------------------------------------------------------------------
Settled ==
    /\ \A k \in Runs : ~Running(k) /\ mover[k] = "idle"
    /\ \A k \in DOMAIN message : message[k].state # "queued"

GivenUp == {k \in DOMAIN message : message[k].state \in {"parked", "dropped"}}

\* A run that was reported stays the one that was run: whatever is redelivered,
\* repeated or lost, no job that succeeded is run a second time for its token.
ReportedStands == \A k \in complete : job[k].at = "SUCCEEDED"

\* The cascade implements its ledger: lineage hears of a raw write with its event,
\* and of a run with its COMPLETE.
Ledger == INSTANCE CascadeLedger WITH
    finished <- {k \in Runs : job[k].at = "SUCCEEDED"},
    reported <- complete \cup {k \in DOMAIN message : k[1] = 0 /\ message[k].state # "none"}

\* A stage runs to its end only on an upstream that was reported, is reported only
\* after it succeeded, and neither is ever undone, whatever is redelivered, repeated,
\* lost or overlaps.
CascadeSpec == Ledger!Spec

\* Jobs that wrote one dataset at the same time, after a timeout or a restart,
\* are found out by their own count and run again: once nothing is on its way
\* and no trigger was given up, each dataset that was reported holds as many
\* batches as a job that succeeded counted in its upstream, and up to the second
\* stage, whose upstream is written at once, that is one batch.
OverlapHeals ==
    Settled /\ GivenUp = {} =>
        \A k \in complete : \E t \in Tokens :
            LET last == job[<<k[1], t>>]
            IN  /\ last.at = "SUCCEEDED" /\ store[k[1]] = <<last.pinned>>
                /\ k[1] <= 2 => last.pinned = 1

\* A token whose raw write the producer reported, or whose client was told that the
\* chain runs, reached the last stage, was stopped by the quality check, or has a
\* trigger that was given up: refused by the mover, or parked.  Media that was
\* reported and not triggered is its client's to repeat.
NothingForgotten ==
    LET ended == (complete \cap ({LastStage} \X Tokens)) \cup blocked \cup GivenUp
    IN  Settled => \A t \in Tokens :
            message[<<0, t>>].state \notin {"none", "refused"} => \E k \in ended : k[2] = t

=============================================================================
