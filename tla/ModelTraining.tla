------------------------------ MODULE ModelTraining ------------------------------
(***************************************************************************)
(* The training lane: a request publishes a trigger, whose handler submits *)
(* a job and acknowledges at once; the job writes its artifacts and then   *)
(* registers them in one commit; the janitor removes what a job that died  *)
(* in between left behind; a promotion moves the blessed tag.              *)
(*                                                                         *)
(* There is one model.  The lifetime of an orphan, a day by default, is far *)
(* longer than a sweep and than the time between a job's write and its     *)
(* commit: time passes in steps that are longer than both.                 *)
(***************************************************************************)
EXTENDS Naturals, Sequences, SequencesExt

CONSTANTS
    Trainings,    \* the tokens of the training runs
    MaxTriggers,  \* deliveries of a trigger, redelivered or requested again
    Metric,       \* what each training measures, or Unmeasured
    Bars          \* what a promotion may ask for; 0 asks for nothing

Unmeasured == 0   \* absent, or not a finite number

ASSUME TrainingAssumption ==
    /\ MaxTriggers \in Nat \ {0}
    /\ Metric \in [Trainings -> Nat] /\ Bars \subseteq Nat

VARIABLES
    trigger,    \* the trigger of each token
    training,   \* the job of each token
    artifacts,  \* tokens that have objects under the artifact base
    aged,       \* those whose newest object is past its lifetime
    registry,   \* the tokens of the registry's rows; its length is its version
    published,  \* the version each job's own commit returned
    told,       \* what lineage was last told of how each job ended
    blessed,    \* the version the tag points at, 0 when unset
    sweep       \* the janitor: what it found referenced, what it is to delete

trainingVars == <<trigger, training, artifacts, aged, registry, published, told, blessed, sweep>>

jobVars == <<published, told>>   \* beside its step

NoEvent == [type |-> "none", version |-> 0]
Asleep == [at |-> "asleep", referenced |-> {}, candidates |-> {}]

TrainingInit ==
    /\ trigger = [t \in Trainings |-> [state |-> "none", tries |-> 0]]
    /\ training = [t \in Trainings |-> "none"]
    /\ artifacts = {} /\ aged = {}
    /\ registry = <<>> /\ blessed = 0
    /\ published = [t \in Trainings |-> 0] /\ told = [t \in Trainings |-> NoEvent]
    /\ sweep = Asleep

TrainingEnded(t) == training[t] \in {"SUCCEEDED", "FAILED"}

Published(t) ==
    [trigger EXCEPT ![t].state = IF trigger[t].tries < MaxTriggers THEN "queued" ELSE @]

-----------------------------------------------------------------------------
(* The request and its trigger.                                            *)

\* The pins are resolved and the trigger published; a publish that fails may
\* have been accepted.  The client may repeat a request with its key at any time.
SubmitTrainRequest(t) ==
    /\ trigger[t].state # "queued"
    /\ trigger' = Published(t)
    /\ UNCHANGED <<training, artifacts, aged, registry, blessed, sweep, jobVars>>

\* A name that is taken is attached to, and a job that failed is not run again.
SubmitTrainJob(t) == training' = [training EXCEPT ![t] = IF @ = "none" THEN "open" ELSE @]

\* The handler drops what is malformed or denied, retries what it cannot decide,
\* and never waits for the job.  An answer that is lost is a retry as well.
HandleTrainTrigger(t) ==
    LET again == IF trigger[t].tries + 1 < MaxTriggers THEN "queued" ELSE "parked"
    IN  /\ trigger[t].state = "queued"
        /\ \E verdict \in {"done", again} :
              trigger' = [trigger EXCEPT ![t] = [state |-> verdict, tries |-> @.tries + 1]]
        /\ SubmitTrainJob(t) \/ UNCHANGED training
        /\ UNCHANGED <<artifacts, aged, registry, blessed, sweep, jobVars>>

-----------------------------------------------------------------------------
(* The job.                                                                *)

TrainGoto(t, step) == training' = [training EXCEPT ![t] = step]

\* The features are read at their pins and the objects written under the token.
WriteArtifacts(t) ==
    /\ training[t] = "open"
    /\ artifacts' = artifacts \cup {t}
    /\ aged' = aged \ {t}
    /\ TrainGoto(t, "written")
    /\ UNCHANGED <<trigger, registry, blessed, sweep, jobVars>>

ProbeRegistry(t) ==
    /\ training[t] = "written"
    /\ TrainGoto(t, IF registry = <<>> THEN "create" ELSE "append")
    /\ UNCHANGED <<trigger, artifacts, aged, registry, blessed, sweep, jobVars>>

\* The write returns the version it committed, whatever others commit meanwhile.
Registers(t, rows) ==
    /\ registry' = rows
    /\ published' = [published EXCEPT ![t] = Len(rows)]
    /\ TrainGoto(t, "emit")

\* MUTANT of CreatedOrAppend: the create that lost the race replaces the winner.
CreatedAnyway(t) == Registers(t, <<t>>)

\* A create that lost the race to another goes on as an append.
CreatedOrAppend(t) ==
    IF registry = <<>>
    THEN Registers(t, <<t>>)
    ELSE TrainGoto(t, "append") /\ UNCHANGED <<registry, published>>

CreateRegistry(t) ==
    /\ training[t] = "create"
    /\ CreatedOrAppend(t)
    /\ UNCHANGED <<trigger, artifacts, aged, told, blessed, sweep>>

AppendRegistry(t) ==
    /\ training[t] = "append"
    /\ Registers(t, Append(registry, t))
    /\ UNCHANGED <<trigger, artifacts, aged, told, blessed, sweep>>

\* MUTANT of BuildEvent: the version is the latest there is by now.
BuildEventLatest(t, type) ==
    [type |-> type, version |-> IF type = "COMPLETE" THEN Len(registry) ELSE 0]

\* Only the end of a success names a version of the registry.
BuildEvent(t, type) == [type |-> type, version |-> IF type = "COMPLETE" THEN published[t] ELSE 0]

\* Two attempts, and no error when both fail.  START and RUNNING are left out.
Emit(t, type) == told' \in {told, [told EXCEPT ![t] = BuildEvent(t, type)]}

EmitComplete(t) ==
    /\ training[t] = "emit"
    /\ TrainGoto(t, "SUCCEEDED")
    /\ Emit(t, "COMPLETE")
    /\ UNCHANGED <<trigger, artifacts, aged, registry, published, blessed, sweep>>

\* A feature that does not open, storage that fails, a commit whose answer is
\* lost, or a node, which then says nothing.
FailTraining(t) ==
    /\ training[t] # "none" /\ ~TrainingEnded(t)
    /\ TrainGoto(t, "FAILED")
    /\ Emit(t, "FAIL")
    /\ UNCHANGED <<trigger, artifacts, aged, registry, published, blessed, sweep>>

-----------------------------------------------------------------------------
(* The registry's tag and the janitor.                                     *)

\* The metrics of a version are those of the publish that was appended last.
MetricsAt(v) == Metric[registry[v]]

\* A metric that is asked for and was not measured refuses the promotion.
PassesGate(metric, bar) == bar # 0 => metric # Unmeasured /\ metric >= bar

\* A version there is, that passes the gate on its metrics, is blessed.
Promote(v, bar) ==
    /\ v \in DOMAIN registry
    /\ PassesGate(MetricsAt(v), bar)
    /\ blessed' = v

PromoteModel(v) ==
    /\ \E bar \in Bars : Promote(v, bar)
    /\ UNCHANGED <<trigger, training, artifacts, aged, registry, sweep, jobVars>>

\* The tokens of the latest version, and of the blessed one.
ReferencedTokens == ToSet(registry) \cup ToSet(SubSeq(registry, 1, blessed))

\* A registry that does not open, or not yet, forbids every delete.
SweepReads ==
    /\ sweep.at = "asleep" /\ registry # <<>>
    /\ sweep' = [Asleep EXCEPT !.at = "list", !.referenced = ReferencedTokens]
    /\ UNCHANGED <<trigger, training, artifacts, aged, registry, blessed, jobVars>>

\* MUTANT of Unwanted: the age is not asked.
UnwantedAtAnyAge == artifacts \ sweep.referenced

Unwanted == (artifacts \cap aged) \ sweep.referenced

\* What could not be listed is kept.
SweepLists ==
    /\ sweep.at = "list"
    /\ sweep' = [sweep EXCEPT !.at = "delete", !.candidates = Unwanted]
    /\ UNCHANGED <<trigger, training, artifacts, aged, registry, blessed, jobVars>>

SweepDeletes ==
    /\ sweep.at = "delete"
    /\ \/ \E t \in sweep.candidates :
             /\ sweep' = [sweep EXCEPT !.candidates = @ \ {t}]
             /\ artifacts' \in {artifacts, artifacts \ {t}}
             /\ aged' = aged \cap artifacts'
       \/ /\ sweep.candidates = {} /\ sweep' = Asleep
          /\ UNCHANGED <<artifacts, aged>>
    /\ UNCHANGED <<trigger, training, registry, blessed, jobVars>>

TimePasses ==
    /\ sweep = Asleep
    /\ \A t \in Trainings : training[t] \notin {"written", "create", "append"}
    /\ aged # artifacts /\ aged' = artifacts
    /\ UNCHANGED <<trigger, training, artifacts, registry, blessed, sweep, jobVars>>

TrainingNext ==
    \/ \E t \in Trainings :
          \/ SubmitTrainRequest(t) \/ HandleTrainTrigger(t)
          \/ WriteArtifacts(t) \/ ProbeRegistry(t) \/ CreateRegistry(t) \/ AppendRegistry(t)
          \/ EmitComplete(t) \/ FailTraining(t)
    \/ \E v \in DOMAIN registry : PromoteModel(v)
    \/ SweepReads \/ SweepLists \/ SweepDeletes
    \/ TimePasses

-----------------------------------------------------------------------------
\* What the janitor promises: the artifacts that a row of the latest or of the
\* blessed version points at are never deleted, however the sweep and the jobs
\* interleave.
ReferencedKept == ReferencedTokens \subseteq artifacts

\* A trigger redelivered, or requested again with the same key, trains nothing a
\* second time, and a publish is never lost to another: a token that succeeded
\* is one version of the registry, and the version lineage hears of is its own,
\* however many trainings publish at once.
OneVersionPerToken ==
    /\ IsInjective(registry)
    /\ \A t \in Trainings :
          /\ training[t] = "SUCCEEDED" => t \in ToSet(registry)
          /\ told[t].type = "COMPLETE" =>
                told[t].version \in DOMAIN registry /\ registry[told[t].version] = t

=============================================================================
