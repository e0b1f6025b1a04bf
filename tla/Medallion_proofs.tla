---------------------------- MODULE Medallion_proofs ----------------------------
(***************************************************************************)
(* The training lane's registry and janitor, and the stage lane's jobs,    *)
(* triggers and datasets, proved for any numbers of trainings, triggers,   *)
(* tokens, stages and deliveries.                                          *)
(***************************************************************************)
EXTENDS Medallion, TLAPS

USE DEF trainingVars, jobVars

-----------------------------------------------------------------------------
\* Steps of a job before its row is in the registry, and those at which it has
\* objects that no row points at.
Unregistered == {"none", "open", "written", "create", "append"}
Uncommitted == {"written", "create", "append"}

\* The tokens of the registry's rows are distinct and belong to jobs past their
\* commit.  A job between its write and its commit has objects, and they are
\* young.  What the janitor is to delete belongs to jobs that will not commit:
\* the rows it has not read are of objects too young for it.
TrainingInv ==
    /\ registry \in Seq(Trainings) /\ IsInjective(registry)
    /\ DOMAIN training = Trainings
    /\ blessed \in 0..Len(registry)
    /\ artifacts \subseteq Trainings /\ aged \subseteq artifacts
    /\ ToSet(registry) \subseteq artifacts
    /\ \A t \in Trainings :
          /\ training[t] \in Unregistered => t \notin ToSet(registry)
          /\ training[t] \in {"emit", "SUCCEEDED"} => t \in ToSet(registry)
          /\ training[t] \in {"none", "open"} => t \notin artifacts
          /\ training[t] \in Uncommitted => t \in artifacts \ aged
    /\ sweep = [at |-> sweep.at, referenced |-> sweep.referenced, candidates |-> sweep.candidates]
    /\ sweep.at = "list" => ToSet(registry) \cap aged \subseteq sweep.referenced
    /\ sweep.at # "delete" => sweep.candidates = {}
    /\ \A t \in sweep.candidates :
          t \in Trainings /\ t \notin ToSet(registry) /\ training[t] \notin Unregistered

\* Appending a token adds it to the registry's tokens.
LEMMA Appends ==
    ASSUME registry \in Seq(Trainings), IsInjective(registry),
           NEW t \in Trainings, t \notin ToSet(registry)
    PROVE  LET longer == Append(registry, t)
           IN  /\ longer \in Seq(Trainings) /\ Len(longer) = Len(registry) + 1
               /\ ToSet(longer) = ToSet(registry) \cup {t}
               /\ IsInjective(longer)
<1> DEFINE longer == Append(registry, t)
<1>1. /\ longer \in Seq(Trainings) /\ Len(longer) = Len(registry) + 1
      /\ \A i \in 1..Len(registry) : longer[i] = registry[i]
      /\ longer[Len(registry) + 1] = t
  OBVIOUS
<1>2. /\ DOMAIN longer = 1..(Len(registry) + 1) /\ DOMAIN registry = 1..Len(registry)
      /\ Len(registry) \in Nat
  BY <1>1
<1> HIDE DEF longer
<1>3. ToSet(longer) = ToSet(registry) \cup {t}
  BY <1>1, <1>2 DEF ToSet
<1>4. \A i \in 1..Len(registry) : registry[i] # t
  BY <1>2 DEF ToSet
<1>5. IsInjective(longer)
  BY <1>1, <1>2, <1>4 DEF IsInjective
<1>6. QED BY <1>1, <1>3, <1>5 DEF longer

\* The tokens of a version are those of a prefix of the rows.
LEMMA Referenced == ASSUME TrainingInv PROVE ReferencedTokens = ToSet(registry)
<1>1. Len(registry) \in Nat /\ DOMAIN registry = 1..Len(registry) /\ blessed \in 0..Len(registry)
  BY DEF TrainingInv
<1> DEFINE older == SubSeq(registry, 1, blessed)
<1>2. DOMAIN older = 1..blessed /\ \A i \in 1..blessed : older[i] = registry[i]
  BY <1>1 DEF TrainingInv
<1> HIDE DEF older
<1>3. ToSet(older) \subseteq ToSet(registry)
  BY <1>1, <1>2 DEF ToSet
<1>4. QED BY <1>3 DEF ReferencedTokens, older

\* A commit to the registry, of a job that had its objects.
LEMMA RegisterStep ==
    ASSUME TrainingInv, NEW t \in Trainings, training[t] \in Uncommitted,
           registry' = Append(registry, t), TrainGoto(t, "emit"),
           UNCHANGED <<artifacts, aged, blessed, sweep>>
    PROVE  TrainingInv'
<1>1. t \notin ToSet(registry) /\ t \in artifacts \ aged
  BY DEF TrainingInv, Uncommitted, Unregistered
<1>2. /\ registry' \in Seq(Trainings) /\ Len(registry') = Len(registry) + 1
      /\ ToSet(registry') = ToSet(registry) \cup {t}
      /\ IsInjective(registry')
  BY <1>1, Appends DEF TrainingInv
<1>3. training' = [training EXCEPT ![t] = "emit"]
  BY DEF TrainGoto
<1>4. t \notin sweep.candidates
  BY DEF TrainingInv, Uncommitted, Unregistered
<1>5. Len(registry) \in Nat
  BY DEF TrainingInv
<1>6. QED BY <1>1, <1>2, <1>3, <1>4, <1>5 DEF TrainingInv, Unregistered, Uncommitted

LEMMA TrainingStep == ASSUME TrainingInv, TrainingNext PROVE TrainingInv'
<1>1. ASSUME NEW t \in Trainings, SubmitTrainRequest(t) PROVE TrainingInv'
  BY <1>1 DEF SubmitTrainRequest, TrainingInv
<1>2. ASSUME NEW t \in Trainings, HandleTrainTrigger(t) PROVE TrainingInv'
  <2>1. /\ training' = training \/ SubmitTrainJob(t)
        /\ UNCHANGED <<artifacts, aged, registry, blessed, sweep>>
    BY <1>2 DEF HandleTrainTrigger
  <2>2. CASE training' = training
    BY <2>1, <2>2 DEF TrainingInv
  <2>3. CASE training' = [training EXCEPT ![t] = IF @ = "none" THEN "open" ELSE @]
    BY <2>1, <2>3 DEF TrainingInv, Unregistered, Uncommitted
  <2>4. QED BY <2>1, <2>2, <2>3 DEF SubmitTrainJob
<1>3. ASSUME NEW t \in Trainings, WriteArtifacts(t) PROVE TrainingInv'
  <2>1. /\ training[t] = "open" /\ training' = [training EXCEPT ![t] = "written"]
        /\ artifacts' = artifacts \cup {t} /\ aged' = aged \ {t}
        /\ UNCHANGED <<registry, blessed, sweep>>
    BY <1>3 DEF WriteArtifacts, TrainGoto
  <2>2. t \notin sweep.candidates /\ t \notin ToSet(registry)
    BY <2>1 DEF TrainingInv, Unregistered
  <2>3. QED BY <2>1, <2>2 DEF TrainingInv, Unregistered, Uncommitted
<1>4. ASSUME NEW t \in Trainings, ProbeRegistry(t) PROVE TrainingInv'
  BY <1>4 DEF ProbeRegistry, TrainGoto, TrainingInv, Unregistered, Uncommitted
<1>5. ASSUME NEW t \in Trainings, CreateRegistry(t) PROVE TrainingInv'
  <2>1. CASE registry = <<>>
    <3>1. registry' = Append(registry, t)
      BY <1>5, <2>1 DEF CreateRegistry, CreatedOrAppend, Registers
    <3>2. QED BY <1>5, <2>1, <3>1, RegisterStep DEF CreateRegistry, CreatedOrAppend, Registers, Uncommitted
  <2>2. CASE registry # <<>>
    BY <1>5, <2>2 DEF CreateRegistry, CreatedOrAppend, TrainGoto, TrainingInv,
       Unregistered, Uncommitted
  <2>3. QED BY <2>1, <2>2
<1>6. ASSUME NEW t \in Trainings, AppendRegistry(t) PROVE TrainingInv'
  BY <1>6, RegisterStep DEF AppendRegistry, Registers, Uncommitted
<1>7. ASSUME NEW t \in Trainings, EmitComplete(t) PROVE TrainingInv'
  BY <1>7 DEF EmitComplete, TrainGoto, TrainingInv, Unregistered, Uncommitted
<1>8. ASSUME NEW t \in Trainings, FailTraining(t) PROVE TrainingInv'
  BY <1>8 DEF FailTraining, TrainGoto, TrainingEnded, TrainingInv, Unregistered, Uncommitted
<1>9. ASSUME NEW v \in DOMAIN registry, PromoteModel(v) PROVE TrainingInv'
  <2>1. v \in 0..Len(registry)
    BY DEF TrainingInv
  <2>2. QED BY <1>9, <2>1 DEF PromoteModel, Promote, TrainingInv
<1>10. CASE SweepReads
  BY <1>10, Referenced DEF SweepReads, Asleep, TrainingInv
<1>11. CASE SweepLists
  <2>1. /\ sweep.at = "list"
        /\ sweep' = [at |-> "delete", referenced |-> sweep.referenced, candidates |-> Unwanted]
        /\ UNCHANGED <<training, artifacts, aged, registry, blessed>>
    BY <1>11 DEF SweepLists, TrainingInv
  <2>2. \A t \in Unwanted :
           t \in Trainings /\ t \notin ToSet(registry) /\ training[t] \notin Unregistered
    BY <2>1 DEF Unwanted, TrainingInv, Unregistered, Uncommitted
  <2>3. QED BY <2>1, <2>2 DEF TrainingInv
<1>12. CASE SweepDeletes
  <2>1. ASSUME NEW t \in sweep.candidates,
               sweep' = [sweep EXCEPT !.candidates = @ \ {t}],
               artifacts' \in {artifacts, artifacts \ {t}},
               aged' = aged \cap artifacts'
        PROVE  TrainingInv'
    <3>1. /\ sweep' = [at |-> sweep.at, referenced |-> sweep.referenced,
                       candidates |-> sweep.candidates \ {t}]
          /\ UNCHANGED <<training, registry, blessed>>
      BY <1>12, <2>1 DEF SweepDeletes, TrainingInv
    <3>2. t \notin ToSet(registry) /\ training[t] \notin Unregistered
      BY DEF TrainingInv
    <3>3. QED BY <2>1, <3>1, <3>2 DEF TrainingInv, Unregistered, Uncommitted
  <2>2. ASSUME sweep' = Asleep, UNCHANGED <<artifacts, aged>> PROVE TrainingInv'
    BY <1>12, <2>2 DEF SweepDeletes, Asleep, TrainingInv
  <2>3. QED BY <1>12, <2>1, <2>2 DEF SweepDeletes
<1>13. CASE TimePasses
  BY <1>13 DEF TimePasses, Asleep, TrainingInv, Unregistered, Uncommitted
<1>14. QED
  BY <1>1, <1>2, <1>3, <1>4, <1>5, <1>6, <1>7, <1>8, <1>9, <1>10, <1>11, <1>12, <1>13
     DEF TrainingNext

\* The invariant holds throughout.
LEMMA TrainingSafe == Spec => []TrainingInv
<1>1. Init => TrainingInv
  <2> SUFFICES ASSUME TrainingInit PROVE TrainingInv
    BY DEF Init
  <2>1. ToSet(registry) = {} /\ IsInjective(registry) /\ registry \in Seq(Trainings)
    BY DEF TrainingInit, ToSet, IsInjective
  <2>2. QED BY <2>1 DEF TrainingInit, TrainingInv, Asleep, Unregistered, Uncommitted
<1>2. TrainingInv /\ [Next]_vars => TrainingInv'
  <2> SUFFICES ASSUME TrainingInv, [Next]_vars PROVE TrainingInv'
    OBVIOUS
  <2>1. CASE TrainingNext
    BY <2>1, TrainingStep
  <2>2. CASE UNCHANGED trainingVars
    BY <2>2 DEF TrainingInv
  <2>3. QED BY <2>1, <2>2 DEF Next, vars
<1>3. QED BY <1>1, <1>2, PTL DEF Spec

-----------------------------------------------------------------------------
\* A version whose last row is the token's.
OwnVersion(rows, t, v) == v \in DOMAIN rows /\ rows[v] = t

\* What a job is about to tell, and what it told, is the version it committed.
ToldInv ==
    /\ DOMAIN published = Trainings /\ DOMAIN told = Trainings
    /\ \A t \in Trainings :
          /\ training[t] = "emit" => OwnVersion(registry, t, published[t])
          /\ told[t].type = "COMPLETE" => OwnVersion(registry, t, told[t].version)

\* A commit leaves the rows before it as they are.
LEMMA VersionsStay ==
    ASSUME registry \in Seq(Trainings), NEW t \in Trainings
    PROVE  LET longer == Append(registry, t)
           IN  /\ \A u, v : OwnVersion(registry, u, v) => OwnVersion(longer, u, v)
               /\ OwnVersion(longer, t, Len(longer))
BY DEF OwnVersion

LEMMA ToldStep == ASSUME TrainingInv, ToldInv, TrainingNext PROVE ToldInv'
<1>0. registry \in Seq(Trainings) /\ DOMAIN training = Trainings
  BY DEF TrainingInv
<1>1. ASSUME NEW t \in Trainings, Registers(t, Append(registry, t)), UNCHANGED told
      PROVE  ToldInv'
  <2>1. /\ registry' = Append(registry, t)
        /\ published' = [published EXCEPT ![t] = Len(registry')]
        /\ training' = [training EXCEPT ![t] = "emit"]
    BY <1>1 DEF Registers, TrainGoto
  <2>2. /\ \A u, v : OwnVersion(registry, u, v) => OwnVersion(registry', u, v)
        /\ OwnVersion(registry', t, Len(registry'))
    BY <1>0, <2>1, VersionsStay
  <2>3. ASSUME NEW u \in Trainings
        PROVE  /\ training'[u] = "emit" => OwnVersion(registry', u, published'[u])
               /\ told'[u].type = "COMPLETE" => OwnVersion(registry', u, told'[u].version)
    <3>1. u = t => OwnVersion(registry', u, published'[u])
      BY <2>1, <2>2 DEF ToldInv, OwnVersion
    <3>2. u # t => training'[u] = training[u] /\ published'[u] = published[u]
      BY <1>0, <2>1 DEF ToldInv
    <3>3. QED BY <1>1, <2>2, <3>1, <3>2 DEF ToldInv
  <2>4. QED BY <1>1, <2>1, <2>3 DEF ToldInv
<1>2. ASSUME NEW t \in Trainings, CreateRegistry(t) PROVE ToldInv'
  <2>1. CASE registry = <<>>
    <3>1. Registers(t, Append(registry, t)) /\ UNCHANGED told
      BY <1>2, <2>1 DEF CreateRegistry, CreatedOrAppend
    <3>2. QED BY <1>1, <3>1
  <2>2. CASE registry # <<>>
    BY <1>0, <1>2, <2>2 DEF CreateRegistry, CreatedOrAppend, TrainGoto, ToldInv, OwnVersion
  <2>3. QED BY <2>1, <2>2
<1>3. ASSUME NEW t \in Trainings, AppendRegistry(t) PROVE ToldInv'
  BY <1>1, <1>3 DEF AppendRegistry
<1>4. ASSUME NEW t \in Trainings, EmitComplete(t) PROVE ToldInv'
  <2>1. /\ training[t] = "emit" /\ training' = [training EXCEPT ![t] = "SUCCEEDED"]
        /\ UNCHANGED <<registry, published>>
        /\ told' \in {told, [told EXCEPT ![t] = [type |-> "COMPLETE", version |-> published[t]]]}
    BY <1>4 DEF EmitComplete, TrainGoto, Emit, BuildEvent
  <2>2. QED BY <1>0, <2>1 DEF ToldInv, OwnVersion
<1>5. ASSUME NEW t \in Trainings, FailTraining(t) PROVE ToldInv'
  <2>1. /\ training' = [training EXCEPT ![t] = "FAILED"] /\ UNCHANGED <<registry, published>>
        /\ told' \in {told, [told EXCEPT ![t] = [type |-> "FAIL", version |-> 0]]}
    BY <1>5 DEF FailTraining, TrainGoto, Emit, BuildEvent
  <2>2. QED BY <1>0, <2>1 DEF ToldInv, OwnVersion
<1>6. ASSUME UNCHANGED <<registry, published, told>>,
             \A t \in Trainings : training'[t] = "emit" => training[t] = "emit"
      PROVE  ToldInv'
  BY <1>6 DEF ToldInv, OwnVersion
<1>7. CASE UNCHANGED <<registry, published, told, training>>
  BY <1>6, <1>7
<1>8. ASSUME NEW t \in Trainings, NEW step, step # "emit", TrainGoto(t, step),
             UNCHANGED <<registry, published, told>>
      PROVE  ToldInv'
  BY <1>0, <1>6, <1>8 DEF TrainGoto
<1>9. ASSUME NEW t \in Trainings, HandleTrainTrigger(t) PROVE ToldInv'
  <2>1. /\ training' = training \/ training' = [training EXCEPT ![t] = IF @ = "none" THEN "open" ELSE @]
        /\ UNCHANGED <<registry, published, told>>
    BY <1>9 DEF HandleTrainTrigger, SubmitTrainJob
  <2>2. QED BY <1>0, <1>6, <2>1
<1>10. ASSUME NEW t \in Trainings, WriteArtifacts(t) \/ ProbeRegistry(t) PROVE ToldInv'
  BY <1>8, <1>10 DEF WriteArtifacts, ProbeRegistry
<1>11. QED
  BY <1>2, <1>3, <1>4, <1>5, <1>7, <1>9, <1>10
     DEF TrainingNext, SubmitTrainRequest, PromoteModel, SweepReads, SweepLists, SweepDeletes,
         TimePasses

LEMMA ToldSafe == Spec => []ToldInv
<1>1. Init => ToldInv
  BY DEF Init, TrainingInit, ToldInv, NoEvent
<1>2. TrainingInv /\ ToldInv /\ [Next]_vars => ToldInv'
  <2> SUFFICES ASSUME TrainingInv, ToldInv, [Next]_vars PROVE ToldInv'
    OBVIOUS
  <2>1. CASE TrainingNext
    BY <2>1, ToldStep
  <2>2. CASE UNCHANGED trainingVars
    BY <2>2 DEF ToldInv, OwnVersion
  <2>3. QED BY <2>1, <2>2 DEF Next, vars
<1>3. QED BY <1>1, <1>2, TrainingSafe, PTL DEF Spec

\* The janitor of models.py: whatever a row of the latest or of the blessed
\* version points at is never deleted, for any number of jobs and sweeps.
THEOREM JanitorSpares == Spec => []ReferencedKept
<1>1. TrainingInv => ReferencedKept
  BY Referenced DEF ReferencedKept, TrainingInv
<1>2. QED BY <1>1, TrainingSafe, PTL

\* The submission under a token's name: redelivered and repeated triggers publish
\* one version per token, a publish is never lost to another, and a job reports the
\* version that is its own.
THEOREM PublishesOnce == Spec => []OneVersionPerToken
<1>1. TrainingInv /\ ToldInv => OneVersionPerToken
  BY DEF OneVersionPerToken, TrainingInv, ToldInv, OwnVersion
<1>2. QED BY <1>1, TrainingSafe, ToldSafe, PTL

-----------------------------------------------------------------------------
(* The stage lane: a reported run stands.                                  *)

\* Steps of a mover that has seen its job succeed.
Assured == {"assert", "report", "reject"}

\* A mover goes on, and reports, only after a success that is final: nothing
\* deletes or restarts a job that succeeded.
ReportedInv ==
    /\ job = [k \in Runs |-> [at |-> job[k].at, pinned |-> job[k].pinned]]
    /\ DOMAIN mover = Runs
    /\ \A k \in Runs : mover[k] \in Assured => job[k].at = "SUCCEEDED"
    /\ complete \subseteq Runs /\ ReportedStands

\* A job has two fields, of which a step changes one.
LEMMA JobAt ==
    ASSUME ReportedInv, NEW k \in Runs, NEW step
    PROVE  [job EXCEPT ![k].at = step] = [job EXCEPT ![k] = [at |-> step, pinned |-> job[k].pinned]]
<1>1. job[k] = [at |-> job[k].at, pinned |-> job[k].pinned]
  BY DEF ReportedInv
<1>2. [job[k] EXCEPT !.at = step] = [at |-> step, pinned |-> job[k].pinned]
  BY <1>1
<1>3. QED BY <1>2

\* A job that has not succeeded moves, and its mover is not past its success.
LEMMA JobMoves ==
    ASSUME ReportedInv, NEW k \in Runs, job[k].at # "SUCCEEDED",
           \E at, pinned : job' = [job EXCEPT ![k] = [at |-> at, pinned |-> pinned]],
           DOMAIN mover' = Runs, \A j \in Runs : mover'[j] \in Assured => mover[j] \in Assured,
           UNCHANGED complete
    PROVE  ReportedInv'
<1>1. k \notin complete /\ mover[k] \notin Assured
  BY DEF ReportedInv, ReportedStands
<1>2. /\ job'[k] = [at |-> job'[k].at, pinned |-> job'[k].pinned] /\ DOMAIN job' = Runs
      /\ \A j \in Runs \ {k} : job'[j] = job[j]
  BY DEF ReportedInv
<1>3. job' = [j \in Runs |-> [at |-> job'[j].at, pinned |-> job'[j].pinned]]
  BY <1>2 DEF ReportedInv
<1>4. QED BY <1>1, <1>2, <1>3 DEF ReportedInv, ReportedStands

\* A handler moves to a step before the success, or from one after it to another.
LEMMA MoverMoves ==
    ASSUME ReportedInv, NEW k \in Runs, NEW step, mover' = [mover EXCEPT ![k] = step],
           step \in Assured => mover[k] \in Assured \/ job[k].at = "SUCCEEDED",
           complete' \in {complete, complete \cup {k}},
           complete' = complete \/ mover[k] \in Assured,
           UNCHANGED job
    PROVE  ReportedInv'
BY DEF ReportedInv, ReportedStands, Assured

LEMMA ReportedKept ==
    ASSUME ReportedInv, DOMAIN mover' = Runs, \A j \in Runs : mover'[j] \in {mover[j], "idle"},
           UNCHANGED <<job, complete>>
    PROVE  ReportedInv'
BY DEF ReportedInv, ReportedStands, Assured

LEMMA ReportedStep == ASSUME ReportedInv, CascadeNext PROVE ReportedInv'
<1>1. ASSUME UNCHANGED <<job, mover, complete>> PROVE ReportedInv'
  BY <1>1, ReportedKept DEF ReportedInv
<1>2. ASSUME NEW k \in Runs, HandleStage(k) PROVE ReportedInv'
  BY <1>2, MoverMoves DEF HandleStage, Goto, Assured
<1>3. ASSUME NEW k \in Runs, SubmitStageJob(k) PROVE ReportedInv'
  <2>1. mover[k] = "submit" /\ UNCHANGED complete /\ SubmitOrReattach(k)
    BY <1>3 DEF SubmitStageJob
  <2>2. CASE job[k].at = "none" /\ job' = [job EXCEPT ![k].at = "open"] /\ Goto(k, "await")
    <3>1. \E at, pinned : job' = [job EXCEPT ![k] = [at |-> at, pinned |-> pinned]]
      BY <2>2, JobAt
    <3>2. \A j \in Runs : mover'[j] \in Assured => mover[j] \in Assured
      BY <2>2 DEF Goto, Assured, ReportedInv
    <3>3. DOMAIN mover' = Runs
      BY <2>2 DEF Goto, ReportedInv
    <3>4. QED BY <2>1, <2>2, <3>1, <3>2, <3>3, JobMoves
  <2>3. CASE job[k].at = "FAILED" /\ job' = [job EXCEPT ![k] = NoJob] /\ UNCHANGED mover
    <3>1. \E at, pinned : job' = [job EXCEPT ![k] = [at |-> at, pinned |-> pinned]]
      BY <2>3 DEF NoJob
    <3>2. DOMAIN mover' = Runs /\ \A j \in Runs : mover'[j] \in Assured => mover[j] \in Assured
      BY <2>3 DEF ReportedInv
    <3>3. QED BY <2>1, <2>3, <3>1, <3>2, JobMoves
  <2>4. CASE Goto(k, "await") /\ UNCHANGED job
    BY <2>1, <2>4, MoverMoves DEF Goto, Assured
  <2>5. QED BY <2>1, <2>2, <2>3, <2>4 DEF SubmitOrReattach
<1>4. ASSUME NEW k \in Runs, AwaitSuccess(k) PROVE ReportedInv'
  BY <1>4, MoverMoves DEF AwaitSuccess, Goto
<1>5. ASSUME NEW k \in Runs, AssertQuality(k) PROVE ReportedInv'
  <2>1. mover[k] \in Assured /\ UNCHANGED <<job, complete>>
    BY <1>5 DEF AssertQuality, Assured
  <2>2. PICK step : mover' = [mover EXCEPT ![k] = step]
    BY <1>5 DEF AssertQuality, Goto
  <2>3. QED BY <2>1, <2>2, MoverMoves
<1>6. ASSUME NEW k \in Runs, Report(k) PROVE ReportedInv'
  BY <1>6, MoverMoves DEF Report, Goto, Assured
<1>7. ASSUME NEW k \in Runs, RetryStage(k) PROVE ReportedInv'
  <2>1. mover' = [mover EXCEPT ![k] = "idle"]
    BY <1>7 DEF RetryStage, Goto
  <2>2. CASE UNCHANGED job /\ complete' = complete
    BY <2>1, <2>2, MoverMoves DEF Assured
  <2>3. CASE UNCHANGED job /\ complete' = complete \cup {k} /\ mover[k] \in {"report", "reject"}
    BY <2>1, <2>3, MoverMoves DEF Assured
  <2>4. CASE job[k].at = "none" /\ job' = [job EXCEPT ![k].at = "open"] /\ UNCHANGED complete
    <3>1. \E at, pinned : job' = [job EXCEPT ![k] = [at |-> at, pinned |-> pinned]]
      BY <2>4, JobAt
    <3>2. DOMAIN mover' = Runs /\ \A j \in Runs : mover'[j] \in Assured => mover[j] \in Assured
      BY <2>1 DEF ReportedInv, Assured
    <3>3. QED BY <2>4, <3>1, <3>2, JobMoves
  <2>5. QED BY <1>7, <2>2, <2>3, <2>4 DEF RetryStage, Ambiguous, ReportedFirst
<1>8. ASSUME NEW s \in Stages, Restart(s) PROVE ReportedInv'
  BY <1>8, ReportedKept DEF Restart
<1>9. ASSUME NEW k \in Runs, job[k].at # "SUCCEEDED", NEW step, JobGoto(k, step),
             UNCHANGED <<mover, complete>>
      PROVE  ReportedInv'
  <2>1. \E at, pinned : job' = [job EXCEPT ![k] = [at |-> at, pinned |-> pinned]]
    BY <1>9, JobAt DEF JobGoto
  <2>2. QED BY <1>9, <2>1, JobMoves DEF ReportedInv
<1>10. ASSUME NEW k \in Runs, RunStage(k) PROVE ReportedInv'
  <2>1. CASE store[k[1] - 1] = <<>>
    BY <1>9, <1>10, <2>1 DEF RunStage
  <2>2. CASE store[k[1] - 1] # <<>>
    BY <1>10, <2>2, JobMoves DEF RunStage, ReportedInv
  <2>3. QED BY <2>1, <2>2
<1>11. ASSUME NEW k \in Runs,
              ResetIfLegacy(k) \/ ResetDataset(k) \/ WriteWhole(k) \/ WriteEmpty(k) \/ AppendRows(k)
              \/ CheckRows(k) \/ FailJob(k)
       PROVE  ReportedInv'
  <2>1. job[k].at # "SUCCEEDED" /\ UNCHANGED <<mover, complete>> /\ \E step : JobGoto(k, step)
    BY <1>11 DEF ResetIfLegacy, ResetDataset, WriteWhole, WriteEmpty, AppendRows, CheckRows,
       FailJob, Running
  <2>2. QED BY <1>9, <2>1
<1>12. QED
  BY <1>1, <1>2, <1>3, <1>4, <1>5, <1>6, <1>7, <1>8, <1>10, <1>11
     DEF CascadeNext, Produce, HandleRawArrival, IngestMedia, DropTrigger

LEMMA ReportedSafe == Spec => []ReportedInv
<1>1. Init => ReportedInv
  BY DEF Init, CascadeInit, NoJob, ReportedInv, ReportedStands, Assured
<1>2. ReportedInv /\ [Next]_vars => ReportedInv'
  <2> SUFFICES ASSUME ReportedInv, [Next]_vars PROVE ReportedInv'
    OBVIOUS
  <2>1. CASE CascadeNext
    BY <2>1, ReportedStep
  <2>2. CASE UNCHANGED cascadeVars
    BY <2>2 DEF cascadeVars, ReportedInv, ReportedStands
  <2>3. QED BY <2>1, <2>2 DEF Next, vars
<1>3. QED BY <1>1, <1>2, PTL DEF Spec

\* submit_stage_job and handle_stage: whatever is redelivered, repeated or lost, a
\* run that was reported keeps the job that succeeded, for any numbers of stages,
\* tokens and deliveries.
THEOREM ReportsStand == Spec => []ReportedStands
<1>1. ReportedInv => ReportedStands
  BY DEF ReportedInv
<1>2. QED BY <1>1, ReportedSafe, PTL

-----------------------------------------------------------------------------
(* The stage lane: no token is forgotten.                                  *)

Triggers == (0..LastStage) \X Tokens
TriggerStates == {"none", "refused", "queued", "held", "done", "parked", "dropped"}
TriggerType == [state : TriggerStates, tries : Nat]
After(k) == <<k[1] + 1, k[2]>>

\* What has to be the case once a trigger was acknowledged: its run ends the
\* chain, or the next trigger was sent.
Followed(k) ==
    \/ k \in blocked
    \/ k[1] = LastStage /\ k \in complete
    \/ k[1] < LastStage /\ message[After(k)].state # "none"

\* The triggers sent for a token are those of the stages up to some stage.
Reached(t) ==
    \E top \in 0..LastStage :
        \A s \in 1..LastStage : message[<<s, t>>].state # "none" <=> s <= top

\* A trigger that is not waited for by the sidecar or the operators is followed
\* up, or is in the hands of a handler.
TriggerInv(k) ==
    /\ message[k].state = "none" => message[k].tries = 0
    /\ message[k].state = "held" => k \in Runs /\ mover[k] # "idle"
    /\ message[k].state = "done" => Followed(k)
    /\ message[k].state = "refused" => k[1] = 0
    /\ k \in Runs /\ mover[k] # "idle" => message[k].state # "none"

ChainInv ==
    /\ message \in [Triggers -> TriggerType] /\ DOMAIN mover = Runs
    /\ \A k \in Triggers : TriggerInv(k)
    /\ \A t \in Tokens : Reached(t)

LEMMA RunsAreTriggers ==
    /\ Runs \subseteq Triggers
    /\ \A k \in Triggers : k \in Runs <=> k[1] # 0
    /\ \A k \in Triggers : k[1] < LastStage => After(k) \in Runs \ {k}
    /\ \A k \in Triggers : k = <<k[1], k[2]>> /\ After(k)[1] = k[1] + 1 /\ After(k)[2] = k[2]
    /\ \A k \in Triggers : Promoted(k) = Sent(After(k))
<1>1. \A k \in Triggers : k[1] \in 0..LastStage /\ k[2] \in Tokens /\ k = <<k[1], k[2]>>
  BY DEF Triggers
<1>2. \A k \in Triggers : After(k)[1] = k[1] + 1 /\ After(k)[2] = k[2]
  BY DEF After
<1>3. \A k \in Triggers : k[1] < LastStage => After(k) \in Runs
  BY <1>1, StageAssumption DEF After, Runs, Stages
<1>4. \A k \in Triggers : After(k) # k
  BY <1>1, <1>2
<1>5. \A k \in Triggers : Promoted(k) = Sent(After(k))
  BY DEF Promoted, After
<1>6. Runs \subseteq Triggers /\ \A k \in Triggers : k \in Runs <=> k[1] # 0
  BY StageAssumption DEF Runs, Stages, Triggers
<1>7. QED BY <1>1, <1>2, <1>3, <1>4, <1>5, <1>6

\* What a step may do to one trigger: it is never taken back, it is acknowledged
\* only when followed up, and it is sent only after the one before it.
Carries(k) ==
    /\ message[k].state # "none" => message'[k].state # "none"
    /\ message'[k].state = "none" => message'[k].tries = message[k].tries
    /\ message'[k].state = "held" => k \in Runs /\ mover'[k] # "idle"
    /\ message'[k].state = "done" => message[k].state = "done" \/ Followed(k)'
    /\ message'[k].state = "refused" => k[1] = 0
    /\ message'[k].state # "none" => \/ message[k].state # "none"
                                     \/ k[1] <= 1
                                     \/ message[<<k[1] - 1, k[2]>>].state # "none"
    /\ k \in Runs /\ mover'[k] # "idle" => message'[k].state # "none"

LEMMA Carried ==
    ASSUME ChainInv, message' \in [Triggers -> TriggerType], DOMAIN mover' = Runs,
           complete \subseteq complete', blocked \subseteq blocked',
           \A k \in Triggers : Carries(k)
    PROVE  ChainInv'
<1>1. ASSUME NEW k \in Triggers PROVE TriggerInv(k)'
  <2>1. Carries(k) /\ TriggerInv(k)
    BY DEF ChainInv
  <2>2. Followed(k) => Followed(k)'
    <3>1. k[1] < LastStage => After(k) \in Triggers
      BY RunsAreTriggers
    <3>2. k[1] < LastStage /\ message[After(k)].state # "none" => message'[After(k)].state # "none"
      BY <3>1 DEF Carries
    <3>3. QED BY <3>2 DEF Followed, After
  <2>3. QED BY <2>1, <2>2 DEF Carries, TriggerInv
<1>2. ASSUME NEW t \in Tokens PROVE Reached(t)'
  <2>1. PICK top \in 0..LastStage :
          \A s \in 1..LastStage : message[<<s, t>>].state # "none" <=> s <= top
    BY DEF ChainInv, Reached
  <2>2. ASSUME NEW s \in 1..LastStage
        PROVE  /\ s <= top => message'[<<s, t>>].state # "none"
               /\ message'[<<s, t>>].state # "none" => s <= top + 1
    <3>1. Carries(<<s, t>>)
      BY StageAssumption DEF Triggers
    <3>2. s > 1 => s - 1 \in 1..LastStage
      BY StageAssumption
    <3>3. QED BY <2>1, <3>1, <3>2, StageAssumption DEF Carries
  <2>3. CASE top < LastStage /\ message'[<<top + 1, t>>].state # "none"
    <3>1. top + 1 \in 0..LastStage
      BY <2>3, StageAssumption
    <3>2. \A s \in 1..LastStage : message'[<<s, t>>].state # "none" <=> s <= top + 1
      BY <2>2, <2>3, StageAssumption
    <3>3. QED BY <3>1, <3>2 DEF Reached
  <2>4. CASE ~(top < LastStage /\ message'[<<top + 1, t>>].state # "none")
    <3>1. \A s \in 1..LastStage : message'[<<s, t>>].state # "none" <=> s <= top
      BY <2>2, <2>4, StageAssumption
    <3>2. QED BY <3>1 DEF Reached
  <2>5. QED BY <2>3, <2>4
<1>3. QED BY <1>1, <1>2 DEF ChainInv

\* Sending a trigger leaves the others as they are.
LEMMA SentOne ==
    ASSUME ChainInv, NEW k \in Triggers, NEW next, next = Sent(k)
    PROVE  /\ next \in [Triggers -> TriggerType]
           /\ \A j \in Triggers \ {k} : next[j] = message[j]
           /\ next[k].tries = message[k].tries
           /\ next[k].state \in {"queued", message[k].state} /\ next[k].state # "none"
<1>1. message[k] \in TriggerType /\ (message[k].state = "none" => message[k].tries = 0)
  BY DEF ChainInv, TriggerInv
<1> DEFINE state == IF message[k].tries < MaxDeliver THEN "queued" ELSE message[k].state
<1>2. /\ next = [message EXCEPT ![k].state = state]
      /\ state \in {"queued", message[k].state}
      /\ message[k].state = "none" => state = "queued"
  <2>1. next = [message EXCEPT ![k].state = state]
    BY <1>1 DEF Sent
  <2>2. 0 < MaxDeliver
    BY StageAssumption
  <2>3. QED BY <1>1, <2>1, <2>2
<1> HIDE DEF state
<1>3. [message[k] EXCEPT !.state = state] = [state |-> state, tries |-> message[k].tries]
      /\ state \in TriggerStates
  <2>1. message[k] \in [state : TriggerStates, tries : Nat]
    BY <1>1 DEF TriggerType
  <2>2. [message[k] EXCEPT !.state = state] = [state |-> state, tries |-> message[k].tries]
    BY <2>1
  <2>3. "queued" \in TriggerStates /\ message[k].state \in TriggerStates
    BY <2>1 DEF TriggerStates
  <2>4. QED BY <1>2, <2>2, <2>3
<1>4. next = [message EXCEPT ![k] = [state |-> state, tries |-> message[k].tries]]
  BY <1>2, <1>3
<1>5. QED BY <1>1, <1>2, <1>3, <1>4 DEF ChainInv, TriggerType

\* The shape of every step that concerns a trigger: it gets a new state, and
\* another one may be sent.
LEMMA Handled ==
    ASSUME ChainInv, NEW k \in Triggers, NEW j \in Triggers \ {k}, NEW base \in {message, Sent(j)},
           j[1] <= 1 \/ message[<<j[1] - 1, j[2]>>].state # "none",
           NEW new \in TriggerType, new.state # "none",
           message' = [base EXCEPT ![k] = new],
           message[k].state # "none" \/ k[1] = 0,
           new.state = "held" => k \in Runs /\ mover'[k] # "idle",
           new.state = "done" => Followed(k)', new.state = "refused" => k[1] = 0,
           DOMAIN mover' = Runs, \A i \in Runs \ {k} : mover'[i] = mover[i],
           complete \subseteq complete', blocked \subseteq blocked'
    PROVE  ChainInv'
<1>1. /\ base \in [Triggers -> TriggerType]
      /\ \A i \in Triggers \ {j} : base[i] = message[i]
      /\ base[j].tries = message[j].tries
      /\ base[j].state \in {"queued", message[j].state}
      /\ base[j].state = "none" => message[j].state = "none"
  BY SentOne DEF ChainInv
<1>2. message' \in [Triggers -> TriggerType] /\ message'[k] = new
      /\ \A i \in Triggers \ {k} : message'[i] = base[i]
  BY <1>1
<1>3. Carries(k)
  BY <1>2 DEF Carries
<1>4. Carries(j)
  <2>1. TriggerInv(j) /\ message'[j] = base[j]
    BY <1>2 DEF ChainInv
  <2>2. j \in Runs => mover'[j] = mover[j]
    OBVIOUS
  <2>3. QED BY <1>1, <2>1, <2>2 DEF Carries, TriggerInv
<1>5. ASSUME NEW i \in Triggers \ {j, k} PROVE Carries(i)
  <2>1. TriggerInv(i) /\ message'[i] = message[i]
    BY <1>1, <1>2 DEF ChainInv
  <2>2. i \in Runs => mover'[i] = mover[i]
    OBVIOUS
  <2>3. QED BY <2>1, <2>2 DEF Carries, TriggerInv
<1>6. QED BY <1>2, <1>3, <1>4, <1>5, Carried

\* The same where nothing is sent.
LEMMA HandledAlone ==
    ASSUME ChainInv, NEW k \in Triggers, NEW new \in TriggerType, new.state # "none",
           message' = [message EXCEPT ![k] = new],
           message[k].state # "none" \/ k[1] = 0,
           new.state = "held" => k \in Runs /\ mover'[k] # "idle",
           new.state = "done" => Followed(k)', new.state = "refused" => k[1] = 0,
           DOMAIN mover' = Runs, \A i \in Runs \ {k} : mover'[i] = mover[i],
           complete \subseteq complete', blocked \subseteq blocked'
    PROVE  ChainInv'
<1>1. PICK j \in Triggers : j # k /\ j[1] <= 1
  <2>1. <<0, k[2]>> \in Triggers /\ <<1, k[2]>> \in Triggers
    BY StageAssumption DEF Triggers
  <2>2. <<0, k[2]>> # k \/ <<1, k[2]>> # k
    OBVIOUS
  <2>3. <<0, k[2]>>[1] <= 1 /\ <<1, k[2]>>[1] <= 1
    OBVIOUS
  <2>4. QED BY <2>1, <2>2, <2>3
<1>2. QED BY <1>1, Handled

\* Movers that go on, or that nothing happens to.
LEMMA ChainIdle ==
    ASSUME ChainInv, message' = message, DOMAIN mover' = Runs,
           \A k \in Runs : mover'[k] = "idle" <=> mover[k] = "idle",
           complete \subseteq complete', blocked \subseteq blocked'
    PROVE  ChainInv'
<1>1. ASSUME NEW k \in Triggers PROVE Carries(k)
  BY DEF ChainInv, TriggerInv, Carries
<1>2. QED BY <1>1, Carried DEF ChainInv

LEMMA AgainType ==
    ASSUME NEW m \in TriggerType, NEW most
    PROVE  /\ AgainUpTo(most, m) \in TriggerType
           /\ AgainUpTo(most, m).state \in {"queued", "parked"}
BY DEF AgainUpTo, TriggerType, TriggerStates

\* The producer's steps.
LEMMA ProducerChain ==
    ASSUME ChainInv, NEW t \in Tokens, Produce(t) \/ HandleRawArrival(t) \/ IngestMedia(t)
    PROVE  ChainInv'
<1> DEFINE k == <<0, t>>
           j == <<1, t>>
<1>1. k \in Triggers /\ j \in Triggers \ {k} /\ j[1] <= 1 /\ k[1] = 0 /\ k \notin Runs /\ After(k) = j
  BY StageAssumption DEF Triggers, Runs, Stages, After
<1>2. Arrived \in TriggerType /\ Arrived.state = "done"
  BY DEF Arrived, TriggerType, TriggerStates
<1>3. UNCHANGED <<mover, complete, blocked>> /\ DOMAIN mover' = Runs
  BY DEF Produce, HandleRawArrival, IngestMedia, ChainInv
<1>4. UNCHANGED message => ChainInv'
  BY <1>3, ChainIdle
<1>5. ASSUME NEW new \in TriggerType, new.state \notin {"none", "held"},
             new.state = "done" => message' = [Sent(j) EXCEPT ![k] = new],
             NEW base \in {message, Sent(j)}, message' = [base EXCEPT ![k] = new]
      PROVE  ChainInv'
  <2>1. new.state = "done" => message'[j].state # "none"
    <3>1. Sent(j) \in [Triggers -> TriggerType] /\ Sent(j)[j].state # "none"
      BY <1>1, SentOne
    <3>2. QED BY <1>1, <1>5, <3>1
  <2>2. new.state = "done" => Followed(k)'
    BY <1>1, <2>1, StageAssumption DEF Followed, After
  <2>3. QED BY <1>1, <1>3, <1>5, <2>2, Handled
<1>6. CASE Produce(t)
  <2>1. message' = message \/ message' = Sent(k)
    BY <1>6 DEF Produce
  <2>2. CASE message' = Sent(k)
    <3>1. Sent(k) \in [Triggers -> TriggerType] /\ Sent(k)[k].state # "none"
          /\ Sent(k)[k].state \in {"queued", message[k].state}
          /\ \A i \in Triggers \ {k} : Sent(k)[i] = message[i]
      BY <1>1, SentOne
    <3>2. message[k].state = "none"
      BY <1>6 DEF Produce
    <3>3. \A i \in Triggers : Carries(i)
      BY <1>1, <1>3, <2>2, <3>1, <3>2 DEF ChainInv, TriggerInv, Carries
    <3>4. QED BY <1>3, <2>2, <3>1, <3>3, Carried
  <2>3. QED BY <1>4, <2>1, <2>2
<1>7. CASE IngestMedia(t)
  <2>1. message' = message \/ message' = [Sent(j) EXCEPT ![k] = Arrived]
       \/ message' = [message EXCEPT ![k] = Refused]
    BY <1>7 DEF IngestMedia
  <2>2. Refused \in TriggerType /\ Refused.state = "refused"
    BY DEF Refused, TriggerType, TriggerStates
  <2>3. QED BY <1>2, <1>4, <1>5, <2>1, <2>2
<1>8. CASE HandleRawArrival(t)
  <2>1. PICK sent \in {message, Sent(j)},
             verdict \in {Arrived, AgainUpTo(MaxArrivals, [message EXCEPT ![k].tries = @ + 1][k])} :
          /\ verdict.state = "done" => sent = Sent(j)
          /\ message' = [sent EXCEPT ![k] = verdict]
    BY <1>8 DEF HandleRawArrival
  <2>2. [message EXCEPT ![k].tries = @ + 1][k] \in TriggerType
    BY <1>1 DEF ChainInv, TriggerType
  <2>3. verdict \in TriggerType /\ verdict.state \notin {"none", "held"}
    BY <1>2, <2>1, <2>2, AgainType
  <2>4. QED BY <1>5, <2>1, <2>3
<1>9. QED BY <1>6, <1>7, <1>8

\* A handler's end: its trigger is acknowledged, retried or dropped.
LEMMA HandlerChain ==
    ASSUME ChainInv, NEW k \in Runs, NEW base, NEW new \in TriggerType,
           base = message \/ (base = Promoted(k) /\ k[1] < LastStage),
           new.state # "none", message' = [base EXCEPT ![k] = new],
           message[k].state # "none",
           new.state = "held" => mover'[k] # "idle",
           new.state = "done" => Followed(k)', new.state = "refused" => k[1] = 0,
           \E step : Goto(k, step),
           complete \subseteq complete', blocked \subseteq blocked'
    PROVE  ChainInv'
<1>1. k \in Triggers /\ k[1] \in 1..LastStage /\ DOMAIN mover = Runs
  BY RunsAreTriggers DEF Runs, Stages, ChainInv
<1>2. DOMAIN mover' = Runs /\ \A i \in Runs \ {k} : mover'[i] = mover[i]
  BY <1>1 DEF Goto
<1>3. CASE base = message
  BY <1>1, <1>2, <1>3, HandledAlone
<1>4. CASE base = Promoted(k) /\ k[1] < LastStage
  <2>1. After(k) \in Triggers \ {k} /\ base = Sent(After(k))
    BY <1>1, <1>4, RunsAreTriggers
  <2>2. <<After(k)[1] - 1, After(k)[2]>> = k
    BY <1>1, RunsAreTriggers
  <2>3. QED BY <1>1, <1>2, <2>1, <2>2, Handled
<1>5. QED BY <1>3, <1>4

LEMMA MessageOf ==
    ASSUME ChainInv, NEW k \in Runs
    PROVE  /\ k \in Triggers /\ message[k] \in TriggerType
           /\ mover[k] # "idle" => message[k].state # "none"
BY RunsAreTriggers DEF ChainInv, TriggerInv

LEMMA HandleStep ==
    ASSUME ChainInv, NEW k \in Runs, HandleStage(k) \/ DropTrigger(k)
    PROVE  ChainInv'
<1>1. k \in Triggers /\ message[k] \in TriggerType /\ DOMAIN mover = Runs
  BY MessageOf DEF ChainInv
<1>2. message[k].state = "queued" /\ mover[k] = "idle" /\ UNCHANGED <<complete, blocked>>
  BY DEF HandleStage, DropTrigger
<1>3. message[k].tries + 1 \in Nat
  BY <1>1 DEF TriggerType
<1>4. CASE HandleStage(k)
  <2>1. PICK new : new = [state |-> "held", tries |-> message[k].tries + 1]
    OBVIOUS
  <2>2. new \in TriggerType /\ new.state = "held"
    BY <1>3, <2>1 DEF TriggerType, TriggerStates
  <2>3. message' = [message EXCEPT ![k] = new]
    BY <1>1, <1>4, <2>1 DEF HandleStage, ChainInv
  <2>4. Goto(k, "submit") /\ mover'[k] = "submit"
    BY <1>1, <1>4 DEF HandleStage, Goto
  <2>5. QED BY <1>2, <2>2, <2>3, <2>4, HandlerChain
<1>5. CASE DropTrigger(k)
  <2>1. PICK new : new = [state |-> "dropped", tries |-> message[k].tries + 1]
    OBVIOUS
  <2>2. new \in TriggerType /\ new.state = "dropped"
    BY <1>3, <2>1 DEF TriggerType, TriggerStates
  <2>3. message' = [message EXCEPT ![k] = new] /\ mover' = mover
    BY <1>1, <1>5, <2>1 DEF DropTrigger, ChainInv
  <2>4. QED BY <1>1, <1>2, <2>2, <2>3, HandledAlone
<1>6. QED BY <1>4, <1>5

LEMMA ReportChain == ASSUME ChainInv, ReportedInv, NEW k \in Runs, Report(k) PROVE ChainInv'
<1>1. /\ k \in Triggers /\ message[k] \in TriggerType /\ message[k].state # "none"
      /\ k[1] \in 1..LastStage /\ k = <<k[1], k[2]>>
  BY MessageOf, RunsAreTriggers DEF Report, Runs, Stages
<1>2. PICK base : base = IF mover[k] = "reject" \/ k[1] = LastStage THEN message ELSE Promoted(k)
  OBVIOUS
<1>3. base \in [Triggers -> TriggerType] /\ base[k] = message[k]
      /\ (base # message => k[1] < LastStage /\ base[After(k)].state # "none")
  <2>1. CASE mover[k] = "reject" \/ k[1] = LastStage
    BY <1>1, <1>2, <2>1 DEF ChainInv
  <2>2. CASE ~(mover[k] = "reject" \/ k[1] = LastStage)
    <3>1. k[1] < LastStage /\ After(k) \in Triggers \ {k} /\ base = Sent(After(k))
      BY <1>1, <1>2, <2>2, RunsAreTriggers, StageAssumption
    <3>2. QED BY <1>1, <3>1, SentOne
  <2>3. QED BY <2>1, <2>2
<1>4. PICK new : new = [state |-> "done", tries |-> message[k].tries]
  OBVIOUS
<1>5. new \in TriggerType /\ new.state = "done"
  BY <1>1, <1>4 DEF TriggerType, TriggerStates
<1>6. message' = [base EXCEPT ![k] = new]
  <2>1. message' = [base EXCEPT ![k].state = "done"]
    BY <1>2 DEF Report
  <2>2. [base[k] EXCEPT !.state = "done"] = new
    BY <1>1, <1>3, <1>4 DEF TriggerType
  <2>3. QED BY <1>1, <1>3, <2>1, <2>2
<1>7. /\ complete' = complete \cup {k}
      /\ blocked' = IF mover[k] = "reject" THEN blocked \cup {k} ELSE blocked
      /\ Goto(k, "idle")
  BY DEF Report
<1>8. Followed(k)'
  <2>1. CASE mover[k] = "reject" \/ k[1] = LastStage
    BY <1>7, <2>1 DEF Followed
  <2>2. CASE ~(mover[k] = "reject" \/ k[1] = LastStage)
    <3>1. k[1] < LastStage /\ After(k) \in Triggers \ {k}
      BY <1>1, <2>2, RunsAreTriggers, StageAssumption
    <3>2. base = Sent(After(k))
      BY <1>1, <1>2, <2>2, RunsAreTriggers, StageAssumption
    <3>3. base[After(k)].state # "none"
      BY <3>1, <3>2, SentOne
    <3>4. message'[After(k)] = base[After(k)]
      BY <1>3, <1>6, <3>1
    <3>5. QED BY <3>1, <3>3, <3>4 DEF Followed, After
  <2>3. QED BY <2>1, <2>2
<1>9. base = message \/ (base = Promoted(k) /\ k[1] < LastStage)
  BY <1>2, <1>3
<1>10. CASE base = message
  <2>1. \A i \in Runs \ {k} : mover'[i] = mover[i]
    BY <1>7 DEF Goto, ChainInv
  <2>2. DOMAIN mover' = Runs
    BY <1>7 DEF Goto, ChainInv
  <2>3. QED BY <1>1, <1>5, <1>6, <1>7, <1>8, <1>10, <2>1, <2>2, HandledAlone
<1>11. CASE base # message
  BY <1>1, <1>3, <1>5, <1>6, <1>7, <1>8, <1>9, <1>11, HandlerChain
<1>12. QED BY <1>10, <1>11

LEMMA RetryChain == ASSUME ChainInv, NEW k \in Runs, RetryStage(k) PROVE ChainInv'
<1>1. /\ k \in Triggers /\ message[k] \in TriggerType /\ message[k].state # "none"
      /\ Goto(k, "idle") /\ blocked' = blocked
  BY MessageOf DEF RetryStage
<1>2. complete \subseteq complete'
  BY DEF RetryStage, Ambiguous, ReportedFirst
<1>3. PICK base : /\ message' = [base EXCEPT ![k] = Again(@)]
                  /\ base = message \/ (base = Promoted(k) /\ k[1] < LastStage)
  BY DEF RetryStage, Ambiguous
<1>4. base \in [Triggers -> TriggerType] /\ base[k] = message[k]
  <2>1. CASE base = message
    BY <2>1 DEF ChainInv
  <2>2. CASE base = Promoted(k) /\ k[1] < LastStage
    <3>1. After(k) \in Triggers \ {k} /\ base = Sent(After(k))
      BY <1>1, <2>2, RunsAreTriggers
    <3>2. QED BY <1>1, <3>1, SentOne
  <2>3. QED BY <1>3, <2>1, <2>2
<1>5. PICK new : new = Again(message[k])
  OBVIOUS
<1>6. new \in TriggerType /\ new.state \in {"queued", "parked"}
  BY <1>1, <1>5, AgainType DEF Again
<1>7. message' = [base EXCEPT ![k] = new]
  BY <1>3, <1>4, <1>5
<1>8. QED BY <1>1, <1>2, <1>3, <1>6, <1>7, HandlerChain

LEMMA RestartChain == ASSUME ChainInv, NEW s \in Stages, Restart(s) PROVE ChainInv'
<1>1. PICK lost : lost = {k \in Runs : k[1] = s /\ mover[k] # "idle"}
  OBVIOUS
<1>2. /\ mover' = [k \in Runs |-> IF k \in lost THEN "idle" ELSE mover[k]]
      /\ message' = [k \in Triggers |-> IF k \in lost THEN Again(message[k]) ELSE message[k]]
      /\ UNCHANGED <<complete, blocked>>
  BY <1>1 DEF Restart, ChainInv
<1>3. ASSUME NEW k \in Triggers PROVE Carries(k) /\ message'[k] \in TriggerType
  <2>1. TriggerInv(k) /\ message[k] \in TriggerType
    BY DEF ChainInv
  <2>2. CASE k \in lost
    <3>1. message'[k].state \in {"queued", "parked"} /\ message'[k] \in TriggerType
      BY <1>2, <2>1, <2>2, AgainType DEF Again
    <3>2. message[k].state # "none"
      BY <1>1, <2>1, <2>2 DEF TriggerInv
    <3>3. QED BY <3>1, <3>2 DEF Carries
  <2>3. CASE k \notin lost
    BY <1>2, <2>1, <2>3 DEF Carries, TriggerInv
  <2>4. QED BY <2>2, <2>3
<1>4. message' \in [Triggers -> TriggerType]
  BY <1>2, <1>3
<1>5. QED BY <1>2, <1>3, <1>4, Carried

LEMMA ChainStep == ASSUME ChainInv, ReportedInv, CascadeNext PROVE ChainInv'
<1>1. ASSUME NEW k \in Runs, SubmitStageJob(k) \/ AwaitSuccess(k) \/ AssertQuality(k) PROVE ChainInv'
  <2>1. UNCHANGED <<message, complete, blocked>>
    BY <1>1 DEF SubmitStageJob, AwaitSuccess, AssertQuality
  <2>2. /\ mover[k] # "idle"
        /\ mover' = mover \/ \E step \in {"await", "assert", "reject", "report"} : Goto(k, step)
    <3>1. CASE SubmitStageJob(k)
      BY <3>1 DEF SubmitStageJob, SubmitOrReattach
    <3>2. CASE AwaitSuccess(k)
      BY <3>2 DEF AwaitSuccess
    <3>3. CASE AssertQuality(k)
      BY <3>3 DEF AssertQuality
    <3>4. QED BY <1>1, <3>1, <3>2, <3>3
  <2>3. DOMAIN mover' = Runs /\ \A j \in Runs : mover'[j] = "idle" <=> mover[j] = "idle"
    BY <2>2 DEF Goto, ChainInv
  <2>4. QED BY <2>1, <2>3, ChainIdle
<1>2. ASSUME NEW k \in Runs,
             \/ RunStage(k) \/ ResetIfLegacy(k) \/ ResetDataset(k) \/ WriteWhole(k) \/ WriteEmpty(k)
             \/ AppendRows(k) \/ CheckRows(k) \/ FailJob(k)
      PROVE  ChainInv'
  <2>1. UNCHANGED <<message, mover, complete, blocked>>
    BY <1>2 DEF RunStage, ResetIfLegacy, ResetDataset, WriteWhole, WriteEmpty, AppendRows, CheckRows,
       FailJob
  <2>2. QED BY <2>1, ChainIdle DEF ChainInv
<1>3. QED
  BY <1>1, <1>2, ProducerChain, HandleStep, ReportChain, RetryChain, RestartChain DEF CascadeNext

LEMMA ChainSafe == Spec => []ChainInv
<1>1. Init => ChainInv
  <2> SUFFICES ASSUME CascadeInit PROVE ChainInv
    BY DEF Init
  <2>1. message = [k \in Triggers |-> Unsent] /\ mover = [k \in Runs |-> "idle"]
    BY DEF CascadeInit, Triggers
  <2>2. Unsent \in TriggerType /\ Unsent.state = "none" /\ Unsent.tries = 0
    BY DEF Unsent, TriggerType, TriggerStates
  <2>3. \A k \in Triggers : TriggerInv(k)
    BY <2>1, <2>2 DEF TriggerInv
  <2>4. ASSUME NEW t \in Tokens PROVE Reached(t)
    <3>1. \A s \in 1..LastStage : message[<<s, t>>].state = "none"
      BY <2>1, <2>2, StageAssumption DEF Triggers
    <3>2. 0 \in 0..LastStage /\ \A s \in 1..LastStage : ~(s <= 0)
      BY StageAssumption
    <3>3. QED BY <3>1, <3>2 DEF Reached
  <2>5. QED BY <2>1, <2>2, <2>3, <2>4 DEF ChainInv
<1>2. ChainInv /\ ReportedInv /\ [Next]_vars => ChainInv'
  <2> SUFFICES ASSUME ChainInv, ReportedInv, [Next]_vars PROVE ChainInv'
    OBVIOUS
  <2>1. CASE CascadeNext
    BY <2>1, ChainStep
  <2>2. CASE UNCHANGED cascadeVars
    BY <2>2, ChainIdle DEF cascadeVars, ChainInv
  <2>3. QED BY <2>1, <2>2 DEF Next, vars
<1>3. QED BY <1>1, <1>2, ReportedSafe, PTL DEF Spec

\* The chain of triggers: once nothing is on its way, every token that was
\* started (media that was reported and not triggered is its client's to repeat)
\* reached the last stage, was stopped by the quality check, or has a
\* trigger that the sidecar or a mover gave up, for any numbers of stages, tokens
\* and deliveries.
THEOREM TokensAreAccounted == Spec => []NothingForgotten
<1>1. ChainInv => NothingForgotten
  <2> DEFINE ended == (complete \cap ({LastStage} \X Tokens)) \cup blocked \cup GivenUp
  <2> SUFFICES ASSUME ChainInv, Settled, NEW t \in Tokens, message[<<0, t>>].state \notin {"none", "refused"}
               PROVE  \E k \in ended : k[2] = t
    BY DEF NothingForgotten
  <2>1. ASSUME NEW k \in Triggers, k[2] = t, k \notin ended, message[k].state # "none"
        PROVE  k[1] < LastStage /\ message[After(k)].state # "none"
    <3>1. message[k].state \in TriggerStates /\ TriggerInv(k) /\ DOMAIN message = Triggers
      BY DEF ChainInv, TriggerType
    <3>2. message[k].state \notin {"queued", "held"}
      BY <3>1 DEF Settled, TriggerInv
    <3>3. message[k].state \notin {"parked", "dropped", "refused"}
      <4>1. k[1] = 0 => k = <<0, t>>
        BY <2>1, RunsAreTriggers
      <4>2. QED BY <2>1, <3>1, <4>1 DEF GivenUp, TriggerInv
    <3>4. Followed(k)
      BY <2>1, <3>1, <3>2, <3>3 DEF TriggerStates, TriggerInv
    <3>5. k \notin blocked /\ ~(k[1] = LastStage /\ k \in complete)
      BY <2>1, RunsAreTriggers
    <3>6. QED BY <3>4, <3>5 DEF Followed
  <2>2. PICK top \in 0..LastStage : \A s \in 1..LastStage : message[<<s, t>>].state # "none" <=> s <= top
    BY DEF ChainInv, Reached
  <2>3. PICK k : k = <<top, t>>
    OBVIOUS
  <2>4. k \in Triggers /\ k[1] = top /\ k[2] = t
    BY <2>3 DEF Triggers
  <2>5. message[k].state # "none"
    BY <2>2, <2>3, StageAssumption
  <2>6. k \in ended
    <3> SUFFICES ASSUME k \notin ended PROVE FALSE
      OBVIOUS
    <3>1. top < LastStage /\ message[<<top + 1, t>>].state # "none"
      BY <2>1, <2>4, <2>5 DEF After
    <3>2. top + 1 \in 1..LastStage
      BY <3>1, StageAssumption
    <3>3. QED BY <2>2, <3>1, <3>2
  <2>7. QED BY <2>4, <2>6
<1>2. QED BY <1>1, ChainSafe, PTL

-----------------------------------------------------------------------------
(* The stage lane: what overlapping jobs leave.                            *)

\* A trigger that is not acknowledged.
Due == {"queued", "held", "parked", "dropped"}

\* A job that has not succeeded has a trigger by which it is found or run again.
DueInv ==
    /\ \A k \in Runs : job[k].at \notin {"none", "SUCCEEDED"} => message[k].state \in Due
    /\ \A k \in Runs : mover[k] # "idle" => message[k].state \in {"queued", "held"}

\* What a step may do to the trigger of a run.
StaysDue(k) ==
    /\ message[k].state \in Due => message'[k].state \in Due \/ job[k].at = "SUCCEEDED"
    /\ mover'[k] # "idle" => message'[k].state \in {"queued", "held"}

\* Nothing befalls a trigger but that it is sent once more.
LEMMA Undisturbed ==
    ASSUME DueInv, NEW k \in Runs, message'[k].state \in {message[k].state, "queued"},
           mover'[k] # "idle" => mover[k] # "idle"
    PROVE  StaysDue(k)
BY DEF DueInv, StaysDue, Due

\* Of the triggers, a step changes one, and may send another.
LEMMA OthersUndisturbed ==
    ASSUME ChainInv, DueInv, NEW k \in Triggers, NEW j \in Triggers, NEW base \in {message, Sent(j)},
           NEW new, message' = [base EXCEPT ![k] = new],
           NEW i \in Runs, i # k, mover'[i] # "idle" => mover[i] # "idle"
    PROVE  StaysDue(i)
<1>1. i \in Triggers
  BY RunsAreTriggers
<1>2. base \in [Triggers -> TriggerType] /\ base[i].state \in {"queued", message[i].state}
  BY <1>1, SentOne DEF ChainInv
<1>3. message'[i] = base[i]
  BY <1>1, <1>2
<1>4. QED BY <1>2, <1>3, Undisturbed

\* No step but the acknowledgement of a run that succeeded takes a trigger away.
LEMMA TriggersStayDue ==
    ASSUME ChainInv, ReportedInv, DueInv, CascadeNext, NEW i \in Runs
    PROVE  StaysDue(i)
<1>0. i \in Triggers /\ i[1] # 0 /\ message \in [Triggers -> TriggerType] /\ DOMAIN mover = Runs
  BY RunsAreTriggers DEF ChainInv
<1>1. ASSUME UNCHANGED message, mover'[i] # "idle" => mover[i] # "idle" PROVE StaysDue(i)
  BY <1>1, Undisturbed
<1>2. ASSUME NEW t \in Tokens, Produce(t) \/ HandleRawArrival(t) \/ IngestMedia(t)
      PROVE  StaysDue(i)
  <2>0. <<0, t>> \in Triggers /\ <<1, t>> \in Triggers
    BY StageAssumption DEF Triggers
  <2>1. PICK k \in Triggers : k = <<0, t>>
    BY <2>0
  <2>2. PICK j \in Triggers : j = <<1, t>>
    BY <2>0
  <2>3. i # k /\ mover' = mover
    BY <1>0, <1>2, <2>1 DEF Produce, HandleRawArrival, IngestMedia
  <2>4. \/ UNCHANGED message
        \/ message' = Sent(k)
        \/ \E base \in {message, Sent(j)} : \E new : message' = [base EXCEPT ![k] = new]
    BY <1>2, <2>1, <2>2 DEF Produce, HandleRawArrival, IngestMedia
  <2>5. CASE message' = Sent(k)
    BY <1>0, <2>3, <2>5, SentOne, Undisturbed
  <2>6. QED BY <1>1, <2>3, <2>4, <2>5, OthersUndisturbed
<1>3. ASSUME NEW k \in Runs, HandleStage(k) \/ DropTrigger(k) PROVE StaysDue(i)
  <2>1. k \in Triggers
    BY RunsAreTriggers
  <2>2. CASE i = k
    <3>1. message'[k].state = "held" \/ (message'[k].state = "dropped" /\ mover'[k] = "idle")
      BY <1>0, <1>3, <2>1 DEF HandleStage, DropTrigger
    <3>2. QED BY <2>2, <3>1 DEF StaysDue, Due
  <2>3. CASE i # k
    <3>1. \E new : message' = [message EXCEPT ![k] = new]
      BY <1>3 DEF HandleStage, DropTrigger
    <3>2. mover'[i] = mover[i]
      BY <1>0, <1>3, <2>3 DEF HandleStage, DropTrigger, Goto
    <3>3. QED BY <2>1, <2>3, <3>1, <3>2, OthersUndisturbed
  <2>4. QED BY <2>2, <2>3
<1>4. ASSUME NEW k \in Runs, SubmitStageJob(k) \/ AwaitSuccess(k) \/ AssertQuality(k)
      PROVE  StaysDue(i)
  <2>1. UNCHANGED message /\ mover[k] # "idle"
    BY <1>4 DEF SubmitStageJob, AwaitSuccess, AssertQuality
  <2>2. mover'[i] = mover[i] \/ i = k
    BY <1>0, <1>4 DEF SubmitStageJob, SubmitOrReattach, AwaitSuccess, AssertQuality, Goto
  <2>3. QED BY <1>1, <2>1, <2>2
<1>5. ASSUME NEW k \in Runs, Report(k) PROVE StaysDue(i)
  <2>1. k \in Triggers /\ mover[k] \in Assured /\ Goto(k, "idle") /\ (k[1] < LastStage => After(k) \in Triggers)
    BY <1>5, RunsAreTriggers DEF Report, Assured
  <2>2. CASE i = k
    BY <1>0, <2>1, <2>2 DEF StaysDue, Goto, ReportedInv
  <2>3. CASE i # k
    <3>1. PICK base : /\ base = IF mover[k] = "reject" \/ k[1] = LastStage THEN message ELSE Promoted(k)
                      /\ message' = [base EXCEPT ![k].state = "done"]
      BY <1>5 DEF Report
    <3>2. base = message \/ (k[1] < LastStage /\ base = Sent(After(k)))
      <4>1. k[1] \in 1..LastStage
        BY DEF Runs, Stages
      <4>2. QED BY <2>1, <3>1, <4>1, RunsAreTriggers, StageAssumption
    <3>3. \E j \in Triggers : base \in {message, Sent(j)}
      BY <1>0, <2>1, <3>2
    <3>4. \E new : message' = [base EXCEPT ![k] = new]
      BY <3>1
    <3>5. mover'[i] = mover[i]
      BY <1>0, <2>1, <2>3 DEF Goto
    <3>6. QED BY <2>1, <2>3, <3>3, <3>4, <3>5, OthersUndisturbed
  <2>4. QED BY <2>2, <2>3
<1>6. ASSUME NEW k \in Runs, RetryStage(k) PROVE StaysDue(i)
  <2>1. k \in Triggers /\ Goto(k, "idle") /\ (k[1] < LastStage => After(k) \in Triggers)
    BY <1>6, RunsAreTriggers DEF RetryStage
  <2>2. PICK base : /\ message' = [base EXCEPT ![k] = Again(@)]
                    /\ base = message \/ (base = Promoted(k) /\ k[1] < LastStage)
    BY <1>6 DEF RetryStage, Ambiguous
  <2>3. PICK j \in Triggers : base \in {message, Sent(j)}
    BY <2>1, <2>2, RunsAreTriggers
  <2>4. base \in [Triggers -> TriggerType]
    BY <1>0, <2>3, SentOne
  <2>5. CASE i = k
    <3>1. message'[k] = Again(base[k])
      BY <2>1, <2>2, <2>4
    <3>2. message'[k].state \in {"queued", "parked"}
      BY <2>1, <2>4, <3>1, AgainType DEF Again
    <3>3. QED BY <1>0, <2>1, <2>5, <3>2 DEF StaysDue, Due, Goto
  <2>6. CASE i # k
    <3>1. mover'[i] = mover[i]
      BY <1>0, <2>1, <2>6 DEF Goto
    <3>2. \E new : message' = [base EXCEPT ![k] = new]
      BY <2>2
    <3>3. QED BY <2>1, <2>3, <2>6, <3>1, <3>2, OthersUndisturbed
  <2>7. QED BY <2>5, <2>6
<1>7. ASSUME NEW s \in Stages, Restart(s) PROVE StaysDue(i)
  <2>1. PICK lost : /\ mover' = [k \in Runs |-> IF k \in lost THEN "idle" ELSE mover[k]]
                    /\ message' = [k \in DOMAIN message |-> IF k \in lost THEN Again(message[k]) ELSE message[k]]
    BY <1>7 DEF Restart
  <2>2. CASE i \in lost
    <3>1. message'[i].state \in {"queued", "parked"} /\ mover'[i] = "idle"
      BY <1>0, <2>1, <2>2, AgainType DEF Again
    <3>2. QED BY <3>1 DEF StaysDue, Due
  <2>3. CASE i \notin lost
    BY <1>0, <2>1, <2>3, Undisturbed
  <2>4. QED BY <2>2, <2>3
<1>8. ASSUME NEW k \in Runs,
             \/ RunStage(k) \/ ResetIfLegacy(k) \/ ResetDataset(k) \/ WriteWhole(k) \/ WriteEmpty(k)
             \/ AppendRows(k) \/ CheckRows(k) \/ FailJob(k)
      PROVE  StaysDue(i)
  <2>1. UNCHANGED <<message, mover>>
    BY <1>8 DEF RunStage, ResetIfLegacy, ResetDataset, WriteWhole, WriteEmpty, AppendRows, CheckRows,
       FailJob
  <2>2. QED BY <1>1, <2>1
<1>9. QED BY <1>2, <1>3, <1>4, <1>5, <1>6, <1>7, <1>8 DEF CascadeNext

\* The steps of a job that has read its upstream.
Counted == {"write", "reset", "append", "check", "SUCCEEDED"}

\* A job of the first two stages counts one batch in its upstream, and one that
\* copies in two commits is past the first.
JobFits(k, j) ==
    /\ k[1] <= 2 /\ j.at \in Counted => j.pinned = 1
    /\ j.at = "append" => k[1] > 1

\* The dataset of the job holds what it counted.
Holds(k) == job[k].at \in {"check", "SUCCEEDED"} /\ store[k[1]] = <<job[k].pinned>>

\* The job is to be run on, or again.
Outstanding(k) == job[k].at # "SUCCEEDED" /\ message[k].state \in Due

\* A dataset that a job wrote with success holds what one counted, unless another
\* is to write it still.
DatasetInv ==
    /\ store = [s \in 0..LastStage |-> store[s]]
    /\ {store[0], store[1]} \subseteq {<<>>, <<1>>}
    /\ \A k \in Runs : JobFits(k, job[k])
    /\ \A s \in Stages :
          (\E k \in Runs : k[1] = s /\ job[k].at = "SUCCEEDED") =>
              \E k \in Runs : k[1] = s /\ (Holds(k) \/ Outstanding(k))

\* The steps of a job that do not end in success: it may write its dataset.
Unsettles(k) ==
    /\ job[k].at # "SUCCEEDED" /\ (job[k].at = "none" => mover[k] # "idle")
    /\ \E new, rows :
          /\ job' = [job EXCEPT ![k] = new] /\ new.at # "SUCCEEDED" /\ JobFits(k, new)
          /\ store' = [store EXCEPT ![k[1]] = rows] /\ (k[1] = 1 => rows \in {<<>>, <<1>>})

\* Its success.
Settles(k) ==
    /\ job[k].at = "check" /\ store[k[1]] = <<job[k].pinned>>
    /\ job' = [job EXCEPT ![k] = [at |-> "SUCCEEDED", pinned |-> job[k].pinned]]
    /\ UNCHANGED store

\* All else.
LeavesDatasets == UNCHANGED job /\ store' \in {store, [store EXCEPT ![0] = <<1>>]}

\* A step of a job that moves it, and leaves its dataset.
LEMMA JobGoes ==
    ASSUME ReportedInv, DatasetInv, NEW k \in Runs, NEW step, step # "SUCCEEDED",
           job[k].at # "SUCCEEDED", job[k].at = "none" => mover[k] # "idle",
           job' = [job EXCEPT ![k].at = step],
           JobFits(k, [at |-> step, pinned |-> job[k].pinned]),
           NEW rows, store' = [store EXCEPT ![k[1]] = rows], k[1] = 1 => rows \in {<<>>, << 1 >>}
    PROVE  Unsettles(k)
<1>1. PICK new : new = [at |-> step, pinned |-> job[k].pinned]
  OBVIOUS
<1>2. job' = [job EXCEPT ![k] = new] /\ new.at # "SUCCEEDED" /\ JobFits(k, new)
  BY <1>1, JobAt
<1>3. QED BY <1>2 DEF Unsettles

\* What a step does to the jobs and to the datasets.
LEMMA DatasetSteps ==
    ASSUME ReportedInv, DatasetInv, CascadeNext
    PROVE  LeavesDatasets \/ \E k \in Runs : Unsettles(k) \/ Settles(k)
<1>0. ASSUME NEW k \in Runs
      PROVE  /\ k[1] \in 1..LastStage /\ k[1] \in Nat /\ k[1] # 0
             /\ store = [store EXCEPT ![k[1]] = store[k[1]]]
             /\ k[1] = 1 => store[k[1]] \in {<<>>, <<1>>}
             /\ JobFits(k, job[k])
  <2>1. k[1] \in 1..LastStage /\ k[1] \in Nat /\ k[1] # 0
    BY StageAssumption DEF Runs, Stages
  <2>2. store = [store EXCEPT ![k[1]] = store[k[1]]]
    BY DEF DatasetInv
  <2>3. QED BY <2>1, <2>2 DEF DatasetInv
<1>1. ASSUME NEW k \in Runs, NEW step, step \notin Counted, job' = [job EXCEPT ![k].at = step],
             UNCHANGED store, job[k].at # "SUCCEEDED", job[k].at = "none" => mover[k] # "idle"
      PROVE  Unsettles(k)
  <2>1. PICK new : new = [at |-> step, pinned |-> job[k].pinned]
    OBVIOUS
  <2>2. JobFits(k, new) /\ step # "SUCCEEDED"
    BY <1>1, <2>1 DEF JobFits, Counted
  <2>3. PICK rows : rows = store[k[1]]
    OBVIOUS
  <2>4. store' = [store EXCEPT ![k[1]] = rows] /\ (k[1] = 1 => rows \in {<<>>, <<1>>})
    BY <1>0, <1>1, <2>3
  <2>5. QED BY <1>1, <2>1, <2>2, <2>4, JobGoes
<1>2. ASSUME NEW k \in Runs, NEW step, step \in Counted \ {"SUCCEEDED"}, job[k].at \in Counted \ {"SUCCEEDED"},
             step = "append" => k[1] > 1,
             job' = [job EXCEPT ![k].at = step],
             NEW rows, store' = [store EXCEPT ![k[1]] = rows], k[1] = 1 => rows \in {<<>>, << 1 >>}
      PROVE  Unsettles(k)
  <2>1. PICK new : new = [at |-> step, pinned |-> job[k].pinned]
    OBVIOUS
  <2>2. JobFits(k, new)
    <3>1. new.at = step /\ new.pinned = job[k].pinned
      BY <2>1
    <3>2. JobFits(k, job[k])
      BY <1>0
    <3>3. QED BY <1>2, <3>1, <3>2 DEF JobFits
  <2>3. step # "SUCCEEDED" /\ job[k].at # "SUCCEEDED" /\ job[k].at # "none"
    BY <1>2 DEF Counted
  <2>4. QED BY <1>2, <2>1, <2>2, <2>3, JobGoes
<1>3. ASSUME NEW t \in Tokens, Produce(t) \/ HandleRawArrival(t) \/ IngestMedia(t) PROVE LeavesDatasets
  BY <1>3 DEF Produce, HandleRawArrival, IngestMedia, SeedRaw, IngestToBronze, LeavesDatasets
<1>4. ASSUME NEW k \in Runs,
             HandleStage(k) \/ DropTrigger(k) \/ AwaitSuccess(k) \/ AssertQuality(k) \/ Report(k)
      PROVE  LeavesDatasets
  BY <1>4 DEF HandleStage, DropTrigger, AwaitSuccess, AssertQuality, Report, LeavesDatasets
<1>5. ASSUME NEW s \in Stages, Restart(s) PROVE LeavesDatasets
  BY <1>5 DEF Restart, LeavesDatasets
<1>6. ASSUME NEW k \in Runs, SubmitStageJob(k) PROVE LeavesDatasets \/ Unsettles(k)
  <2>1. UNCHANGED store /\ mover[k] # "idle" /\ SubmitOrReattach(k)
    BY <1>6 DEF SubmitStageJob
  <2>2. CASE job[k].at = "none" /\ job' = [job EXCEPT ![k].at = "open"]
    BY <1>1, <2>1, <2>2 DEF Counted
  <2>3. CASE job[k].at = "FAILED" /\ job' = [job EXCEPT ![k] = NoJob]
    <3>1. NoJob.at # "SUCCEEDED" /\ JobFits(k, NoJob)
      BY DEF NoJob, JobFits, Counted
    <3>2. PICK rows : rows = store[k[1]]
      OBVIOUS
    <3>3. store' = [store EXCEPT ![k[1]] = rows] /\ (k[1] = 1 => rows \in {<<>>, <<1>>})
      BY <1>0, <2>1, <3>2
    <3>4. QED BY <2>1, <2>3, <3>1, <3>3 DEF Unsettles
  <2>4. QED BY <2>1, <2>2, <2>3 DEF SubmitOrReattach, LeavesDatasets
<1>7. ASSUME NEW k \in Runs, RetryStage(k) PROVE LeavesDatasets \/ Unsettles(k)
  <2>1. UNCHANGED store /\ mover[k] # "idle"
        /\ (UNCHANGED job \/ (job[k].at = "none" /\ job' = [job EXCEPT ![k].at = "open"]))
    BY <1>7 DEF RetryStage, Ambiguous
  <2>2. CASE job[k].at = "none" /\ job' = [job EXCEPT ![k].at = "open"]
    BY <1>1, <2>1, <2>2 DEF Counted
  <2>3. QED BY <2>1, <2>2 DEF LeavesDatasets
<1>8. ASSUME NEW k \in Runs, RunStage(k) PROVE Unsettles(k)
  <2>1. CASE store[k[1] - 1] = <<>>
    BY <1>1, <1>8, <2>1 DEF RunStage, JobGoto, Counted
  <2>2. CASE store[k[1] - 1] # <<>>
    <3>1. PICK new : new = [at |-> "write", pinned |-> store[k[1] - 1][1]]
      OBVIOUS
    <3>2. job' = [job EXCEPT ![k] = new] /\ UNCHANGED store /\ job[k].at = "open"
      BY <1>8, <2>2, <3>1 DEF RunStage
    <3>3. ASSUME k[1] <= 2 PROVE new.pinned = 1
      <4>1. k[1] - 1 = 0 \/ k[1] - 1 = 1
        BY <1>0, <3>3
      <4>2. store[k[1] - 1] = <<1>>
        BY <2>2, <4>1 DEF DatasetInv
      <4>3. QED BY <3>1, <4>2
    <3>4. JobFits(k, new) /\ new.at # "SUCCEEDED"
      BY <3>1, <3>3 DEF JobFits
    <3>5. PICK rows : rows = store[k[1]]
      OBVIOUS
    <3>6. store' = [store EXCEPT ![k[1]] = rows] /\ (k[1] = 1 => rows \in {<<>>, <<1>>})
      BY <1>0, <3>2, <3>5
    <3>7. QED BY <3>2, <3>4, <3>6 DEF Unsettles
  <2>3. QED BY <2>1, <2>2
<1>9. ASSUME NEW k \in Runs, ResetIfLegacy(k) PROVE Unsettles(k)
  <2>1. PICK rows : rows = store[k[1]]
    OBVIOUS
  <2>2. store' = [store EXCEPT ![k[1]] = rows] /\ (k[1] = 1 => rows \in {<<>>, <<1>>})
    BY <1>0, <1>9, <2>1 DEF ResetIfLegacy
  <2>3. QED BY <1>2, <1>9, <2>2 DEF ResetIfLegacy, JobGoto, Counted
<1>10. ASSUME NEW k \in Runs, ResetDataset(k) PROVE Unsettles(k)
  BY <1>2, <1>10 DEF ResetDataset, JobGoto, Counted
<1>11. ASSUME NEW k \in Runs, WriteWhole(k) PROVE Unsettles(k)
  <2>1. k[1] = 1 /\ job[k].at = "write" /\ JobFits(k, job[k])
    BY <1>0, <1>11 DEF WriteWhole
  <2>2. job[k].pinned = 1
    BY <2>1 DEF JobFits, Counted
  <2>3. store' = [store EXCEPT ![k[1]] = <<1>>] /\ job' = [job EXCEPT ![k].at = "check"]
    BY <1>11, <2>2 DEF WriteWhole, JobGoto
  <2>4. QED BY <1>2, <2>1, <2>3 DEF Counted
<1>12. ASSUME NEW k \in Runs, WriteEmpty(k) PROVE Unsettles(k)
  <2>1. k[1] > 1 /\ k[1] # 1
    BY <1>0, <1>12 DEF WriteEmpty
  <2>2. QED BY <1>2, <1>12, <2>1 DEF WriteEmpty, JobGoto, Counted
<1>13. ASSUME NEW k \in Runs, AppendRows(k) PROVE Unsettles(k)
  <2>1. k[1] > 1 /\ k[1] # 1 /\ job[k].at = "append"
    BY <1>0, <1>13 DEF AppendRows, JobFits
  <2>2. CASE store[k[1]] = <<>>
    BY <1>1, <1>13, <2>1, <2>2 DEF AppendRows, JobGoto, Counted
  <2>3. CASE store[k[1]] # <<>>
    <3>1. PICK more : store' = [store EXCEPT ![k[1]] = <<@[1] + more>>]
      BY <1>13, <2>3 DEF AppendRows
    <3>2. PICK rows : rows = <<store[k[1]][1] + more>>
      OBVIOUS
    <3>3. store' = [store EXCEPT ![k[1]] = rows]
      BY <3>1, <3>2
    <3>4. job' = [job EXCEPT ![k].at = "check"]
      BY <1>13, <2>3 DEF AppendRows, JobGoto
    <3>5. QED BY <1>2, <2>1, <3>3, <3>4 DEF Counted
  <2>4. QED BY <2>2, <2>3
<1>14. ASSUME NEW k \in Runs, CheckRows(k) PROVE Unsettles(k) \/ Settles(k)
  <2>1. job[k].at = "check" /\ UNCHANGED store
    BY <1>14 DEF CheckRows
  <2>2. CASE CountsAgree(k)
    <3>1. job' = [job EXCEPT ![k].at = "SUCCEEDED"]
      BY <1>14, <2>2 DEF CheckRows, JobGoto
    <3>2. job' = [job EXCEPT ![k] = [at |-> "SUCCEEDED", pinned |-> job[k].pinned]]
      BY <3>1, JobAt
    <3>3. QED BY <2>1, <2>2, <3>2 DEF Settles, CountsAgree
  <2>3. CASE ~CountsAgree(k)
    BY <1>1, <1>14, <2>1, <2>3 DEF CheckRows, JobGoto, Counted
  <2>4. QED BY <2>2, <2>3
<1>15. ASSUME NEW k \in Runs, FailJob(k) PROVE Unsettles(k)
  BY <1>1, <1>15 DEF FailJob, JobGoto, Running, Counted
<1>16. QED
  BY <1>3, <1>4, <1>5, <1>6, <1>7, <1>8, <1>9, <1>10, <1>11, <1>12, <1>13, <1>14, <1>15 DEF CascadeNext

\* A job that has not succeeded keeps its trigger.
LEMMA DueStep ==
    ASSUME ChainInv, ReportedInv, DatasetInv, DueInv, CascadeNext
    PROVE  DueInv'
<1>1. ASSUME NEW k \in Runs, job'[k].at \notin {"none", "SUCCEEDED"} PROVE message'[k].state \in Due
  <2>1. message[k].state \in Due /\ job[k].at # "SUCCEEDED"
    <3>1. job'[k] = job[k] => message[k].state \in Due /\ job[k].at # "SUCCEEDED"
      BY <1>1 DEF DueInv
    <3>2. ASSUME Unsettles(k) PROVE message[k].state \in Due /\ job[k].at # "SUCCEEDED"
      BY <3>2 DEF Unsettles, DueInv, Due
    <3>3. ASSUME NEW j \in Runs, j # k, Unsettles(j) \/ Settles(j) PROVE job'[k] = job[k]
      BY <3>3 DEF Unsettles, Settles, ReportedInv
    <3>4. ~Settles(k)
      BY <1>1 DEF Settles, ReportedInv
    <3>5. QED BY <3>1, <3>2, <3>3, <3>4, DatasetSteps DEF LeavesDatasets
  <2>2. QED BY <2>1, TriggersStayDue DEF StaysDue
<1>2. ASSUME NEW k \in Runs, mover'[k] # "idle" PROVE message'[k].state \in {"queued", "held"}
  BY <1>2, TriggersStayDue DEF StaysDue
<1>3. QED BY <1>1, <1>2 DEF DueInv

\* However jobs overlap, the last of those that wrote a dataset counts what it holds
\* after it, or is run again.
LEMMA DatasetStep ==
    ASSUME ChainInv, ReportedInv, DueInv, DatasetInv, CascadeNext
    PROVE  DatasetInv'
<1> DEFINE Healed(s) == (\E k \in Runs : k[1] = s /\ job[k].at = "SUCCEEDED") =>
                            \E k \in Runs : k[1] = s /\ (Holds(k) \/ Outstanding(k))
<1>0. \A s \in Stages : Healed(s)
  BY DEF DatasetInv
<1>1. ASSUME NEW k \in Runs, Outstanding(k), job'[k] = job[k] PROVE Outstanding(k)'
  BY <1>1, TriggersStayDue DEF Outstanding, StaysDue
<1>2. CASE LeavesDatasets
  <2>1. UNCHANGED job /\ store' = [s \in 0..LastStage |-> store'[s]]
        /\ {store'[0], store'[1]} \subseteq {<<>>, <<1>>}
        /\ \A s \in Stages : store'[s] = store[s]
    <3>1. 0 \in 0..LastStage /\ 1 \in 0..LastStage /\ Stages \subseteq 0..LastStage /\ 0 \notin Stages
      BY StageAssumption DEF Stages
    <3>2. CASE store' = store
      BY <1>2, <3>2 DEF LeavesDatasets, DatasetInv
    <3>3. CASE store' = [store EXCEPT ![0] = <<1>>]
      BY <1>2, <3>1, <3>3 DEF LeavesDatasets, DatasetInv
    <3>4. QED BY <1>2, <3>2, <3>3 DEF LeavesDatasets
  <2>2. \A k \in Runs : JobFits(k, job'[k])
    BY <2>1 DEF DatasetInv
  <2>3. ASSUME NEW s \in Stages PROVE Healed(s)'
    <3>1. \A k \in Runs : k[1] = s /\ Holds(k) => Holds(k)'
      BY <2>1 DEF Holds
    <3>2. QED BY <1>0, <1>1, <2>1, <3>1
  <2>4. QED BY <2>1, <2>2, <2>3 DEF DatasetInv, JobFits
<1>3. ASSUME NEW k \in Runs, Unsettles(k) PROVE DatasetInv'
  <2>1. PICK new, rows :
          /\ job' = [job EXCEPT ![k] = new] /\ new.at # "SUCCEEDED" /\ JobFits(k, new)
          /\ store' = [store EXCEPT ![k[1]] = rows] /\ (k[1] = 1 => rows \in {<<>>, <<1>>})
    BY <1>3 DEF Unsettles
  <2>2. k[1] \in Stages /\ k[1] \in 0..LastStage /\ k[1] # 0 /\ 1 \in 0..LastStage /\ 0 \in 0..LastStage
    BY StageAssumption DEF Runs, Stages
  <2>3. job'[k] = new /\ \A j \in Runs \ {k} : job'[j] = job[j]
    BY <2>1 DEF ReportedInv
  <2>4. store' = [s \in 0..LastStage |-> store'[s]] /\ \A s \in (0..LastStage) \ {k[1]} : store'[s] = store[s]
    BY <2>1, <2>2 DEF DatasetInv
  <2>5. {store'[0], store'[1]} \subseteq {<<>>, <<1>>}
    <3>1. store'[0] = store[0]
      BY <2>2, <2>4
    <3>2. k[1] # 1 => store'[1] = store[1]
      BY <2>2, <2>4
    <3>3. k[1] = 1 => store'[1] \in {<<>>, <<1>>}
      BY <2>1, <2>2 DEF DatasetInv
    <3>4. QED BY <3>1, <3>2, <3>3 DEF DatasetInv
  <2>6. \A j \in Runs : JobFits(j, job'[j])
    BY <2>1, <2>3 DEF DatasetInv
  <2>7. Outstanding(k)'
    <3>1. message[k].state \in Due /\ job[k].at # "SUCCEEDED"
      BY <1>3 DEF Unsettles, DueInv, Due
    <3>2. message'[k].state \in Due
      BY <3>1, TriggersStayDue DEF StaysDue
    <3>3. QED BY <2>1, <2>3, <3>2 DEF Outstanding
  <2>8. ASSUME NEW s \in Stages PROVE Healed(s)'
    <3>1. CASE s = k[1]
      BY <2>7, <3>1
    <3>2. CASE s # k[1]
      <4>1. \A j \in Runs : j[1] = s => job'[j] = job[j]
        BY <2>3, <3>2
      <4>2. store'[s] = store[s]
        BY <2>4, <3>2 DEF Stages
      <4>3. \A j \in Runs : j[1] = s /\ Holds(j) => Holds(j)'
        BY <4>1, <4>2 DEF Holds
      <4>4. QED BY <1>0, <1>1, <4>1, <4>3
    <3>3. QED BY <3>1, <3>2
  <2>9. QED BY <2>4, <2>5, <2>6, <2>8 DEF DatasetInv, JobFits
<1>4. ASSUME NEW k \in Runs, Settles(k) PROVE DatasetInv'
  <2>1. job'[k] = [at |-> "SUCCEEDED", pinned |-> job[k].pinned] /\ \A j \in Runs \ {k} : job'[j] = job[j]
    BY <1>4 DEF Settles, ReportedInv
  <2>2. UNCHANGED store /\ job[k].at = "check" /\ store[k[1]] = <<job[k].pinned>>
    BY <1>4 DEF Settles
  <2>3. \A j \in Runs : JobFits(j, job'[j])
    BY <2>1, <2>2 DEF DatasetInv, JobFits, Counted
  <2>4. Holds(k)'
    BY <2>1, <2>2 DEF Holds
  <2>5. ASSUME NEW s \in Stages PROVE Healed(s)'
    <3>1. CASE s = k[1]
      BY <2>4, <3>1
    <3>2. CASE s # k[1]
      <4>1. \A j \in Runs : j[1] = s => job'[j] = job[j]
        BY <2>1, <3>2
      <4>2. \A j \in Runs : j[1] = s /\ Holds(j) => Holds(j)'
        BY <2>2, <4>1 DEF Holds
      <4>3. QED BY <1>0, <1>1, <4>1, <4>2
    <3>3. QED BY <3>1, <3>2
  <2>6. QED BY <2>2, <2>3, <2>5 DEF DatasetInv, JobFits
<1>5. QED BY <1>2, <1>3, <1>4, DatasetSteps

LEMMA DatasetsSafe == Spec => [](DueInv /\ DatasetInv)
<1>1. Init => DueInv /\ DatasetInv
  <2> SUFFICES ASSUME CascadeInit PROVE DueInv /\ DatasetInv
    BY DEF Init
  <2>1. \A k \in Runs : job[k] = NoJob /\ mover[k] = "idle"
    BY DEF CascadeInit
  <2>2. NoJob.at = "none"
    BY DEF NoJob
  <2>3. DueInv
    BY <2>1, <2>2 DEF DueInv
  <2>4. store = [s \in 0..LastStage |-> IF s \in LegacyAt THEN <<1>> ELSE <<>>] /\ 0 \in 0..LastStage /\ 1 \in 0..LastStage
    BY StageAssumption DEF CascadeInit
  <2>5. {store[0], store[1]} \subseteq {<<>>, <<1>>}
    BY <2>4
  <2>6. store = [s \in 0..LastStage |-> store[s]]
    BY <2>4
  <2>7. \A k \in Runs : JobFits(k, job[k])
    BY <2>1, <2>2 DEF JobFits, Counted
  <2>8. QED BY <2>1, <2>2, <2>3, <2>5, <2>6, <2>7 DEF DatasetInv
<1>2. DueInv /\ DatasetInv /\ ChainInv /\ ReportedInv /\ [Next]_vars => (DueInv /\ DatasetInv)'
  <2> SUFFICES ASSUME DueInv, DatasetInv, ChainInv, ReportedInv, [Next]_vars
               PROVE  DueInv' /\ DatasetInv'
    OBVIOUS
  <2>1. CASE CascadeNext
    BY <2>1, DueStep, DatasetStep
  <2>2. CASE UNCHANGED cascadeVars
    <3>1. UNCHANGED <<store, job, message, mover>>
      BY <2>2 DEF cascadeVars
    <3>2. DueInv'
      BY <3>1 DEF DueInv
    <3>3. \A k \in Runs : /\ Holds(k)' <=> Holds(k)
                          /\ Outstanding(k)' <=> Outstanding(k)
                          /\ JobFits(k, job[k])' <=> JobFits(k, job[k])
      BY <3>1 DEF Holds, Outstanding, JobFits
    <3>4. DatasetInv'
      BY <3>1, <3>3 DEF DatasetInv
    <3>5. QED BY <3>2, <3>4
  <2>3. QED BY <2>1, <2>2 DEF Next, vars
<1>3. QED BY <1>1, <1>2, ReportedSafe, ChainSafe, PTL DEF Spec

\* ray_stage_job: however the jobs of a stage overlap, and whichever of them fail, once
\* no trigger is on its way or given up each dataset that was reported holds what a
\* job that succeeded counted in its upstream, for any numbers of stages and tokens.
THEOREM OverlapsHeal == Spec => []OverlapHeals
<1>1. ChainInv /\ ReportedInv /\ DueInv /\ DatasetInv => OverlapHeals
  <2> SUFFICES ASSUME ChainInv, ReportedInv, DueInv, DatasetInv, Settled, GivenUp = {}, NEW k \in complete
               PROVE  \E t \in Tokens :
                         LET last == job[<<k[1], t>>]
                         IN  /\ last.at = "SUCCEEDED" /\ store[k[1]] = <<last.pinned>>
                             /\ k[1] <= 2 => last.pinned = 1
    BY DEF OverlapHeals
  <2>1. k \in Runs /\ job[k].at = "SUCCEEDED" /\ k[1] \in Stages
    BY DEF ReportedInv, ReportedStands, Runs
  <2>2. PICK j \in Runs : j[1] = k[1] /\ (Holds(j) \/ Outstanding(j))
    BY <2>1 DEF DatasetInv
  <2>3. message[j].state \notin Due
    <3>1. j \in Triggers /\ TriggerInv(j) /\ DOMAIN message = Triggers
      BY RunsAreTriggers DEF ChainInv
    <3>2. message[j].state # "queued" /\ mover[j] = "idle"
      BY <3>1 DEF Settled
    <3>3. message[j].state \notin {"parked", "dropped"}
      BY <3>1 DEF GivenUp
    <3>4. QED BY <3>1, <3>2, <3>3 DEF Due, TriggerInv
  <2>4. Holds(j) /\ job[j].at = "SUCCEEDED"
    BY <2>2, <2>3 DEF Outstanding, Holds, DueInv
  <2>5. j[2] \in Tokens /\ j = <<k[1], j[2]>>
    BY <2>2 DEF Runs
  <2>6. store[k[1]] = <<job[j].pinned>> /\ (k[1] <= 2 => job[j].pinned = 1)
    BY <2>2, <2>4 DEF Holds, DatasetInv, JobFits, Counted
  <2>7. QED BY <2>4, <2>5, <2>6
<1>2. QED BY <1>1, ChainSafe, ReportedSafe, DatasetsSafe, PTL

-----------------------------------------------------------------------------
(* The stage lane implements the ledger of the cascade.                    *)

\* The triggers that were sent, and what lineage was told of.
Awake == {k \in Triggers : message[k].state # "none"}
Known == complete \cup {k \in Awake : k[1] = 0}
Before(k) == <<k[1] - 1, k[2]>>

\* No trigger is sent before its upstream is reported.
UpstreamInv == \A k \in Runs \cap Awake : Before(k) \in Known

\* A step that changes one trigger.
LEMMA SendsNone ==
    ASSUME ChainInv, NEW k \in Triggers, NEW new, new.state # "none",
           message' = [message EXCEPT ![k] = new]
    PROVE  Awake' = Awake \cup {k}
BY DEF ChainInv, Awake

\* And one that may send another besides.
LEMMA Sends ==
    ASSUME ChainInv, NEW k \in Triggers, NEW j \in Triggers \ {k}, NEW new, new.state # "none",
           message' = [Sent(j) EXCEPT ![k] = new]
    PROVE  Awake' = Awake \cup {k, j}
<1>1. PICK base : base = Sent(j)
  OBVIOUS
<1>2. /\ base \in [Triggers -> TriggerType]
      /\ \A i \in Triggers \ {j} : base[i] = message[i]
      /\ base[j].state # "none"
  BY <1>1, SentOne
<1>3. message'[k] = new /\ \A i \in Triggers \ {k} : message'[i] = base[i]
  BY <1>1, <1>2
<1>4. QED BY <1>2, <1>3 DEF Awake

\* What the steps of the cascade are to its ledger: the raw write of a token is heard
\* of, and its first trigger sent; a run is reported, and the next stage triggered;
\* or neither, and a job may move.
Hears(t) ==
    /\ Awake' \in {Awake, Awake \cup {<<0, t>>}, Awake \cup {<<0, t>>, <<1, t>>}}
    /\ UNCHANGED <<job, complete>>
Passes(k) ==
    /\ Awake' \in {Awake, Awake \cup {After(k)}}
    /\ job[k].at = "SUCCEEDED" /\ complete' = complete \cup {k}
    /\ UNCHANGED job
Works == UNCHANGED <<Awake, complete>>

LEMMA HearsStep ==
    ASSUME ChainInv, NEW t \in Tokens, Produce(t) \/ HandleRawArrival(t) \/ IngestMedia(t)
    PROVE  Hears(t)
<1>0. <<0, t>> \in Triggers /\ <<1, t>> \in Triggers /\ <<0, t>> # <<1, t>>
  BY StageAssumption DEF Triggers
<1>1. PICK k \in Triggers : k = <<0, t>>
  BY <1>0
<1>2. PICK j \in Triggers \ {k} : j = <<1, t>>
  BY <1>0, <1>1
<1>3. UNCHANGED <<job, complete>>
  BY DEF Produce, HandleRawArrival, IngestMedia
<1>4. CASE UNCHANGED message
  BY <1>3, <1>4 DEF Hears, Awake
<1>5. CASE message' = Sent(k)
  <2>1. Awake' = Awake \cup {k}
    BY <1>5, SentOne DEF Awake
  <2>2. QED BY <1>1, <1>3, <2>1 DEF Hears
<1>6. ASSUME NEW new, new.state # "none", k \in Awake \/ new = Arrived,
             \E base \in {message, Sent(j)} : message' = [base EXCEPT ![k] = new],
             k \in Awake \/ message' = [Sent(j) EXCEPT ![k] = new]
      PROVE  Hears(t)
  <2>1. Awake' = Awake \cup {k} \/ Awake' = Awake \cup {k, j}
    BY <1>6, SendsNone, Sends
  <2>2. QED BY <1>1, <1>2, <1>3, <2>1 DEF Hears
<1>7. CASE HandleRawArrival(t)
  <2>1. k \in Awake /\ message \in [Triggers -> TriggerType]
    BY <1>1, <1>7 DEF HandleRawArrival, Awake, ChainInv
  <2>2. PICK heard : heard = [message EXCEPT ![k].tries = @ + 1]
    OBVIOUS
  <2>3. PICK verdict \in {Arrived, AgainUpTo(MaxArrivals, heard[k])} :
          \E base \in {message, Sent(j)} : message' = [base EXCEPT ![k] = verdict]
    BY <1>1, <1>2, <1>7, <2>2 DEF HandleRawArrival
  <2>4. heard[k] \in TriggerType
    BY <2>1, <2>2 DEF TriggerType
  <2>5. verdict.state # "none"
    BY <2>3, <2>4, AgainType DEF Arrived
  <2>6. QED BY <1>6, <2>1, <2>3, <2>5
<1>8. CASE IngestMedia(t)
  <2>1. UNCHANGED message \/ message' = [Sent(j) EXCEPT ![k] = Arrived]
        \/ message' = [message EXCEPT ![k] = Refused]
    BY <1>1, <1>2, <1>8 DEF IngestMedia
  <2>2. Arrived.state # "none" /\ Refused.state # "none"
    BY DEF Arrived, Refused
  <2>3. CASE message' = [message EXCEPT ![k] = Refused]
    <3>1. Awake' = Awake \cup {k}
      BY <2>2, <2>3, SendsNone
    <3>2. QED BY <1>1, <1>3, <3>1 DEF Hears
  <2>4. QED BY <1>4, <1>6, <2>1, <2>2, <2>3
<1>9. QED BY <1>1, <1>4, <1>5, <1>7, <1>8 DEF Produce

LEMMA PassesStep ==
    ASSUME ChainInv, ReportedInv, NEW k \in Runs, Report(k) \/ RetryStage(k)
    PROVE  Passes(k) \/ Works
<1>1. /\ k \in Triggers /\ message \in [Triggers -> TriggerType] /\ message[k].state # "none"
      /\ k \in Awake /\ k[1] \in 1..LastStage
  BY MessageOf DEF Report, RetryStage, ChainInv, Awake, Runs, Stages
<1>2. k[1] < LastStage => After(k) \in Triggers \ {k} /\ Promoted(k) = Sent(After(k))
  BY <1>1, RunsAreTriggers
<1>3. mover[k] \in {"report", "reject"} => job[k].at = "SUCCEEDED"
  BY DEF ReportedInv, Assured
<1>4. ASSUME NEW base, base = message \/ (base = Promoted(k) /\ k[1] < LastStage),
             NEW new, new.state # "none", message' = [base EXCEPT ![k] = new]
      PROVE  Awake' = Awake \/ (base = Promoted(k) /\ Awake' = Awake \cup {After(k)})
  <2>1. CASE base = message
    <3>1. Awake' = Awake \cup {k}
      <4>1. message' = [message EXCEPT ![k] = new]
        BY <1>4, <2>1
      <4>2. QED BY <1>1, <1>4, <4>1, SendsNone
    <3>2. QED BY <1>1, <3>1
  <2>2. CASE base = Promoted(k) /\ k[1] < LastStage
    <3>1. Awake' = Awake \cup {k, After(k)}
      BY <1>1, <1>2, <1>4, <2>2, Sends
    <3>2. QED BY <1>1, <2>2, <3>1
  <2>3. QED BY <1>4, <2>1, <2>2
<1>5. CASE Report(k)
  <2>1. PICK base : /\ base = IF mover[k] = "reject" \/ k[1] = LastStage THEN message ELSE Promoted(k)
                    /\ message' = [base EXCEPT ![k].state = "done"]
    BY <1>5 DEF Report
  <2>2. base = message \/ (base = Promoted(k) /\ k[1] < LastStage)
    BY <1>1, <2>1, StageAssumption
  <2>3. base[k] \in TriggerType /\ k \in DOMAIN base
    <3>1. CASE base = message
      BY <1>1, <3>1
    <3>2. CASE base = Promoted(k) /\ k[1] < LastStage
      BY <1>1, <1>2, <3>2, SentOne
    <3>3. QED BY <2>2, <3>1, <3>2
  <2>4. PICK new : new = [base[k] EXCEPT !.state = "done"]
    OBVIOUS
  <2>5. new.state # "none" /\ message' = [base EXCEPT ![k] = new]
    BY <2>1, <2>3, <2>4 DEF TriggerType
  <2>6. Awake' = Awake \/ Awake' = Awake \cup {After(k)}
    BY <1>4, <2>2, <2>5
  <2>7. QED BY <1>3, <1>5, <2>6 DEF Report, Passes
<1>6. CASE RetryStage(k)
  <2>1. PICK base : /\ message' = [base EXCEPT ![k] = Again(@)]
                    /\ \/ base = message /\ UNCHANGED complete
                       \/ /\ base = message \/ (base = Promoted(k) /\ k[1] < LastStage)
                          /\ job[k].at = "SUCCEEDED" /\ complete' = complete \cup {k} /\ UNCHANGED job
    BY <1>3, <1>6 DEF RetryStage, Ambiguous, ReportedFirst
  <2>2. base[k] \in TriggerType /\ k \in DOMAIN base
    <3>1. CASE base = message
      BY <1>1, <3>1
    <3>2. CASE base = Promoted(k) /\ k[1] < LastStage
      BY <1>1, <1>2, <3>2, SentOne
    <3>3. QED BY <2>1, <3>1, <3>2
  <2>3. PICK new : new = Again(base[k])
    OBVIOUS
  <2>4. new.state # "none" /\ message' = [base EXCEPT ![k] = new]
    BY <2>1, <2>2, <2>3, AgainType DEF Again
  <2>5. CASE base = message /\ UNCHANGED complete
    BY <1>1, <2>4, <2>5, SendsNone DEF Works
  <2>6. CASE /\ base = message \/ (base = Promoted(k) /\ k[1] < LastStage)
             /\ job[k].at = "SUCCEEDED" /\ complete' = complete \cup {k} /\ UNCHANGED job
    BY <1>4, <2>4, <2>6 DEF Passes
  <2>7. QED BY <2>1, <2>5, <2>6
<1>7. QED BY <1>5, <1>6

LEMMA LedgerSteps ==
    ASSUME ChainInv, ReportedInv, CascadeNext
    PROVE  (\E t \in Tokens : Hears(t)) \/ (\E k \in Runs : Passes(k)) \/ Works
<1>0. message \in [Triggers -> TriggerType]
  BY DEF ChainInv
<1>1. ASSUME NEW k \in Runs, HandleStage(k) \/ DropTrigger(k) PROVE Works
  <2>1. k \in Triggers /\ k \in Awake
    BY <1>1, MessageOf DEF HandleStage, DropTrigger, Awake
  <2>2. PICK new : new.state # "none" /\ message' = [message EXCEPT ![k] = new]
    <3>1. PICK to : /\ to \in {"held", "dropped"}
                    /\ message' = [message EXCEPT ![k] = [state |-> to, tries |-> @.tries + 1]]
      BY <1>1 DEF HandleStage, DropTrigger
    <3>2. PICK new : new = [state |-> to, tries |-> message[k].tries + 1]
      OBVIOUS
    <3>3. QED BY <1>0, <2>1, <3>1, <3>2
  <2>3. Awake' = Awake
    BY <2>1, <2>2, SendsNone
  <2>4. UNCHANGED complete
    BY <1>1 DEF HandleStage, DropTrigger
  <2>5. QED BY <2>3, <2>4 DEF Works
<1>2. ASSUME NEW s \in Stages, Restart(s) PROVE Works
  <2>1. PICK lost : /\ lost = {k \in Runs : k[1] = s /\ mover[k] # "idle"}
                    /\ message' = [k \in DOMAIN message |-> IF k \in lost THEN Again(message[k]) ELSE message[k]]
    BY <1>2 DEF Restart
  <2>2. ASSUME NEW k \in Triggers PROVE message'[k].state # "none" <=> message[k].state # "none"
    <3>1. CASE k \in lost
      BY <1>0, <2>1, <3>1, MessageOf, AgainType DEF Again
    <3>2. CASE k \notin lost
      BY <1>0, <2>1, <3>2
    <3>3. QED BY <3>1, <3>2
  <2>3. QED BY <1>2, <2>2 DEF Restart, Works, Awake
<1>3. ASSUME NEW k \in Runs,
             \/ SubmitStageJob(k) \/ AwaitSuccess(k) \/ AssertQuality(k)
             \/ RunStage(k) \/ ResetIfLegacy(k) \/ ResetDataset(k) \/ WriteWhole(k) \/ WriteEmpty(k)
             \/ AppendRows(k) \/ CheckRows(k) \/ FailJob(k)
      PROVE  Works
  BY <1>3 DEF SubmitStageJob, AwaitSuccess, AssertQuality, RunStage, ResetIfLegacy, ResetDataset,
     WriteWhole, WriteEmpty, AppendRows, CheckRows, FailJob, Works, Awake
<1>4. QED BY <1>1, <1>2, <1>3, HearsStep, PassesStep DEF CascadeNext

LEMMA UpstreamStep ==
    ASSUME ChainInv, ReportedInv, UpstreamInv, CascadeNext
    PROVE  UpstreamInv'
<1>1. ASSUME NEW t \in Tokens, Hears(t) PROVE UpstreamInv'
  <2>1. Known \subseteq Known' /\ (<<0, t>> \in Awake' => <<0, t>> \in Known')
    BY <1>1 DEF Hears, Known
  <2>2. ASSUME NEW k \in Runs, k \in Awake' PROVE Before(k) \in Known'
    <3>1. CASE k \in Awake
      BY <2>1, <3>1 DEF UpstreamInv
    <3>2. CASE k \notin Awake
      <4>1. k \in {<<0, t>>, <<1, t>>} /\ k[1] \in 1..LastStage
        BY <1>1, <2>2, <3>2 DEF Hears, Runs, Stages
      <4>2. k = <<1, t>> /\ Before(k) = <<0, t>>
        BY <4>1, StageAssumption DEF Before
      <4>3. <<0, t>> \in Awake'
        BY <1>1, <2>2, <3>2, <4>2 DEF Hears
      <4>4. QED BY <2>1, <4>2, <4>3
    <3>3. QED BY <3>1, <3>2
  <2>3. QED BY <2>2 DEF UpstreamInv
<1>2. ASSUME NEW j \in Runs, Passes(j) PROVE UpstreamInv'
  <2>1. Known \subseteq Known' /\ j \in Known'
    BY <1>2 DEF Passes, Known
  <2>2. Before(After(j)) = j
    BY DEF Before, After, Runs, Stages
  <2>3. QED BY <1>2, <2>1, <2>2 DEF UpstreamInv, Passes
<1>3. CASE Works
  BY <1>3 DEF Works, UpstreamInv, Known
<1>4. QED BY <1>1, <1>2, <1>3, LedgerSteps

LEMMA UpstreamSafe == Spec => []UpstreamInv
<1>1. Init => UpstreamInv
  <2> SUFFICES ASSUME CascadeInit PROVE UpstreamInv
    BY DEF Init
  <2>1. Awake = {}
    BY DEF CascadeInit, Awake, Triggers, Unsent
  <2>2. QED BY <2>1 DEF UpstreamInv
<1>2. ChainInv /\ ReportedInv /\ UpstreamInv /\ [Next]_vars => UpstreamInv'
  <2> SUFFICES ASSUME ChainInv, ReportedInv, UpstreamInv, [Next]_vars PROVE UpstreamInv'
    OBVIOUS
  <2>1. CASE CascadeNext
    BY <2>1, UpstreamStep
  <2>2. CASE UNCHANGED cascadeVars
    BY <2>2 DEF cascadeVars, UpstreamInv, Known, Awake
  <2>3. QED BY <2>1, <2>2 DEF Next, vars
<1>3. QED BY <1>1, <1>2, ChainSafe, ReportedSafe, PTL DEF Spec

Finished == {k \in Runs : job[k].at = "SUCCEEDED"}
LedgerStep == [Ledger!Next]_(Ledger!ledgerVars)

LEMMA CascadeRefines ==
    ASSUME ChainInv, ReportedInv, DueInv, DatasetInv, UpstreamInv, ChainInv', CascadeNext
    PROVE  LedgerStep
<1>0. DOMAIN message = Triggers /\ DOMAIN message' = Triggers
  BY DEF ChainInv
<1>1. /\ Known = complete \cup {k \in DOMAIN message : k[1] = 0 /\ message[k].state # "none"}
      /\ Known' = complete' \cup {k \in DOMAIN message' : k[1] = 0 /\ message'[k].state # "none"}
  BY <1>0 DEF Known, Awake
<1>2. CASE Finished' = Finished /\ Known' = Known
  BY <1>1, <1>2 DEF LedgerStep, Ledger!ledgerVars, Finished
<1>3. ASSUME NEW t \in Tokens, Finished' = Finished, Known' = Known \cup {<<0, t>>} PROVE LedgerStep
  <2>1. Ledger!Seed
    BY <1>1, <1>3 DEF Ledger!Seed, Finished
  <2>2. QED BY <2>1 DEF LedgerStep, Ledger!Next
<1>4. ASSUME NEW k \in Finished, Finished' = Finished, Known' = Known \cup {k} PROVE LedgerStep
  <2>1. Ledger!Report
    BY <1>1, <1>4 DEF Ledger!Report, Finished
  <2>2. QED BY <2>1 DEF LedgerStep, Ledger!Next
<1>5. ASSUME NEW k \in Runs, Before(k) \in Known, Finished' = Finished \cup {k}, Known' = Known
      PROVE  LedgerStep
  <2>1. k \in (1..LastStage) \X Tokens
    BY DEF Runs, Stages
  <2>2. Ledger!Finish
    BY <1>1, <1>5, <2>1 DEF Ledger!Finish, Ledger!Upstream, Finished, Before
  <2>3. QED BY <2>2 DEF LedgerStep, Ledger!Next
<1>6. ASSUME NEW t \in Tokens, Hears(t) PROVE LedgerStep
  <2>1. Finished' = Finished /\ <<0, t>>[1] = 0 /\ <<1, t>>[1] # 0
    BY <1>6 DEF Hears, Finished
  <2>2. Known' = Known \/ Known' = Known \cup {<<0, t>>}
    BY <1>6, <2>1 DEF Hears, Known
  <2>3. QED BY <1>2, <1>3, <2>1, <2>2
<1>7. ASSUME NEW k \in Runs, Passes(k) PROVE LedgerStep
  <2>1. Finished' = Finished /\ k \in Finished /\ After(k)[1] # 0
    BY <1>7 DEF Passes, Finished, After, Runs, Stages
  <2>2. Known' = Known \cup {k}
    BY <1>7, <2>1 DEF Passes, Known
  <2>3. QED BY <1>4, <2>1, <2>2
<1>8. CASE Works
  <2>1. Known' = Known
    BY <1>8 DEF Works, Known
  <2>2. CASE LeavesDatasets
    BY <1>2, <2>1, <2>2 DEF LeavesDatasets, Finished
  <2>3. ASSUME NEW k \in Runs, Unsettles(k) PROVE LedgerStep
    <3>1. Finished' = Finished
      BY <2>3 DEF Unsettles, Finished, ReportedInv
    <3>2. QED BY <1>2, <2>1, <3>1
  <2>4. ASSUME NEW k \in Runs, Settles(k) PROVE LedgerStep
    <3>1. Finished' = Finished \cup {k}
      BY <2>4 DEF Settles, Finished, ReportedInv
    <3>2. k \in Awake
      BY <2>4, RunsAreTriggers DEF Settles, DueInv, Due, Awake
    <3>3. QED BY <1>5, <2>1, <3>1, <3>2 DEF UpstreamInv
  <2>5. QED BY <2>2, <2>3, <2>4, DatasetSteps
<1>9. QED BY <1>6, <1>7, <1>8, LedgerSteps

\* handle_stage, ray_submit and media_produce: a stage runs to its end only on an
\* upstream that lineage was told of, is told of only after it succeeded, and neither
\* is ever undone, for any numbers of stages, tokens and deliveries.
THEOREM ImplementsCascade == Spec => CascadeSpec
<1>1. Init => Ledger!Init
  <2> SUFFICES ASSUME CascadeInit PROVE Ledger!Init
    BY DEF Init
  <2>1. \A k \in Runs : job[k].at # "SUCCEEDED"
    BY DEF CascadeInit, NoJob
  <2>2. \A k \in DOMAIN message : message[k].state = "none"
    BY DEF CascadeInit, Unsent
  <2>3. QED BY <2>1, <2>2 DEF CascadeInit, Ledger!Init
<1>2. ChainInv /\ ReportedInv /\ DueInv /\ DatasetInv /\ UpstreamInv /\ ChainInv' /\ [Next]_vars
        => [Ledger!Next]_(Ledger!ledgerVars)
  <2> SUFFICES ASSUME ChainInv, ReportedInv, DueInv, DatasetInv, UpstreamInv, ChainInv', [Next]_vars
               PROVE  LedgerStep
    BY DEF LedgerStep
  <2>1. CASE CascadeNext
    BY <2>1, CascadeRefines
  <2>2. CASE UNCHANGED cascadeVars
    BY <2>2 DEF cascadeVars, LedgerStep, Ledger!ledgerVars
  <2>3. QED BY <2>1, <2>2 DEF Next, vars
<1>3. QED
  BY <1>1, <1>2, ChainSafe, ReportedSafe, DatasetsSafe, UpstreamSafe, PTL
     DEF Spec, CascadeSpec, Ledger!Spec

================================================================================
