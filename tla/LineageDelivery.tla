--------------------------- MODULE LineageDelivery ---------------------------
(***************************************************************************)
(* How one stage mover's work reaches the lineage graph.                   *)
(*                                                                         *)
(* A trigger delivered by the broker is handled by `handle_stage`: it      *)
(* writes the target Lance dataset under a process-wide lock, measures the *)
(* version it wrote, and reports the run through the lineage outbox        *)
(* (stage, publish, drop on ack) before it triggers the next stage.  The   *)
(* lineage service consumes the published events from a retained stream    *)
(* and, in parallel, the reconcile tick and the operators' replay endpoint *)
(* re-ingest whatever is still staged in the outbox.                       *)
(*                                                                         *)
(* Crashes of a mover process, failed and ambiguous publishes, redelivered *)
(* triggers, redelivered and replayed lineage events, and failures of any  *)
(* single outbox or storage call are all steps.                            *)
(***************************************************************************)
EXTENDS Naturals, Sequences, FiniteSets

CONSTANTS
    Runs,        \* the runs of the stage: one per trigger token (run_id is derived from it)
    Movers,      \* handler invocations that can be in flight at once
    Procs,       \* mover processes (replicas of the stage's deployment)
    ProcOf,      \* the process an invocation runs in
    Relays,      \* the reconcile tick: one at most, it is single-flight across the cluster
    Operators,   \* concurrent calls of the replay endpoint
    MaxDeliver,  \* deliveries of one trigger before it is given up
    None         \* no invocation holds the write lock

ASSUME ProcAssumption == ProcOf \in [Movers -> Procs]
ASSUME DeliverAssumption == MaxDeliver \in Nat \ {0}
ASSUME NoneAssumption == None \notin Movers \cup Runs
ASSUME DrainerAssumption == Relays \cap Operators = {}

Drainers == Relays \cup Operators

Event == [run : Runs, type : {"COMPLETE", "FAIL"}, version : Nat]
NoEvent == [run |-> None, type |-> "NONE", version |-> 0]
Complete(r, v) == [run |-> r, type |-> "COMPLETE", version |-> v]
Fail(r) == [run |-> r, type |-> "FAIL", version |-> 0]

Steps == {"idle", "gate", "wait", "write", "measure", "stage", "publish",
          "unstage", "promote", "reply"}
Answers == {"SUCCESS", "BLOCKED", "DROP", "RETRY"}
Outcomes == {"owed", "done", "blocked", "refused", "parked"}

VARIABLES
    lance,       \* the target dataset: lance[v] is the run that committed version v
    trigger,     \* what became of each run's trigger
    left,        \* deliveries each trigger has left
    handler,     \* each invocation: its step, the event it reports, its answer
    lock,        \* the holder of each process's write lock
    promoted,    \* runs whose next-stage trigger the broker accepted
    staged,      \* the outbox: at most one object per run id
    stream,      \* lineage events the broker retains
    pending,     \* events the lineage subscription has not acked
    deadLetters, \* events parked on the lineage dead-letter topic
    runState,    \* (:Run).event_type in the graph
    wrote,       \* the version on the run's WROTE edge, 0 when it has none
    ingested,    \* history: every event the graph was ever given
    keys,        \* per drainer: object names listed and not yet read
    batch,       \* per drainer: events read and not yet ingested
    held         \* per drainer: the event ingested whose object it drops next

moverVars == <<lance, trigger, left, handler, lock, promoted>>
graphVars == <<runState, wrote, ingested>>
drainVars == <<keys, batch, held>>
vars == <<lance, trigger, left, handler, lock, promoted, staged, stream, pending,
          deadLetters, runState, wrote, ingested, keys, batch, held>>

Idle == [at |-> "idle", event |-> NoEvent, answer |-> "RETRY"]

Init ==
    /\ lance = <<>>
    /\ trigger = [r \in Runs |-> "owed"]
    /\ left = [r \in Runs |-> MaxDeliver]
    /\ handler = [m \in Movers |-> Idle]
    /\ lock = [p \in Procs |-> None]
    /\ promoted = {}
    /\ staged = {}
    /\ stream = {} /\ pending = {} /\ deadLetters = {}
    /\ runState = [r \in Runs |-> "UNKNOWN"]
    /\ wrote = [r \in Runs |-> 0]
    /\ ingested = {}
    /\ keys = [d \in Drainers |-> {}]
    /\ batch = [d \in Drainers |-> {}]
    /\ held = [d \in Drainers |-> NoEvent]

-----------------------------------------------------------------------------
(* The stage handler.                                                      *)

At(m, step) == handler[m].at = step
RunOf(m) == handler[m].event.run
Goto(m, step, event, answer) ==
    handler' = [handler EXCEPT ![m] = [at |-> step, event |-> event, answer |-> answer]]
Release(m) == lock' = [lock EXCEPT ![ProcOf[m]] = None]

\* Until the run is measured, a failure reports FAIL and asks for redelivery.
Deliver(m, r) ==
    /\ At(m, "idle")
    /\ trigger[r] = "owed" /\ left[r] > 0
    /\ left' = [left EXCEPT ![r] = @ - 1]
    /\ Goto(m, "gate", Fail(r), "RETRY")
    /\ UNCHANGED <<lance, trigger, lock, promoted, staged, stream, pending, deadLetters,
                   graphVars, drainVars>>

\* An unsafe or unroutable project and a denied mover DROP without a record; an
\* authorization outage asks for redelivery.
Refuse(m) ==
    /\ At(m, "gate")
    /\ \E answer \in {"DROP", "RETRY"} : Goto(m, "reply", handler[m].event, answer)
    /\ UNCHANGED <<lance, trigger, left, lock, promoted, staged, stream, pending,
                   deadLetters, graphVars, drainVars>>

\* A project with no active warehouse records FAIL and DROPs; a registry outage
\* records FAIL and asks for redelivery.
Unresolved(m) ==
    /\ At(m, "gate")
    /\ \E answer \in {"DROP", "RETRY"} : Goto(m, "stage", Fail(RunOf(m)), answer)
    /\ UNCHANGED <<lance, trigger, left, lock, promoted, staged, stream, pending,
                   deadLetters, graphVars, drainVars>>

Admit(m) ==
    /\ At(m, "gate")
    /\ Goto(m, "wait", handler[m].event, "RETRY")
    /\ UNCHANGED <<lance, trigger, left, lock, promoted, staged, stream, pending,
                   deadLetters, graphVars, drainVars>>

\* MUTANT of Acquire: no single flight.
AcquireUnlocked(m) ==
    /\ At(m, "wait")
    /\ lock' = [lock EXCEPT ![ProcOf[m]] = m]
    /\ Goto(m, "write", handler[m].event, "RETRY")
    /\ UNCHANGED <<lance, trigger, left, promoted, staged, stream, pending, deadLetters,
                   graphVars, drainVars>>

\* The process-wide write lock is taken before the transform.
Acquire(m) ==
    /\ At(m, "wait")
    /\ lock[ProcOf[m]] = None
    /\ lock' = [lock EXCEPT ![ProcOf[m]] = m]
    /\ Goto(m, "write", handler[m].event, "RETRY")
    /\ UNCHANGED <<lance, trigger, left, promoted, staged, stream, pending, deadLetters,
                   graphVars, drainVars>>

\* The overwrite commits a new version of the target.
Commit(m) ==
    /\ At(m, "write")
    /\ lance' = Append(lance, RunOf(m))
    /\ Goto(m, "measure", handler[m].event, "RETRY")
    /\ UNCHANGED <<trigger, left, lock, promoted, staged, stream, pending, deadLetters,
                   graphVars, drainVars>>

\* MUTANT of TransformFails: the lock is not released on the error path.
TransformFailsHoldingLock(m) ==
    /\ At(m, "write") \/ At(m, "measure")
    /\ Goto(m, "stage", Fail(RunOf(m)), "RETRY")
    /\ UNCHANGED <<lance, trigger, left, lock, promoted, staged, stream, pending,
                   deadLetters, graphVars, drainVars>>

\* The transform (or the measurement after the commit) raises: bad media DROPs,
\* anything else asks for redelivery; both record FAIL.
TransformFails(m) ==
    /\ At(m, "write") \/ At(m, "measure")
    /\ \E answer \in {"DROP", "RETRY"} :
          /\ answer = "DROP" => At(m, "write")
          /\ Goto(m, "stage", Fail(RunOf(m)), answer)
    /\ Release(m)
    /\ UNCHANGED <<lance, trigger, left, promoted, staged, stream, pending, deadLetters,
                   graphVars, drainVars>>

\* The version is read back by opening the dataset, still under the lock.
Measure(m) ==
    /\ At(m, "measure")
    /\ Goto(m, "stage", Complete(RunOf(m), Len(lance)), "SUCCESS")
    /\ Release(m)
    /\ UNCHANGED <<lance, trigger, left, promoted, staged, stream, pending, deadLetters,
                   graphVars, drainVars>>

-----------------------------------------------------------------------------
(* publish_lineage_with_outbox, called for the COMPLETE and for a FAIL.    *)

\* A raise out of the COMPLETE's publish lands in the generic handler, which
\* reports FAIL; a raise out of a FAIL's publish is suppressed.
Raise(m) ==
    IF handler[m].event.type = "COMPLETE"
    THEN Goto(m, "stage", Fail(RunOf(m)), "RETRY")
    ELSE Goto(m, "reply", handler[m].event, handler[m].answer)

WithoutRun(objects, r) == {e \in objects : e.run # r}

Stage(m) ==
    /\ At(m, "stage")
    /\ staged' = WithoutRun(staged, RunOf(m)) \cup {handler[m].event}
    /\ Goto(m, "publish", handler[m].event, handler[m].answer)
    /\ UNCHANGED <<lance, trigger, left, lock, promoted, stream, pending, deadLetters,
                   graphVars, drainVars>>

\* Without its object the event is not published either.
StageFails(m) ==
    /\ At(m, "stage")
    /\ Raise(m)
    /\ UNCHANGED <<lance, trigger, left, lock, promoted, staged, stream, pending,
                   deadLetters, graphVars, drainVars>>

Accept(e) ==
    /\ stream' = stream \cup {e}
    /\ pending' = pending \cup {e}

Publish(m) ==
    /\ At(m, "publish")
    /\ Accept(handler[m].event)
    /\ Goto(m, "unstage", handler[m].event, handler[m].answer)
    /\ UNCHANGED <<lance, trigger, left, lock, promoted, staged, deadLetters, graphVars,
                   drainVars>>

\* MUTANT of PublishFails: the failure is swallowed and the run counts as reported.
PublishFailsSilently(m) ==
    /\ At(m, "publish")
    /\ Goto(m, "unstage", handler[m].event, handler[m].answer)
    /\ UNCHANGED <<lance, trigger, left, lock, promoted, staged, stream, pending,
                   deadLetters, graphVars, drainVars>>

\* MUTANT of PublishFails: the object is dropped whether or not the publish returned.
PublishFailsAndDrops(m) ==
    /\ At(m, "publish")
    /\ Raise(m)
    /\ staged' = WithoutRun(staged, RunOf(m))
    /\ UNCHANGED <<lance, trigger, left, lock, promoted, stream, pending, deadLetters,
                   graphVars, drainVars>>

\* The bounded publish raises; the broker may have accepted the event all the same.
PublishFails(m) ==
    /\ At(m, "publish")
    /\ Raise(m)
    /\ Accept(handler[m].event) \/ UNCHANGED <<stream, pending>>
    /\ UNCHANGED <<lance, trigger, left, lock, promoted, staged, deadLetters, graphVars,
                   drainVars>>

\* The drop is best effort and goes by the object's name, not by its content.
Unstage(m) ==
    /\ At(m, "unstage")
    /\ staged' \in {staged, WithoutRun(staged, RunOf(m))}
    /\ IF handler[m].event.type = "COMPLETE"
       THEN Goto(m, "promote", handler[m].event, "SUCCESS")
       ELSE Goto(m, "reply", handler[m].event, handler[m].answer)
    /\ UNCHANGED <<lance, trigger, left, lock, promoted, stream, pending, deadLetters,
                   graphVars, drainVars>>

-----------------------------------------------------------------------------
(* After the report.                                                       *)

\* A failed quality assertion blocks the promotion of a recorded run.
Block(m) ==
    /\ At(m, "promote")
    /\ Goto(m, "reply", handler[m].event, "BLOCKED")
    /\ UNCHANGED <<lance, trigger, left, lock, promoted, staged, stream, pending,
                   deadLetters, graphVars, drainVars>>

Promote(m) ==
    /\ At(m, "promote")
    /\ promoted' = promoted \cup {RunOf(m)}
    /\ Goto(m, "reply", handler[m].event, "SUCCESS")
    /\ UNCHANGED <<lance, trigger, left, lock, staged, stream, pending, deadLetters,
                   graphVars, drainVars>>

\* `completed` is set: the trigger is redelivered and no FAIL is reported.
PromoteFails(m) ==
    /\ At(m, "promote")
    /\ promoted' \in {promoted, promoted \cup {RunOf(m)}}
    /\ Goto(m, "reply", handler[m].event, "RETRY")
    /\ UNCHANGED <<lance, trigger, left, lock, staged, stream, pending, deadLetters,
                   graphVars, drainVars>>

\* MUTANT of Verdict: an exhausted trigger is acknowledged instead of parked.
VerdictAcksExhausted(answer, deliveries) ==
    CASE answer = "SUCCESS" -> "done"
      [] answer = "BLOCKED" -> "blocked"
      [] answer = "DROP" -> "refused"
      [] answer = "RETRY" -> IF deliveries = 0 THEN "done" ELSE "owed"

\* What an answer does to the trigger: an exhausted one goes to the dead-letter topic.
Verdict(answer, deliveries) ==
    CASE answer = "SUCCESS" -> "done"
      [] answer = "BLOCKED" -> "blocked"
      [] answer = "DROP" -> "refused"
      [] answer = "RETRY" -> IF deliveries = 0 THEN "parked" ELSE "owed"

\* The first answer that settles a trigger wins; a concurrent delivery's is moot.
Reply(m) ==
    /\ At(m, "reply")
    /\ trigger' = IF trigger[RunOf(m)] = "owed"
                  THEN [trigger EXCEPT ![RunOf(m)] = Verdict(handler[m].answer, left[RunOf(m)])]
                  ELSE trigger
    /\ handler' = [handler EXCEPT ![m] = Idle]
    /\ UNCHANGED <<lance, left, lock, promoted, staged, stream, pending, deadLetters,
                   graphVars, drainVars>>

Crash(p) ==
    /\ \E m \in Movers : ProcOf[m] = p /\ ~At(m, "idle")
    /\ handler' = [m \in Movers |-> IF ProcOf[m] = p THEN Idle ELSE handler[m]]
    /\ lock' = [lock EXCEPT ![p] = None]
    /\ UNCHANGED <<lance, trigger, left, promoted, staged, stream, pending, deadLetters,
                   graphVars, drainVars>>

-----------------------------------------------------------------------------
(* The lineage service.                                                    *)

\* The run vertex folds to the last event delivered; only a success carries a version.
Ingest(e) ==
    /\ runState' = [runState EXCEPT ![e.run] = e.type]
    /\ wrote' = IF e.type = "COMPLETE" THEN [wrote EXCEPT ![e.run] = e.version] ELSE wrote
    /\ ingested' = ingested \cup {e}

\* MUTANT of Consume: the event is acked before the graph has it.
ConsumeAckFirst(e) ==
    /\ e \in pending
    /\ pending' = pending \ {e}
    /\ Ingest(e) \/ UNCHANGED graphVars
    /\ UNCHANGED <<moverVars, staged, stream, deadLetters, drainVars>>

\* The ack may be lost, in which case the event is delivered again.
Consume(e) ==
    /\ e \in pending
    /\ Ingest(e)
    /\ pending' \in {pending, pending \ {e}}
    /\ UNCHANGED <<moverVars, staged, stream, deadLetters, drainVars>>

\* An event whose ingest keeps raising exhausts its retries and is parked.
DeadLetter(e) ==
    /\ e \in pending
    /\ pending' = pending \ {e}
    /\ deadLetters' = deadLetters \cup {e}
    /\ UNCHANGED <<moverVars, staged, stream, graphVars, drainVars>>

\* The subscription is ephemeral with deliverPolicy `all`: it starts over from
\* the retained stream.
LineageRestart ==
    /\ pending # stream
    /\ pending' = stream
    /\ UNCHANGED <<moverVars, staged, stream, deadLetters, graphVars, drainVars>>

DrainIdle(d) == keys[d] = {} /\ batch[d] = {} /\ held[d] = NoEvent

\* The tick lists the whole prefix.
List(d) ==
    /\ d \in Relays
    /\ DrainIdle(d)
    /\ staged # {}
    /\ keys' = [keys EXCEPT ![d] = {e.run : e \in staged}]
    /\ UNCHANGED <<moverVars, staged, stream, pending, deadLetters, graphVars, batch, held>>

\* A replay reads the one object it names.
Replay(d, e) ==
    /\ d \in Operators
    /\ DrainIdle(d)
    /\ batch' = [batch EXCEPT ![d] = {e}]
    /\ UNCHANGED <<moverVars, staged, stream, pending, deadLetters, graphVars, keys, held>>

\* Every listed body is read before the first is ingested; a vanished one is skipped.
ReadObject(d, r) ==
    /\ r \in keys[d]
    /\ keys' = [keys EXCEPT ![d] = @ \ {r}]
    /\ batch' = [batch EXCEPT ![d] = @ \cup {e \in staged : e.run = r}]
    /\ UNCHANGED <<moverVars, staged, stream, pending, deadLetters, graphVars, held>>

\* MUTANT of DrainIngest: an event the graph already has is passed over, and stays staged.
DrainIngestNewOnly(d, e) ==
    /\ keys[d] = {} /\ held[d] = NoEvent
    /\ e \in batch[d]
    /\ batch' = [batch EXCEPT ![d] = @ \ {e}]
    /\ IF e \in ingested
       THEN UNCHANGED <<graphVars, held>>
       ELSE Ingest(e) /\ held' = [held EXCEPT ![d] = e]
    /\ UNCHANGED <<moverVars, staged, stream, pending, deadLetters, keys>>

\* One event of the batch goes into the graph; its object is dropped next.
DrainIngest(d, e) ==
    /\ keys[d] = {} /\ held[d] = NoEvent
    /\ e \in batch[d]
    /\ Ingest(e)
    /\ batch' = [batch EXCEPT ![d] = @ \ {e}]
    /\ held' = [held EXCEPT ![d] = e]
    /\ UNCHANGED <<moverVars, staged, stream, pending, deadLetters, keys>>

DrainDrop(d) ==
    /\ held[d] # NoEvent
    /\ staged' = WithoutRun(staged, held[d].run)
    /\ held' = [held EXCEPT ![d] = NoEvent]
    /\ UNCHANGED <<moverVars, stream, pending, deadLetters, graphVars, keys, batch>>

\* A read, an ingest or a drop raises, or the service dies: the call ends here.
DrainAbort(d) ==
    /\ ~DrainIdle(d)
    /\ keys' = [keys EXCEPT ![d] = {}]
    /\ batch' = [batch EXCEPT ![d] = {}]
    /\ held' = [held EXCEPT ![d] = NoEvent]
    /\ UNCHANGED <<moverVars, staged, stream, pending, deadLetters, graphVars>>

-----------------------------------------------------------------------------
Handle(m) ==
    \/ Refuse(m) \/ Unresolved(m) \/ Admit(m) \/ Acquire(m) \/ Commit(m)
    \/ TransformFails(m) \/ Measure(m) \/ Stage(m) \/ StageFails(m) \/ Publish(m) \/ PublishFails(m)
    \/ Unstage(m) \/ Block(m) \/ Promote(m) \/ PromoteFails(m) \/ Reply(m)

Drain(d) ==
    \/ List(d) \/ DrainDrop(d) \/ DrainAbort(d)
    \/ \E e \in staged : Replay(d, e)
    \/ \E r \in keys[d] : ReadObject(d, r)
    \/ \E e \in batch[d] : DrainIngest(d, e)

Lineage == LineageRestart \/ \E e \in pending : Consume(e) \/ DeadLetter(e)

Next ==
    \/ \E m \in Movers : Handle(m) \/ \E r \in Runs : Deliver(m, r)
    \/ \E p \in Procs : Crash(p)
    \/ Lineage
    \/ \E d \in Drainers : Drain(d)

Spec == Init /\ [][Next]_vars

-----------------------------------------------------------------------------
(* Safety.                                                                 *)

\* Every variable keeps its type; a trigger is never delivered more than
\* MaxDeliver times and the outbox keeps one object per run id.
TypeOK ==
    /\ lance \in Seq(Runs)
    /\ trigger \in [Runs -> Outcomes]
    /\ left \in [Runs -> 0..MaxDeliver]
    /\ handler \in [Movers -> [at : Steps, event : Event \cup {NoEvent}, answer : Answers]]
    /\ \A m \in Movers : At(m, "idle") \/ handler[m].event \in Event
    /\ lock \in [Procs -> Movers \cup {None}]
    /\ promoted \subseteq Runs
    /\ staged \subseteq Event
    /\ \A e, f \in staged : e.run = f.run => e = f
    /\ stream \subseteq Event /\ pending \subseteq stream /\ deadLetters \subseteq stream
    /\ runState \in [Runs -> {"UNKNOWN", "COMPLETE", "FAIL"}]
    /\ wrote \in [Runs -> Nat]
    /\ ingested \subseteq Event
    /\ keys \in [Drainers -> SUBSET Runs]
    /\ batch \in [Drainers -> SUBSET Event]
    /\ held \in [Drainers -> Event \cup {NoEvent}]

\* A COMPLETE names a version that its own run committed.
Genuine(e) ==
    e.type = "COMPLETE" => e.version \in 1..Len(lance) /\ lance[e.version] = e.run

\* No phantom: whatever is staged, published or recorded as COMPLETE, and every
\* version on a WROTE edge, is a version of the target that this very run
\* committed (the promise of common/outbox.py, "no phantoms").  It rests on the
\* write lock: the version is read back from the dataset, not from the write.
NoPhantom ==
    /\ \A e \in staged \cup stream \cup ingested : Genuine(e)
    /\ \A r \in Runs : wrote[r] # 0 => Genuine(Complete(r, wrote[r]))

Succeeded(r, events) == \E e \in events : e.run = r /\ e.type = "COMPLETE"

\* A run whose trigger was acknowledged, as moved or as blocked by the quality
\* gate, or whose next stage was triggered, has a COMPLETE the broker accepted:
\* no downstream stage ever runs on an upstream run that lineage cannot know.
AcknowledgedAccounted ==
    \A r \in Runs :
        trigger[r] \in {"done", "blocked"} \/ r \in promoted => Succeeded(r, stream)

\* The outbox never forgets a run: an object disappears only when its run stays
\* staged, or has an event that was published or ingested.
StagedRunNeverForgotten ==
    [][\A e \in staged : \E f \in staged' \cup stream' \cup ingested' : f.run = e.run]_vars

\* The delivery pipeline implements the ledger it promises.
Ledger == INSTANCE LineageLedger WITH
    committed <- lance,
    accepted <- {<<e.run, e.version>> : e \in {f \in stream : f.type = "COMPLETE"}},
    recorded <- {<<e.run, e.version>> : e \in {f \in ingested : f.type = "COMPLETE"}},
    vouched <- promoted \cup {r \in Runs : trigger[r] \in {"done", "blocked"}}

LedgerSpec == Ledger!Spec

-----------------------------------------------------------------------------
(* Liveness.                                                               *)

Active(m) == Handle(m)
Redelivered(r) == \E m \in Movers : Deliver(m, r)
Heard(r) ==
    \E e \in pending : e.run = r /\ e.type = "COMPLETE" /\ (Consume(e) \/ DeadLetter(e))
RelayReads(d, r) == r \in keys[d] /\ ReadObject(d, r)
RelayIngests(d, r) == \E e \in batch[d] : e.run = r /\ DrainIngest(d, e)

\* A handler that is not killed runs to its answer, the broker keeps delivering
\* a trigger it is owed, an event that stays pending is in the end ingested or
\* parked, and the tick recurs and infinitely often finds the store and the
\* graph up.
Fairness ==
    /\ \A m \in Movers : WF_vars(Active(m))
    /\ \A r \in Runs : WF_vars(Redelivered(r)) /\ SF_vars(Heard(r))
    /\ \A d \in Relays :
          /\ WF_vars(List(d))
          /\ \A r \in Runs : SF_vars(RelayReads(d, r)) /\ SF_vars(RelayIngests(d, r))
          /\ SF_vars(DrainDrop(d))

FairSpec == Spec /\ Fairness

Handled(r) == \E m \in Movers : ~At(m, "idle") /\ RunOf(m) = r

\* Every trigger is settled, or has used up its deliveries with no handler left
\* working on it: crashes, outages and retries never keep a run busy for ever.
TriggersSettle ==
    \A r \in Runs : <>[](trigger[r] # "owed" \/ (left[r] = 0 /\ ~Handled(r)))

\* Whatever a mover leaves in the outbox is drained in the end, although ticks
\* abort and handlers keep staging.
StagedIsDrained ==
    \A r \in Runs : []<>(\A e \in staged : e.run # r)

\* A run acknowledged as moved is in the end recorded as COMPLETE by the graph
\* or parked on the dead-letter topic, although events are redelivered and the
\* lineage service restarts.
AcknowledgedRecorded ==
    \A r \in Runs : trigger[r] = "done" ~> Succeeded(r, ingested \cup deadLetters)

-----------------------------------------------------------------------------
(* What comments of the code say, and the code does not do.                *)

\* transform.py: FAIL is recorded only if the COMPLETE was never emitted.
FailOnlyWithoutComplete ==
    \A m \in Movers :
        At(m, "stage") /\ handler[m].event.type = "FAIL" => ~Succeeded(RunOf(m), stream)

=============================================================================
