# Verification of lance-ns

TLA+ models of lance-ns, a governed lakehouse over Lance tables on object
storage: FastAPI services that talk through Dapr sidecars and a NATS JetStream
broker, batch jobs on Ray, and a media pipeline. The models are about what
several processes must agree on: which version a write made, who may touch a
table, what a rerun does again, what a cache may still answer.

`PROJECT.json` lists, for every definition, the source lines it translates; for
every run, what it checks; for every property, a plausible bug in the code that
the property catches; every hazard, at its line; and the theorems. Paths below
are relative to `src/services/` unless they start with `src/`.

Sections: 1 the system, 2 the modules, 3 the runs and their bounds, 4 fairness,
5 what is proved, 6 what is only model-checked, 7 where the code and its
comments disagree, 8 what is not modelled, 9 what comes next.

## 1. The system

| component | state it keeps | operations | modelled in |
|---|---|---|---|
| stage mover (`medallion/services/transform.py`, `compute.py`) | one stage's dataset, a process-wide write lock | `handle_stage`: gates, transform, measure, report, trigger the next stage | `LineageDelivery`, `StageCascade` |
| lineage outbox, bounded publish (`common/outbox.py`, `dapr_publish.py`) | one JSON object per run id | stage, publish, drop, read, list | `LineageDelivery` |
| lineage service (`lineage/`) | a property graph, an event feed | consume, park, replay, query, prune | `LineageDelivery`, `LineageGraph`, `LineageFeed` |
| reconcile tick (`lineage/api/reconcile_cron.py`, `core/reconcile.py`) | none, single-flight | drain the outbox, back-fill the graph from storage | `LineageDelivery`, `LineageGraph` |
| warehouse registry (`catalog/services/warehouses.py` and its routes) | JSON records of warehouses and bindings, a cache per replica | create, bind, activate, deactivate, route; namespaces | `WarehouseRegistry` |
| tables and grants (`catalog/api`, `common/fga.py`) | the namespace backend's tables, tuples in OpenFGA | create in its modes, register, declare, rename, drop, deregister, batches, grants | `TableGrants`, `AuthStore` |
| catalog data routes (`catalog/services/dataplane.py`) | a Lance table's versions | inserts, merges, updates, schema changes, indexes, fragments committed for a client; the lineage of each | `TableWrites` over `LanceTable` |
| compaction (`compaction/`) | policies, a sweep per process | policies, the sweep, clean-up on request, tags | `TableMaintenance` over `LanceTable` |
| annotator (`annotator/annotations/`) | annotations of a media unit | load, save against a version, bulk tags | `AnnotationSaves` over `LanceTable` |
| search (`search/`) | a result cache in threads | the search modes | `SearchCache` |
| dataset registry (`common/lancekit/registry.py`) | a cached description per table | open and refresh under a lock | `DatasetRegistry` |
| control feed (`catalog/core/control_*.py`) | a ring per replica | emit, broadcast, poll, reset | `ControlFeed` |
| user state (`common/user_state.py`, `src/frontend/.../user-state.ts`) | one record per person, a mirror per browser | load, save, mirror, deploy | `UserState` |
| blobs and media (`catalog` blob routes, `viewer/services/clips.py`) | recordings by version, a directory of clips | ranged reads, clips cut, kept and sent | `BlobReads` |
| map points (`viewer/api/v1/endpoints/atlas.py`) | bodies per space and version | draw, keep, click | `AtlasPoints` |
| cascade on Ray (`medallion/services/`, `src/scripts/ray_stage_job.py`) | datasets of each stage, jobs by name | produce, trigger, submit or re-attach, wait, check, report | `StageCascade` |
| training (`medallion/services/train.py`, `src/scripts/ray_train_job.py`, `model_artifact_janitor.py`) | artifacts, a registry table, the blessed tag | request, run, register, promote, sweep | `ModelTraining` |
| media pipeline (`src/packages/ratch`) | tables of documents, chunks and derived rows | ingest, scan, append and blob stages | `FeatureStages` |
| runner jobs (`src/packages/ratch/core/jobs.py`) | the cluster's record of a named job | submit, attach, replace, wait | `RunnerJobs` |
| voices (`src/runners/voiceprint`) | turns, voices, speakers | extract, embed, build, cluster; the viewer's reads | `Voiceprints` |
| map and topics (`src/packages/ratch/features/projection.py`, `src/runners/topics`) | layout columns, topic layers, their tree | place, name, nest | `MapLayers` |
| knowledge graph (`src/runners/kg`, `viewer/.../graph.py`) | a builder's files, four tables, kept engines | export, build, fold, ask | `KnowledgeGraph` |

What is hard in it:

* **concurrency** — a trigger is redelivered while its first delivery is still
  handled; a Ray job outlives the mover that waits for it; relay, replay and
  consumer write the same run; writers, the sweep, compaction and clean-up share
  a table; threads share caches without a lock;
* **check, then act** — registry objects are read, checked and overwritten whole,
  with no condition on the write; a listing passes over records it cannot read;
* **failure** — processes die between any two commits; a publish that times out
  may have been accepted; no transaction spans the namespace backend and the
  grants;
* **ordering** — events arrive late, more than once, and after a restart all
  over again; event time is assigned at emit, not at commit;
* **stale data** — a version, a listing, a cursor or an engine that one step read
  is used in a later one.

What makes the parts correct is what the properties of section 3 say, one by
one. The hazards behind them are listed line by line in `PROJECT.json`.

## 2. The modules

Every component has a module of its own with its state, one action per handler
or step, and its properties. Components that meet only in a shared store are
composed by a module whose behaviours carry one traffic, chosen at the start:
their state spaces then add up instead of multiplying, and nothing is lost where
they share nothing, or where what the others do shows as a step of the shared
store. In `CatalogGovernance` the traffic says which kinds of request each worker
serves; its theorems hold for every such choice, every worker serving every kind
included.

| composition | components | they share |
|---|---|---|
| `LineageDelivery` (implements `LineageLedger`) | mover, outbox, broker, consumer, relay, replay | everything: fully interleaved |
| `LineageGraph` | the catalog's writes to a table, their events, the graph's views, the sweep | fully interleaved |
| `CatalogGovernance` | `AuthStore`, `WarehouseRegistry`, `TableGrants` | the relationship store; no table request writes the registry and no registry request a table |
| `DatasetSharing` | `TableWrites`, `TableMaintenance`, `AnnotationSaves` over `LanceTable` | the versions of a table: each lane has a step in which somebody else commits |
| `Serving` | `SearchCache`, `DatasetRegistry`, `ControlFeed`, `LineageFeed`, `UserState`, `BlobReads`, `AtlasPoints` | nothing |
| `Medallion` | `StageCascade` (implements `CascadeLedger`), `ModelTraining` | the cluster; a training reads versions pinned when it was asked for |
| `Pipeline` | `FeatureStages`, `RunnerJobs`, `Voiceprints`, `MapLayers`, `KnowledgeGraph` | nothing: each has its own tables and columns |

`MC<composition>` instantiates it for TLC; `<composition>_proofs` holds its
theorems (`LineageRefinement_proofs` those on phantoms and the ledger).

How state and actions correspond to the code, module by module:

**`LineageDelivery`.** `handler[m]` is an invocation of `handle_stage`: the await
it stands at, the event it reports if it gets to report now, the status it will
answer. Deliver, Refuse, Unresolved, Admit are the entry and the gates; Acquire,
Commit, Measure the locked section; Stage, Publish, Unstage are
`publish_lineage_with_outbox`, called for a COMPLETE and for every FAIL; Block,
Promote and Reply finish it. Each step that awaits has its failure beside it.
`Raise` is where the two callers of the outbox differ: a failed COMPLETE becomes
a FAIL, a failed FAIL is suppressed. `trigger` and `left` are the broker's and
the sidecar's view of a trigger, `staged` the outbox prefix, `stream` the
retained topic, `pending` what the subscription has not acknowledged; `keys`,
`batch` and `held` are the three points at which a drain holds data from an
earlier read. Left out: a deployment without compute, a PUT that raises after it
landed, the stream's retention of 168 hours, poison objects and the drain's cap
and order.

**`LineageGraph`.** `table` is the list of versions on storage; `flight` are
operations between commit and emit, `Measure` the read-back pinned at the version
the response named or at the current snapshot, `Emit` the stamp of the event
time. `Deliver` gives the graph any event of the topic, any number of times;
`Latest` and `Dropped` are the graph's read-time queries, `Seeded` the recency
gate. The sweep reads graph and storage in two steps and stamps in a third. Left
out: overwriting creates, renames, deregistrations, branches, retention, a second
dataset, and a read-back whose schema cannot be read, which names the version
without columns (`dataplane.py:117-121`). Bounds: `MaxOps`, `MaxInFlight`.

**`WarehouseRegistry`, `TableGrants`, `AuthStore`.** A request is a record of its
kind, what it read, and the await it stands at; every object write, every backend
call and every batch of tuples is a step, after which the request may abort, and
a write that raises may have landed. A create works on a listing from which any
records may be missing, as `list_warehouses` skips what it cannot read. `cache` is
each replica's, kept for ever. Three variables are history. `blind` holds the
warehouses and namespaces that a request wrote although something stood there that
it had not seen: a record its listing passed over, or one written since it looked.
`earned` holds the grants of a table's present incarnation. `residue` holds the
names that may carry older ones, until a later request clears them: a name whose
dropper, renamer or overwriter failed or died before it had revoked, a name freed
by a batch or by the rollback of a failed write over a declared one, and a name
that somebody granted on while it was free. Initially the registry holds what
creates, one after the other, may have left, or nothing. Left out: the serving
class of a warehouse, which these requests carry along and only a mover's choice
of a root reads. Bounds: `Workers` requests at once, `Traffic`, and the `Rungs` and
`Grantees` of grants made by hand.

**`LanceTable`, `TableWrites`, `TableMaintenance`, `AnnotationSaves`.** `log` is
what was committed, `live` what can still be opened, `tags` what pins it: the
storage library is not in the repository, and this is what its callers rely on.
`TableWrites` is one action per data route, `Reopen` and `ReadBack` what follows
the commit, and the fragments a client writes itself, which it commits again after
a conflict, an outage or an answer that never came: `fragments[c].doubts` counts the
answers that left open whether the append landed. `TableMaintenance` has the
three levels of policies, records that cannot be read, the sweep's passes with
their failures, clean-up on request and by the operator's command, and tags;
`inforce` is history, the rules that governed the table since the sweep listed them.
That clean-up and tags do not cross each other is the library's promise (`Cleaned`
of `LanceTable`), and no property rests on it alone. `AnnotationSaves` has both modes,
`direct` (one opening serves the save) and `catalog` (every read a request).
Bounds: `MaxVersions`, `MaxDoubts`.

**`SearchCache`.** One request of a thread reads the versions of the key table by
table, looks the key up, takes the entry out and puts it back (the LRU move), or
searches, opening the tables one by one, and stores. A lookup never interleaves
with itself but with everybody else's; an eviction, which picks the oldest entry and
pops it (`result_cache.py:124-125`), is one step. Bounds: `MaxCached` is the real setting,
`MaxWrites` per table.

**`DatasetRegistry`, `ControlFeed`, `LineageFeed`.** The description and its
double-checked lock; a ring per replica with cursors that restart from zero, and
a console that tracks who issued its cursor; the events table with its sequence,
which a refused insert uses up too, and pages of `Fetch` scanned rows filtered to
`Limit`. Bounds: `MaxRebuilds`, `MaxCursor`, `MaxSeq`, `MaxRuns`, `MaxGrants`,
`FailEmits`.

**`UserState`.** `pages` are the stores of one open page per browser, `mirrors`
the browsers' copies, `puts` saves on their way. A read may answer with the
record, with an unreadable schema, with 401 or not at all. Bounds: `MaxSaves`,
`MaxDeploys`, `MaxMishaps`.

**`BlobReads`, `AtlasPoints`.** A download follows the validator the catalog sends
with each range; a clip is transcoded under a lock to a scratch path, range by range
of whatever the recording then is, renamed and evicted by age. `since` of a clip is
the version the recording had when its transcoding began. The points are built from one version, kept under space and
version in a dictionary that threads pop without a lock, and clicked by row id.
Bounds: `MaxVersions`, `MaxTableVersions`; `Kept` and `PointsMax` are the code's.

**`StageCascade`.** `message` is each token's trigger per stage, `mover` its
handler, `job` the Ray job of that name, `lock` the mover's, `store` the batches
each dataset holds. A job pins the number of batches it counted in its upstream,
writes in one commit (`WriteWhole`, the first stage) or empties and appends
(`ResetDataset`, `WriteEmpty`, `AppendRows`), and compares its own count. A mover
may time out or restart while its job runs on. The media head reports its write and
then publishes the trigger, which may be refused (`Refused`): the client is told of a
failure and may repeat its token, or not. Folded or left out: a row-id check that
fails (`ray_stage_job.py:398`) is one of the ways of `FailJob`; the quality check
looks at the number of rows only (`quality.py:58-76` has other metrics); `AppendRows`
reads the upstream and commits in one step (`ray_stage_job.py:372`, 384), as a job pins
what it reads. What it all amounts to is
`CascadeLedger`: the stages that finished and those that lineage was told of, with
three actions (a raw write is heard of, a stage finishes on a reported upstream, a
finished one is reported). Bounds: `MaxDeliver`, `MaxArrivals`; `Ceiling` is a
setting, `LegacyAt` says which datasets are from before stable row ids.

**`ModelTraining`.** Request, trigger, job (artifacts, then one commit that
appends or creates the registry), the lineage event and the version it names, the
gate and promotion, the janitor's listing and deletions. Time passes in steps
longer than a sweep. Bound: `MaxTriggers`.

**`FeatureStages`, `RunnerJobs`.** Ingest replaces a document's chunk and counts
its text; the fill, extract and embed drivers read what is still to do, commit
batch by batch, and may be killed in between; the blob stage keeps a sidecar. A
caller submits a job under a fixed name, attaches to a run under way, or deletes
a finished one. Left out: a status poll that fails while a run exists and a delete
whose answer is lost (`jobs.py:183-195`), which only let a caller fail; a blob column
that is there and not to be overwritten (`driver.py:329-332`, where the stage does
nothing), and the scan of a table that holds blobs (`engine.py:211-231`). Bounds: `MaxIngests`, `MaxKills`, `MaxRuns`, `MaxAsks`.

**`Voiceprints`, `MapLayers`, `KnowledgeGraph`.** Each command reads, works, and
commits table by table or column by column, and dies anywhere. The graph's fold
resolves aliases along any forest of names (which name is an alias of which is
spelling, and abstracted), overwrites four tables, and the viewer keeps engines
under the version of the entities. A fold without a graph file, which overwrites with
empty tables, is left out. The layout half of `MapLayers` and the blob stage of
`FeatureStages` follow the code although no property depends on them. Bounds: `MaxCommands`, `MaxRebuilds`, `MaxStops`,
`MaxChunks`, `MaxLayers`, `MaxBuilds`, `MaxDeaths`, `MaxFolds`; `KeptEngines` is
the code's.

## 3. The runs and their bounds

The ten passing runs ask one question each of one composition; a run's
properties are in the components' modules, each under a comment that says what
it means. Deadlock is checked in `Serving_requests` only: elsewhere triggers
settle, bounds are reached, and nobody is left to act.

| run | bounds | properties |
|---|---|---|
| `Delivery_redelivery` | 1 run, 2 invocations in a process, 2 deliveries, 1 operator | `AcknowledgedAccounted`, `StagedRunNeverForgotten` |
| `Delivery_tworuns` | 2 runs, 2 invocations in a process, 1 delivery each, no drain | `NoPhantom`, `LedgerSpec` (the refinement of `LineageLedger`) |
| `Delivery_recovers` | 1 run, 1 invocation, 2 deliveries, the relay; fair | `StagedIsDrained`, `AcknowledgedRecorded`, `TriggersSettle` |
| `Graph_lifecycle` | 3 operations, two in flight, losses, 2 columns, drops, attachments, the sweep | `DroppedIsTruth`, `LatestIsTruth`, `InventoryConverges` |
| `Graph_sweep` | 3 operations, two in flight, losses; fair | `SweepConverges` |
| `Governance_requests` | 2 projects, warehouses, buckets (and a reserved one), replicas, tables and users, 1 namespace; two registry requests at once (create and create, create and status, bind or drop and bind, bind and create or drop of the namespace), or one table request | `TenantsApart`, `CacheAgrees`, `NothingOrphaned`, `QuarantineHolds`, `NoStaleGrant`, `CompensationKeepsData`, `TakenByItsOwner` |
| `Sharing_requests` | 3 versions, 1 tag, 2 policies, 2 clients, 2 reviewers, 2 annotations of 2 fields | `EventDescribesItsVersion`, `FragmentsAsTold`, `SweepObeysPolicy`, `DrawnOnItsBase` |
| `Serving_requests` | 2 threads, replicas, datasets or browsers; a cache of one, a ring of one, pages of one from windows of two over three rows, 4 versions of a recording, 1 kept clip, 3 versions of a map, 1 kept body | `AnswerNotStale`, `DescriptionAdvances`, `PollMissesNothing`, `PagingSkipsNothing`, `NothingUnseenLost`, `ServedWhole` |
| `Medallion_jobs` | 2 tokens, 2 stages, the first with a legacy dataset, 2 deliveries of a trigger, 1 of a raw write's event, 2 trainings with 2 triggers | `CascadeSpec` (the refinement of `CascadeLedger`), `OverlapHeals`, `NothingForgotten`, `ReferencedKept`, `OneVersionPerToken` |
| `Pipeline_stages` | 2 documents of 2 parts, 2 ingests, 2 kills, 4 runs and 4 requests of a runner, 2 commands and a kill among the voices, 2 layers and 4 builds of the map, 3 names and 2 folds | `NoRowTwice`, `DerivedFromItsText`, `AnsweredAfresh`, `VoicedOnce`, `TopicsOfOneBuild`, `GraphIsClosed`, `EntitiesAsOfAsking` |

Two more runs expect a violation: `Delivery_late_ack` and `Pipeline_split`
(section 7).

Why the bounds are enough. A race of the delivery needs two invocations of one
run, an invocation and a drain, or two runs on one dataset, and two deliveries
are enough for one to fail and the other to repeat it. Three operations on a table
allow create, drop and recreate, the shortest history in which version numbers
repeat, and with two in flight they are reported in any order. A registry guard is
passed by two requests that check before either writes, and the pairs of traffic are
those that write one object. A tenant takes another's bucket with two of each. A cache, ring
or directory of one entry is always full, which is where it goes wrong, and two
threads are enough to evict under each other. Two cascades are what it takes for
jobs to overlap in a dataset; two commits are what a stage can be killed between.
A first trigger is repeated by the media client as it is by a redelivered raw
event, so one delivery of that event is enough.
Three names make the shortest chain of aliases.

Of every safety property of these runs but `NoStaleGrant` and `TakenByItsOwner`
section 5 has the proof for all values of the constants, so that the runs' part is to show that the cases happen: each
property has a mutant in `PROJECT.json`, one definition with a plausible bug (a
lock not taken, a swallowed failure, an acknowledgement before the work, a key
computed too late), under which its run finds a violation.

Symmetry is used in safety runs only, over values that the module treats alike.

Some properties say less than one might wish, and their comments say so. What they
leave out is recorded in history variables, so that it is exactly what it is and
no more: `TenantsApart`, `CacheAgrees` and `NothingOrphaned` the warehouses and
namespaces in `blind`, `NoStaleGrant` the names in `residue`, `DerivedFromItsText` the
documents in `overlapped`, `FragmentsAsTold` one more landing per unknown answer.
`NothingUnseenLost` leaves out the pages that loaded their browser's copy, `CacheAgrees`
speaks of the bucket and not of the warehouse, and `ServedWhole` of a clip only that it
is finished and shows nothing older than its transcoding. Section 7 has what happens
there.

`Medallion_jobs` has two stages, though three movers are deployed:
three are out of TLC's reach with redelivery, and the theorems cover any number.

## 4. Fairness

`LineageDelivery!Fairness`: an invocation that is not killed runs to its answer
(weak; the event loop schedules it, publishes and the Ray path have timeouts, and
the in-process transform is a finite computation); the broker and the sidecar
deliver an owed trigger again (weak); an event that stays on the subscription is
in the end ingested or parked (strong, as a restart may reset the pending set;
the resiliency policy bounds the retries of each event and then uses the
dead-letter topic); the cron keeps ticking and infinitely often finds store and
graph up (weak for listing, strong for each read, ingest and drop, which a
failing tick interrupts). Nothing is assumed of crashes, of failures, or of
drains by operators.

`LineageGraph!FairSpec`: an operation in flight is emitted or lost (weak; the
request ends); the cron keeps ticking (weak). Delivery of events needs no
fairness: the sweep does not depend on it once the dataset is known.

The other modules state safety only.

## 5. What is proved

TLAPS proves the theorems below for every value of the constants that satisfies
the named assumptions of the modules: every safety property that a passing run
checks but `NoStaleGrant` and `TakenByItsOwner` (section 6) is among them, and both
refinements. Each theorem has the same shape: an
invariant that is inductive where the property is not, proved of the initial
states and of every action, and the property from it.

| theorem | of | the inductive invariant and why it is needed |
|---|---|---|
| `TypeCorrect` | `LineageDelivery!TypeOK` | is inductive itself |
| `AcknowledgedIsAccounted` | `AcknowledgedAccounted` | `ClaimsBacked`: an invocation about to answer SUCCESS, or at the drop or the promotion of a COMPLETE, has one in the stream; the acknowledgement is three awaits after the publish |
| `OutboxRemembers` | `StagedRunNeverForgotten` | `ClaimsBacked`, and `HeldIngested`: what a drain is about to drop was ingested |
| `NoPhantomOneProcess` | `NoPhantom` | `PhantomInv`: an invocation between Acquire and Measure holds the lock, one that committed finds its run as the last version, every event anywhere is genuine |
| `ImplementsLedger` | `LedgerSpec` | every step is a Commit, Accept, Record or Vouch of the ledger, or a stutter; from the two invariants above |
| `GraphTypeCorrect` | `LineageGraph!TypeOK` | `GraphInv`: operations are in flight or in the topic once, and times are distinct |
| `DroppedIsKnown`, `LatestIsKnown` | `DroppedIsTruth`, `LatestIsTruth` | `LastInv`: the last operation, in flight or reported, is a drop exactly when the table is gone, and names the version on storage or none; with `GraphInv`, its event is the newest run once all arrived. Any number of operations in flight, lost events, drops and back-fills |
| `ColumnsConverge` | `InventoryConverges` | `DescribedInv`: until something is dropped, an operation that declares columns declares those of the version it names |
| `TenantsStayApart`, `CachesAgree`, `NoneOrphaned`, `QuarantinesHold`, `CompensationSpares` | `TenantsApart`, `CacheAgrees`, `NothingOrphaned`, `QuarantineHolds`, `CompensationKeepsData` | `RegistryInv`, for any number of requests at once and any listings. It may not say that what a request read is still so; it says of each request in hand what is true of the request alone (the guards passed on what it saw; it made a table from nothing) or what no other request takes back (a record stays, and its project with it unless it is written blind). The step that writes then compares what was seen with what stands: they agree, or it is blind |
| `EventsAreTrue` | `EventDescribesItsVersion` | `EventInv`: pins name versions there are, and a version never changes |
| `FragmentsLandAsTold` | `FragmentsAsTold` | `FragmentsInv`: a client that may commit was not told that its fragments are in, and what is there beyond the confirmed commit is paid for by an answer that left it in doubt |
| `SweepsObey` | `SweepObeysPolicy` | `SweepInv`: what a sweep resolves from the records it read is among the rules that held since it listed them, and from its visit on allows the work |
| `SavesAreDrawnOnTheirBase` | `DrawnOnItsBase` | `SavesInv`: what a reviewer was shown is of the version its save will name *or of a later one*, so that the check against the latest leaves only that version |
| `DescriptionNeverBack` | `DescriptionAdvances` | `DescriptionInv`: what the holder of the lock has read is no older than the description |
| `FeedIsHonest` | `PollMissesNothing` | `FeedInv`: a ring is the end of what its replica took, cursors being positions in it |
| `PagesSkipNothing` | `PagingSkipsNothing` | `FeedPagesInv`: every row the reader is owed is there, visible, and below the cursor |
| `NoSaveOverTheUnseen` | `NothingUnseenLost` | `UserInv`: a page that the catalog answered was told of every view in the record |
| `AnswersAreCurrent` | `AnswerNotStale` | `SearchInv`: a key's versions are no newer than the tables until they were opened, and then no newer than the hits |
| `ServedIsWhole` | `ServedWhole` | `DownloadInv` (a client's parts are of its validator's version), `ClipsInv` (only scratch files are unfinished, and none holds anything older than its `since`), `PointsInv` (row ids are stable; a body is of its key; the cache overflows by at most the other threads) |
| `JanitorSpares` | `ReferencedKept` | `TrainingInv`: what the janitor is to delete belongs to jobs that will not commit, as a job between its write and its commit has young objects |
| `PublishesOnce` | `OneVersionPerToken` | `ToldInv`: the version a job is about to tell is the one it committed |
| `ReportsStand` | `ReportedStands`, which `CascadeSpec` implies | `ReportedInv`: a mover past the wait has a job whose success is final |
| `ImplementsCascade` | `CascadeSpec` | `UpstreamInv`: no trigger is sent before its upstream is reported; with `DueInv` below, a job that is about to succeed has a trigger, hence a reported upstream, and every step is a Seed, Finish or Report of the ledger, or a stutter |
| `TokensAreAccounted` | `NothingForgotten` | `ChainInv`: the triggers sent for a token are those of the stages up to some stage, and an acknowledged one was followed up |
| `OverlapsHeal` | `OverlapHeals` | `DueInv`: a job that has not succeeded has a trigger by which it is run again; `DatasetInv`: a dataset that a job wrote with success holds what one counted, unless another is to write it still |
| `AppendsOnce` | `NoRowTwice` | `ExtractInv`: what a run is to append is not in the output |
| `ValuesMatchTexts` | `DerivedFromItsText` | `FillInv`: a value on its way was derived from the text that is there, or the document is overlapped |
| `BuildsAreFresh` | `AnsweredAfresh` | `RunsInv`: a caller that waits, waits for a run that was not over when it came |
| `NoneVoicedTwice` | `VoicedOnce` | `VoicesInv`: a command at work lists recordings that have nothing of what it writes, and is the only one of its kind |
| `LayersAgree` | `TopicsOfOneBuild` | `TopicsInv`: when a command is about to add layers there are none |
| `FoldsAreClosed` | `GraphIsClosed` | `GraphInv`, and `ResolvedIsRoot`: following aliases as often as there are names ends at a root, in any forest (the pigeonhole principle over the chain) |
| `EntitiesNoOlder` | `EntitiesAsOfAsking` | `EnginesInv`: the entities of a kept engine are no older than its key |

Assumptions beyond those on the constants' types, and what justifies them:

* `SingleProcess` (`NoPhantomOneProcess`, `ImplementsLedger`): one mover process
  per stage, the chart's `moverReplicas: 1`. Two hold two locks and report each
  other's versions.
* One command of a kind at a time among the voices (`Starts` of `Voiceprints`;
  `NoneVoicedTwice`): nothing in `src/packages/ratch/cli/speaker.py` or
  `src/runners/voiceprint/voiceprint.py` enforces it. Two of a kind would list the same
  recordings and both append; it is how an operator runs them, and a kill and a
  rerun are allowed for.
* Sets of names and of the viewer's threads are finite, windows, limits, rings
  and caches hold at least one entry.

The lemmas the proofs share are in the proof modules: what a write of tuples or a
revocation may leave, that versions stay when others commit, what the ring and
the pages keep, sequences and the first match removed from them, chains of
aliases, and that triggers are never taken back.

What the proofs changed in the models. Removing the first entry with some key is
the community modules' `RemoveFirstMatch`, whose result can be reasoned about. A
CASE of `RunSearch` with overlapping guards is an IF. Pages and windows of no
rows, which no setting has, are excluded, as are infinite sets of names and
threads. A job that copies may find its upstream being reset, and then writes what
it counted. And the attempt to prove `OverlapHeals` as it stood (each reported
dataset holds exactly one batch) failed for a reason: it is false with three
stages. Section 7 has the behaviour; the property now says what holds for any
number of stages, and what holds up to the second.

## 6. What is only model-checked

The liveness properties `StagedIsDrained`, `AcknowledgedRecorded`,
`TriggersSettle` and `SweepConverges`: fairness and ENABLED are out of the
prover's reach. `NoStaleGrant` and `TakenByItsOwner`, which moreover are checked with
one table request at a time: two at once on one name pass each other between a
check, a change and a revocation (a drop's revocation takes the grants of a table made
again in between; an owner loses the right between its check and its act), and what
would remain of the properties is not worth a theorem. The two properties that are
violated. What is decided by the
values of small sets in the MC modules (which metric passes the gate, which
policies there are) is proved for any such values, but that the interesting
cases happen is TLC's part.

## 7. Where the code and its comments disagree

Two runs each violate one property, stated as the comment states it.

* `Delivery_late_ack` (`FailOnlyWithoutComplete`): a publish times out after the
  broker accepted the COMPLETE; the handler's `completed` flag is unset
  (`medallion/services/transform.py:362`), so FAIL is staged and published for a
  run that is out as COMPLETE. Redelivery repairs it, unless it was the last.
* `Pipeline_split` (`AppendConverges`): the append driver cuts the stream of
  results into batches with no regard for documents
  (`src/packages/ratch/core/driver.py:403`); killed after a batch with part of a
  document's rows, it takes the document for done. `driver.py:16-18` promises
  that a killed stage "always converges".

The proof attempt of `OverlapHeals` found another one, which takes three stages
(with `LastStage = 3` TLC confirms it in thirty steps; no run is kept for it). A
job of the third stage counts its upstream while the job of another token has
emptied and not yet refilled it, and reads 0 rows. Its mover
times out and lets go of the lock, so that the other token's third-stage job
overlaps with it, writes the full batch and reports; then the first one overwrites
the dataset with its 0 rows, finds that its own count agrees, and succeeds. The
quality check stops only the first token's run, and gold stays empty although a
run was reported. `medallion/services/transform.py:54-55` has it that scaling is
"still safe (last-writer-wins on identical deterministic content)", and
`src/docs/RESILIENCE.md:177-179` that the lock keeps a redelivered trigger from racing a
second overwrite: the content is not identical when a job reads between the two
commits of its upstream, and the lock is not held over a job that outlives its
mover. Up to the second stage, whose upstream is written in one commit, the
counts do find overlapping writers out; that is proved.

The models also show the following, which no run is kept for.

*Delivery and lineage.* A FAIL staged after a failed publish overwrites the staged
COMPLETE (`transform.py:379`), and the drain deletes by name an object that was
staged again since it was read (`reconcile_cron.py:197`): the run is remembered,
its inputs, version and columns are not. One persistently failing event starves
the drain behind it (`reconcile_cron.py:158-204`). A strictly older event re-links
columns that column lineage names, past the recency gate (`repository.py:800`, gate at
752). A back-fill with
an old version and a new time moves the latest version back (`repository.py:1161`,
370), as do two writes that emit in the opposite order of their commits, until the
sweep reads storage. A table that is dropped and recreated starts its versions again:
a late event of the former one with a higher version passes the recency gate and takes
the inventory. A lost recreate is never back-filled: the sweep skips a dropped dataset before it looks
at storage (`reconcile.py:175`). Without a version in its response, a write reads
back that of a concurrent one, and its event may name it.

*The cascade.* A trigger refused while an earlier Ray job of its token still runs
(access denied, or the project's warehouse deactivated) is dropped without a
record, and its dataset may be left emptied with nobody to redo it
(`transform.py:103`, 137, 312): `OverlapHeals` supposes that none was given up. A
job that reads a dataset between the two commits of a copy succeeds with 0 rows.
Records of jobs that the cluster lost make a token run again. The media head reports its
write and publishes the first trigger in separate failure domains
(`media_produce.py:127-170`): when the trigger is refused, the token is in lineage and
never runs unless its client repeats it.

*Training.* The janitor spares the `blessed` tag only, though a promotion moves
`staging` and `prod` too (`models.py:55`); a promotion does not look at the
artifacts; the description of a model may name a blessed version newer than its
latest. A job whose commit's answer is lost reports FAIL although it registered.

*Registry.* The guards are check-then-act on objects that are written without a
condition, and on listings that skip what cannot be read
(`catalog/services/warehouses.py:105-111`). Two creates at once claim one bucket, or one
warehouse id, for two projects; a single create misses a rival whose record it could
not read, or finds no record of a project that has one, whereupon the bootstrap gate
opens to the estate's administrator, who is then seeded as the project's
(`endpoints/warehouses.py:146-235`). A status change and a repeated create overwrite each
other whole: a quarantine that came after the create's read is lifted, and a bucket
that came after the status's read is set back. A namespace is bound twice by two
binds at once, or bound while it is made in the default root. All of it is `blind`
in the model. `endpoints/warehouses.py:392` calls a binding write-once against "a
DIFFERENT warehouse", but the guard compares buckets: a namespace that was dropped may be
bound again through another warehouse of the same bucket, and a replica that cached the
first one ("a binding is immutable", `dependencies.py:40-51`) goes on asking for the
status of the wrong warehouse, so that a quarantine of either reaches some replicas
only. Re-creating a warehouse with another bucket changes a record that
`warehouse_registry.py:13` calls immutable but for its status and frees the old bucket
for others although namespaces are bound to it; a mover's project root, cached for 5 s,
may then be a bucket that somebody else claims. A crash between a namespace's creation
and its binding makes every retry fail. A create whose seed failed cannot be repeated by
the estate's administrator. Routes that need no connection to the namespace, the grants, do
not meet the quarantine that is to suspend "EVERY op" (`dependencies.py:40-42`).

*Grants.* `fga_deps.py:466-467` has it that "a reused id can never inherit a stale grant".
It can where nothing revokes: a batch's deregistrations (`versions.py:97-131`), the
rollback of a failed write over a declared table (`dataplane.py:327-371`), a drop, rename
or overwrite that fails or dies before its revocation (which the docstring admits,
`fga_deps.py:472-473`), and the access routes, which grant on names that do not exist. A
batch's declarations have no compensation. A create over a declared table compensates
over the declarer. During an outage of the relationship store a failed create never
drops its table. An overwrite that looked and found no table compensates as a fresh
create would: when its grant fails it drops what is there, also a table that somebody
made since it looked, or wrote since, although `data.py:72-75` argues that only a fresh id
is dropped. A rename copies and then deletes, and loses what is written in between.

*Tables.* A fragment commit that is answered 503, or not at all, may have landed
(`dataplane.py:562-566`, 628); a client that repeats it, as it is told to, appends its rows
once more, for an append rebases and nothing recognises the fragments. The annotator's save is two commits, though its docstring says one
atomic version; a save that overlaps with another is not refused, may bring
deleted rows back, and a retried merge applies twice. A policy record that cannot
be read counts as unset: the sweep then works under the next level's rule, or the
defaults, on a table whose owner may have opted out or asked for a longer retention
(`common/maintenance_policies.py:93-96` skips the one record so as not to void the
others). What a preview of a clean-up listed may no longer hold
when it runs. A create that kept an existing table still reports a create.

*Readers.* The LRU move of the search cache pops what another thread evicted
(KeyError); a degraded "all" result is cached; dropping and recreating a table
restarts its versions, which are the keys of the caches and the validators of
blobs (`dataplane.py:765`). `/media` ranges carry no validator, so that a player or
the transcoder may mix two recordings, and a clip's key has no version
(`clips.py:37-41`): it outlives its recording; clips may go between build and
send. The map's bodies are popped without a lock (`atlas.py:123-124`): a request
fails with a KeyError, or the cache exceeds its bound by the number of other
threads. The control feed loses events silently on a cursor of 0 from an empty
ring, a restart, or a second replica, though `src/docs/DECISIONS.md:447-449` says that
a multi-replica catalog "degrades noisily, never wrongly". The event feed keeps
fewer rows than it is set to once events were redelivered, as a refused insert
uses a sequence value up. A page that got a 401, or could not reach the catalog,
is ready with its browser's empty or stale copy, and its next save overwrites the
record (`user-state.ts:87-90`, against that file's header).

*The media pipeline.* A fill may merge a value derived from a text that a re-ingest
replaced. A torn line at the end of a checkpoint makes every resume raise. A
sidecar left by a kill between attach and clean-up is used by a later
`--overwrite`. Frames appended after a blob column was added stay NULL. An atlas build
killed between x and y leaves a mixed layout that a default run reports as present
(`projection.py:109-111`), and chunks ingested between read and attach raise after
the old column was dropped. `cluster-speakers` overwrites a concurrent
`build-speakers`, and two commands of one kind at once would both append. A fold that finds
no graph file overwrites the four tables with empty ones (`adapter.py:187-189`, 460-465). An engine built between the four overwrites of a fold is kept
under the final version, entities new and relations old (`graph.py:186-189` argues
that it cannot be stale). The builder persists which documents are done apart from
the graph, so that a crash loses more than the window `build_kg.py:79-87` names.
Re-running `refine_person_types` after a fold drops the overrides.

## 8. What is not modelled

* Overload protection of the catalog: one counter, and one running sum per
  request; nothing interleaves.
* Credential vending and authentication: external services, no shared state.
* Ranking, fusion, query building, previews and other routes that only read;
  captions of frames; the inference of the runners; transcoding.
* The user interface but for the stores of saved views.
* A table that is dropped and recreated under the caches of section 7; the START
  and RUNNING events of trainings; the 5 s cache of a project's root in the
  movers; `refine_person_types`; the retention of runs; branches.
* Where two compositions meet beyond what section 2 names: `LineageDelivery`
  models the mover's in-process path and its report in full, `StageCascade` the
  Ray path with the report as one step.

## 9. What comes next

A run for the three-stage behaviour of section 7; table requests that overlap, with
what then still holds of grants; the warehouse id in the cached binding, once the code
compares it; the drain's order and cap; a reader between the four overwrites of a fold;
a refinement from the in-process stage of `LineageDelivery` to the stage of
`StageCascade`.
