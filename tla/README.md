# TLA+ models of the DFS-EV system

This directory holds TLA+ specifications of the parts of this repository whose
correctness rests on the order in which things happen: the feature store of the
pipeline, the odds collector, the caches and streams of the web application and
its pages, accounts and player data, the creator corpus tool, and the migration
runner. TLC checks them on small instances; the theorems are proved with TLAPS
for every value of the constants.

* [The system](#the-system)
* [Modules](#modules)
* [How the feature store model reads the code](#how-the-feature-store-model-reads-the-code)
* [How the live-prop cache model reads the code](#how-the-live-prop-cache-model-reads-the-code)
* [How the collector model reads the code](#how-the-collector-model-reads-the-code)
* [How the creator corpus models read the code](#how-the-creator-corpus-models-read-the-code)
* [How the application models read the code](#how-the-application-models-read-the-code)
* [Runs](#runs)
* [Fairness](#fairness)
* [Proofs](#proofs)
* [What the checks found](#what-the-checks-found)
* [Not modelled](#not-modelled)
* [Plan](#plan)

To check a run: `tlc -config source.cfg MCFeatureStore.tla` (the last column of
the run table names the module). To check the proofs: `tlapm` on
`FeatureStoreProofs.tla`, `LivePropCacheProofs.tla`, `OddsCollectionProofs.tla`,
`PrivateFileProofs.tla`, `CorpusProofs.tla`, `PredictionProofs.tla`,
`MigrationsProofs.tla` and `ApplicationProofs.tla`.

## The system

The repository is a monorepo: a Next.js application (`apps/web`), a pipeline
(`services/pipeline`), a database package (`packages/db`) and a package of
betting mathematics (`packages/domain`). The parts that keep state:

| Part | State | Operations | What is hard | What makes it correct |
| --- | --- | --- | --- | --- |
| Feature store: governance tables and object store (`packages/db/proposals/138`, `165`, `166`, `229`; `objectStore.ts`, `r2ObjectStore.ts`) | rows of snapshots, datasets and model runs; tombstones (`object_removals`); orphan observations; jobs; bytes by content address | SQL functions under address locks; `head`, `putIfAbsent`, `delete`, `list` | two stores with no common transaction; late PUT and DELETE; locks that die with their session | a live row has its bytes; deleted content is never published again; bytes that should go are owned by exactly one cleaner |
| Source ingestion and jobs (`ingest.ts`, `jobs.ts`) | one job per identity | `ingestSource`, `startJob`, `finishJob` | the PUT comes before the lock; a lost session | one executor per job; a refused ingestion re-queues what it put |
| Dataset builds (`datasets.ts`) | one manifest per build | `buildDataset`, `withDatasetRead`, `pruneDerivedDataset` | an input deleted between authorization and seal | a live dataset's snapshots are live |
| Model publication (`modelManifests.ts`, `165`) | runs, model observations | `publishQbModelRun`, `enroll_model_objects`, `publish_model_run` | preflight that is stale when the PUT runs; two publishers of one run | an observation never sits beside an artifact; a live run's datasets are live |
| Deletion and cleanup (`governance.ts`, `166`, `229`) | removal queue | `delete_sources`, `delete_datasets`, `requeue_removed_object`, `cleanupDeletedObjects`, `sweepOrphanObjects`, recovery lane | stale pages; a crash between DELETE and acknowledgement; two cleaners | the grace is honoured; no live bytes are reclaimed; deleted bytes go in the end |
| Evaluation reports (`evaluation-report.ts`) | staged report | `completeQbReport`, `discardUnpublishedReport` | discard against publication of the same report | as above |
| Rights (`163`, `231`) | rights rows | authorization predicates | sampled before and after waits | a refusal leaves no row behind |
| Predictions (`predict.ts`, `predictionOwner.ts`) | a connection, a latch, a disposition | `predictQbModel` under its owner | two timers and an abort against a running statement; what is abandoned goes on | a pooled connection given back is idle; delivery is authorized after the calculation |
| Odds collector (`oddsCollector.ts`, `oddsCollectionRepo.ts`) | checkpoints with leases and attempts; the pin of the week | wake, select, pin, supersede, upsert, claim, fetch, persist, complete, fail, skip | overlapping wakes; a lease that lapses; a crash between persist and complete; a postponed kickoff | requests are bounded by counted attempts; evidence is captured in its window; finished work stays finished |
| Collection schedule (`oddsCollectionPolicy.ts`, `nflWeek.ts`) | none | `planBaselineCheckpoints`, `planPriorityCheckpoints` and the calendar they use | the night the clocks change | windows without gap or overlap, in the week of the game |
| Odds snapshots and history (`oddsSnapshot.ts`, `oddsSnapshotRepo.ts`, `historicalOddsQuery.ts`) | observations and shared sets of quotes | `persistOddsObservation`, historical consensus | observations of one content share quotes and are stored in any order | a question about the past is answered with what was offered then |
| Discovery cache (`oddsCacheRepo.ts`) | cache rows; in-flight map of each instance | `getOrFetchMarketOdds` | several writers of one response, in any order | an answer's odds are of the time it says, and within the window it allows |
| Live-prop cache (`livePropCache.ts`, `livePropRefresh.ts`) | one row per key with a lease | `getOrRefresh` | lease lapse, renewal in flight, failed write | one upstream fetch at a time; no older value stored |
| Live odds stream (`api/stream/route.ts`, `useLiveOddsStream.ts`) | timers and connections at both ends | tick, cancel, reconnect, switch | cancel against an awaiting tick; old timers and messages | "live" means live; a plotted history is one series |
| Slate browser (`SlateBrowser.tsx`, `matchupSlice.ts`) | slate, selection, props | load, select, discover | answers out of order, to a component that is gone | the props shown are those of the selection |
| Accounts, watchlist, submissions (`useInitAuth.ts`, `watchlistToggle.ts`, `accountDeletion.ts`, submissions page) | user document, Auth record, page state | sign in and out, load, toggle, delete, submit | users change while answers are under way; half a deletion | a page shows its user's own data; "deleted" means deleted |
| Player identity and statistics (`playerStatsSync.ts`, `nflverseRosterSync.ts`, `playerCrosswalk.ts`) | tables, recorded releases, the crosswalk | sync, resolve | a batch that fails; releases that move on; two resolutions of one name | what is recorded as copied was copied; one player for a name |
| Creator corpus: private files (`privateOutput.ts`, `captureStore.ts`, `decisionStore.ts`) | the file, its lock file, claims | save, take over, release | a process that dies anywhere; two takeovers | a reported save stays; the lock of a live save is not removed |
| Creator corpus: pages and server (`review/`) | drafts, box, queue; decisions shown | capture, replace, decide, reload | answers out of order | a typed text is kept; what is shown only gets newer |
| Creator corpus: discovery, gate, import (`commands.ts`, `youtubeApi.ts`, `readinessGate.ts`, `importPlanner.ts`, `importPublisher.ts`, `apiExpiry.ts`) | private records, public gate, corpus tables | resolve, confirm, discover, purge, register, import, expire | a channel that changes while it is listed; imports that overlap | a discovery misses no more of the window than was removed while it was listed; nothing committed is lost |
| Migrations (`packages/db/tooling`) | ledger, catalog | plan, approve, apply, verify, bootstrap | a catalog that changes between plan and apply; two runners | the ledger never lies; no more is done than was approved |
| Readiness, telemetry, collector health, betting mathematics | none, or best effort | summaries, comparisons, arithmetic | no order of their own | — |

How they interact. The pipeline's publishers, deleters and cleaners never call
each other: they meet in the `fs138` tables, in the object store, and at
`pg_advisory_xact_lock(hashtextextended(address,138))`. A publisher writes
bytes first and references them in a transaction afterwards; a cleaner decides
under the lock, deletes from the store inside its transaction, and lets COMMIT
release the lock. In the web application, instances share nothing but
PostgreSQL: a stream tick calls `getSharedLivePropInputs`, which calls
`getOrRefresh` over one row per prop, whose fetch calls the provider and
persists the observation that the collector and the historical queries use too.
The collector's runs meet only in their ledger. The processes of the corpus tool
meet in private files under lock files, and in the corpus database under a
serializable transaction and an advisory lock.

## Modules

| Module | Models |
| --- | --- |
| `GovernanceTables` | the shared state of the feature store: bytes, rows, tombstones, observations, locks, jobs; what the SQL reads; time and late requests |
| `SourcePublication` | `ingestSource`, `buildDataset`, `startJob`, `finishJob` |
| `ModelPublication` | `publishQbModelRun` with the enrollment and guard functions of 165 and 166 |
| `ArtifactCleanup` | deletions, the removal queue, the orphan sweep, report staging and discard |
| `FeatureStore` | their composition, its properties and fairness |
| `PublishedObjects` | the abstract specification: what the feature store promises without locks, queues or sweeps |
| `MCFeatureStore` | small instances |
| `FeatureStoreProofs` | its state invariants, its action properties, and that it implements `PublishedObjects`, proved |
| `LivePropCache`, `MCLivePropCache`, `LivePropCacheProofs` | `getOrRefresh` over one cache row: the model, an instance, its proofs |
| `OddsCollection`, `MCOddsCollection`, `OddsCollectionProofs` | the collector's runs over their ledger: the model, an instance, its proofs |
| `PrivateFile`, `MCLockTakeover`, `PrivateFileProofs` | saves under a lock file, with takeover: the model, the instance in which two takeovers meet, the proofs for one |
| `CapturePage`, `ReviewPage` | the two pages of the review server |
| `CorpusManifest` | the inclusion rule, the queue and the readiness report, which read the same facts by different code |
| `CorpusDiscovery` | resolve, confirm, discover, purge and the gate |
| `CorpusImport` | import and expiry |
| `MCCorpus`, `CorpusProofs` | the parts of the corpus tool in one instance; the proofs of its properties |
| `OddsStream`, `DiscoveryCache`, `SlateBrowsing`, `Accounts` | the web application: stream and live analysis, odds cache, slate browser, accounts and submissions |
| `PlayerSync`, `OddsEvidence`, `CheckpointSchedule` | player data, odds evidence and its history, the schedule the collector plans |
| `Prediction`, `PredictionProofs` | a prediction under its owner: the model, its proofs |
| `Migrations`, `MigrationsProofs` | the migration runner: the model, its proofs |
| `MCApplication`, `ApplicationProofs` | these nine in one instance; the proofs of its properties |

Definitions called "variant with a fault", or "a version that ...", next to the
original they vary are mutants: each is a plausible bug, and each property is
known to fail under one.

## How the feature store model reads the code

**Addresses.** Object keys are digests of their content, so an address is one
value: "the bytes are there" is membership in `bytes`, and two PUTs to an
address put the same thing. Which row references which address (`Files`) and
derives from which row (`Inputs`) is the schema, a constant.

**Rows.** `row[x]` is absent, live or withdrawn. Withdrawal (`deleted_at`,
`invalidated_at`) is permanent: the SQL only ever fills the columns by
`coalesce`.

**Tombstones.** `outcome[a]` is the state of the row of `object_removals`:
none, pending (`completed_at` NULL), or its outcome; no code deletes the row.
`elapsed[a]` says that `remove_after` has passed; `GraceElapses` is the clock.
A repeated deletion re-arms it (`Withdraw`), a re-queue does not (`Requeued`).

**Observations.** `observed[a]` is the age class of an `orphan_observations`
row: fresh, past the sweep's grace, past the retirement window.

**Locks and transactions.** `lock[a]` is the session that holds the address
lock. A wait is an action that is not enabled. What a transaction writes before
COMMIT is invisible to others, so its writes are made by the action that stands
for COMMIT (`CommitSource`, `PublishRun`, `AckRemoval`), while its reads, its
lock and its object-store calls are actions of their own: between them other
processes run. `PinnedRows` are the `FOR SHARE` row locks that publication
holds on its inputs, which a deletion waits for (`RowsUnpinned`).

**Awaits.** `pc` is the await a process is suspended at; one action runs from
one await to the next. `SourceStep` and `IngestStep` follow `ingest.ts:36-105`
and `datasets.ts:120-175`, `RunStep` follows `modelManifests.ts:80-128`,
`CleanerStep` follows `governance.ts:46-75` and `104-140`.

**Pages.** A cleaner reads a page of candidates and handles them one by one in
transactions of their own. The model selects one candidate and lets any time
pass before its turn, which is what a page is to each of its members.

**Failures.** Refusals of every kind (rights, conflicts, missing objects,
statement timeouts) leave a transaction by `AbortSource` or `AbortRun`, enabled
at every step inside it. With `Faults`, sessions are lost and processes die at
any await (`InterruptSource`, `InterruptCleaner`; `AbortRun` covers model
publishers): locks go, nothing is re-queued. With `LatePuts`, a PUT given up by
its caller lands at any later time; with `LateDeletes`, so does a DELETE whose
session has been lost.

**The promise.** `PublishedObjects` has four actions: bytes arrive; a row is
published over bytes that are there and were never deleted, from live inputs;
rows are withdrawn together with everything derived from them; bytes that no
live row uses are reclaimed. `FeatureStore` implements it with `deleted` mapped
to the addresses that have a tombstone.

## How the live-prop cache model reads the code

One key is one row, and rows share nothing, so one row is modelled. A missing
row and an all-NULL row are the same to every statement, so there is one kind;
NULL instants are 0, and the clock starts at the TTL so that "start less TTL"
is an instant. A payload is the instant at which its fetch began. Each caller
is one call with its own `ownerId`. Every SQL statement is one action at the
instant PostgreSQL executes it and may take any time; a write may be applied
although it fails for its caller (`WriteFails`), a release may fail
(`Release`), a renewal may land after its call has ended (`Renew`). The
interval fires at any time, which covers every `renewIntervalMs`. The clocks of
callers and database are one.

`Tick` makes two assumptions on timing, both named: the answer to a *granted*
lease arrives within `AnswerLag` (then the timeout is armed), and the timeout
fires and ends the fetch when due, which is what aborting `fetch` does in a
process that is not suspended. `OneFetch` needs `AnswerLag + RefreshTimeout <
Lease`; with the defaults (30 s and 20 s) PostgreSQL must answer within 10 s.
The comment at `livePropRefresh.ts:34` says without this proviso that two
instances cannot both call the upstream.

## How the collector model reads the code

**Runs.** A run is one call of `runOddsCollector`, from `Wake` (the slate and
the quota are read) to `End`. `pc` is the statement or request it awaits, and
every SQL statement of `oddsCollectionRepo.ts` is one action; a slot is used
again by later runs. `Crash` is a throw outside the try blocks, or the platform
that ends the function. `Override` is `ODDS_FREE_PILOT_EVENT_ID`.

**The ledger.** A row has a status, an owner, a lease, attempts, the next try
and the times of its checkpoint. `Upserted` is the conflict clause of
`UPSERT_CHECKPOINTS_SQL`, `Due` and `Claimed` are the two halves of the claim
with its `FOR UPDATE SKIP LOCKED`: rows that another transaction has locked are
left out, which is any subset of the due ones, in the order `Sooner`. Ties in an
`ORDER BY` that ends with an id, and between events that start together, are
taken either way. `Owns` is the owner guard of every statement that settles.

**Time.** `Tick` never passes the timeout of a request under way, which is what
`AbortSignal.timeout` does. A kickoff may move later (`Reschedule`). Credits are
ranks and costs: which ranks a remaining quota admits is kept, the arithmetic
of a month's budget is not. What the checkpoints of a real game are is
`CheckpointSchedule`, which plans the schedules and weeks as
`oddsCollectionPolicy.ts` and `nflWeek.ts` do, in quarter hours, for games of
every day of two weeks around the change of the clocks. (The active interval of
five minutes is one unit; no game begins before six in the morning, so no two
checkpoints coincide.)

## How the creator corpus models read the code

**Private files** (`PrivateFile`). Each operation on a path (`open` with `wx`,
`readFile`, `rename`, `unlink`, an append, a replacement) is one step, and a
process ends between any two of them, or in the middle of an append. A token
names a process slot and a save; a process that is gone has ended, which is what
`process.kill(pid, 0)` tells. A claim is a file named for the token of the lock
it is about, as `reapStaleLock` names it.

**Pages.** `CapturePage` and `ReviewPage` keep the variables of `capture.js` and
`client.js` and let answers arrive in any order, or fail. A text is the number
of its typing. What is typed between a change of scope and its answer is lost by
the code (`capture.js:484`); `AtRisk` names it and `DraftsKept` leaves it out.

**Rule and reports** (`CorpusManifest`). A title or description is the set of
signals that the rule's patterns find in it. The module has the private side
(`creatorVideoRule.ts`, `creatorCorpusManifest.ts`, `captureQueue.ts`) and the
imported side (`readinessReport.ts`) as separate definitions, since they are
separate code.

**Discovery** (`CorpusDiscovery`). The API is external: pages are positions in a
playlist, and at any moment a video may be uploaded at its head, become private or
removed (batches then omit it) and leave the list. An upload moves the videos that
are still to come back, so one is listed twice at most. A removal moves them
forward: if the removed entry was above the next page, the first video of that page
slips onto one already read and is never listed, and if it was below, it is itself
not listed. The code does not notice either (`youtubeApi.ts:238-248`), although
`commands.ts:204-208` says that it lists every upload and that removed videos are
reported. `DiscoveryTrue` therefore bounds the loss instead of denying it: of the
videos of the window that were listed when a discovery began, it misses at most as
many as left the list meanwhile, and none if none did. Both bounds are reached. The
filter keeps a day of margin on either side of the window and every entry without a
date. Quota units are counted. The gate is registered by two processes that stop
anywhere.

**Import** (`CorpusImport`). The private files are read one after the other,
outside any lock; the snapshot of the serializable transaction is taken by the
statement that tries the advisory lock, so before it has the lock. A commit
fails if anything was committed since the snapshot: both kinds of transaction
read every table. A fingerprint stands for the content it is taken of, here and
in the gate: hashes do not collide.

## How the application models read the code

**The stream** (`OddsStream`). Both ends: the server's `tick`, `scheduleNext`,
`cancel` and tick cap; the hook's `EventSource`, stale and reconnect timers, and
the reducer that keeps a prop's history. Messages, errors and timers come in any
order, and after what they belong to has been replaced. What is sent over a
connection that is gone does not arrive. After "idle" the server
never closes the stream, and a reconnect starts the cap again.

**The cache** (`DiscoveryCache`). A request decides by the rows' ages, joins an
upstream request for the same set of markets of its instance or leads a new one,
and every caller that waited writes the rows back. A response stands for the
time of its capture. The comments at `oddsCacheRepo.ts:26` and `:196-202` call
the cooldown a hard floor. It is one for rows: the in-flight entry is per set of
markets, and is removed before the rows are written, so a market may be fetched
again within it; `:33-45` bounds the promise to a burst, and no property claims
more.

**The slate browser** (`SlateBrowsing`) and **accounts** (`Accounts`). A render
with its effects is one step, answers are steps of their own, and components are
replaced while their requests are under way. A change of Firebase's current user
is one step with its listener, the render and the effects. Documents are written
by transactions that were admitted before a deletion as well; such a write makes
the document anew without its account, which no property forbids.

**Players** (`PlayerSync`). Each batch is a statement; files are read once; the
releases move on meanwhile. The two files that the comparison reads, and the two
states it compares them with, are read together, an abstraction. Overlapping
syncs are not excluded (`README.md:177-183` has it called by hand too), and an
older roster may leave the newest stamp on some of the players
(`playerRosterRepo.ts:27`). The similarity of names is a constant `Score`; the
threshold and the gap are the code's.

**A prediction** (`Prediction`). The owner, the bounded client and the pool,
with both timers and the abort; JavaScript truncates delays, so either timer may
fire first. What was given up goes on by itself, as promises do.

**Migrations** (`Migrations`). Plan, approval by fingerprint, target check,
transaction under the advisory lock, operations (executed, or adopted where the
schema has them already), ledger and verification, and the bootstrap of a
scratch database, which needs no approval. Remote targets are refused by the
command. A catalog is the set of what was created; it may be
changed by hand at any time, the ledger only by runners. The first two migrations
say `IF NOT EXISTS` and go on where an object is there already, which
`IfNotExists` names; the others fail. Either way the verification demands the
whole contract.

**Evidence** (`OddsEvidence`). Responses of two bookmakers that are absent,
empty, invalid or valid, normalized, stored under the hash of their content, and
asked about at every moment. Prices are small numbers; which pairs reach the
consensus is kept, its median is arithmetic and left out.

## Runs

| Run | Bounds | What it shows | Module |
| --- | --- | --- | --- |
| `source` | two ingests that share raw bytes, one build, two cleaners; faults, late PUTs; deletion of source and dataset, re-queue | types, bytes, lineage and tombstones; no resurrection; grace; the refinement | `MCFeatureStore` |
| `jobs` | three ingests, two of one identity and one that shares their bytes, a build, a cleaner; no faults | one executor per job; bytes put back over a tombstone are about to be re-queued | `MCFeatureStore` |
| `model_race` | two publishers of one run, two cleaners; faults, late PUTs and DELETEs | an observation never sits beside an artifact | `MCFeatureStore` |
| `model_report` | one publisher, one report at an address of the run, one cleaner; faults, late PUTs | the refinement for models: a discard never takes a live run's bytes | `MCFeatureStore` |
| `live` | an ingest, a build over it, a cleaner; faults | deleted and orphaned bytes go in the end | `MCFeatureStore` |
| `late_delete` | an ingest and a cleaner; late DELETE | violated, see below | `MCFeatureStore` |
| `stranded` | an existing run published again, a cleaner; no faults | violated, see below | `MCFeatureStore` |
| `live_prop` | two calls, clock up to six units, lease of three, timeout and lag of one | one fetch at a time; no older value; followers consume; calls end | `MCLivePropCache` |
| `odds_collect` | two run slots, one with an override; a pilot checkpoint and a priority target; two attempts, lease, timeout and retry delay of one, clock up to three | `FetchesBounded`, `OneRunningLease`, `CapturedInWindow`, `FinishedIsFinal`, `PinHeld`, and `CheckpointsSettle` under fairness | `MCOddsCollection` |
| `corpus` | two processes with two saves and one fault; two importers, two days, two events; two videos on each page; playlists of three videos on both sides of either end of the window, one upload, two removals; two decisions | `SavesKept`, `ImportsTrue`, `NothingOverwritten`, `ReportAgrees`, `DraftsKept`, `DiscoveryTrue`, `ShownNeverOlder` | `MCCorpus` |
| `lock_takeover` | two processes and two that end, three saves each | violated, see below | `MCLockTakeover` |
| `application` | twelve parts, each with two of what meets: streams, calls and instances, component mounts, users and devices, syncs and resolvers, predictions and connections, runners, observations | `ScreenTrue`, `AnswersTrue`, `ShownIsSelected`, `DataIsOwn`, `SuccessMeansDeleted`, `PlayersTrue`, `ReadsClean`, `LedgerTrue`, `EvidenceTrue`, `ScheduleSound` | `MCApplication` |

**Why the bounds are enough.** In the feature store all interaction is per
address and per row. Two snapshots that share one raw file are the smallest case
of sharing; a dataset over one of them is the smallest lineage; two cleaners are
enough for one to hold a stale candidate while the other acts; two publishers of
one run are enough for each order of preflight, enrollment and publication. The
same row is published, deleted, refused and put again without any bound on the
number of steps: no counter is capped, and the state spaces are finite because
instants are abstracted to what the SQL distinguishes. `ModelFocus`, a
constraint of the two model runs, leaves the removal of raw and dataset bytes to
`source`. `jobs` has no faults because `SourceBytesOwned` is about calls that
are not lost: what a lost call put is a hazard listed in `PROJECT.json` and not
a property. Two cache callers show all the pairs of a leader and a contender; a
clock of six units lets a lease lapse, be taken over, and lapse again.

Two collector runs are every pair that overlaps, and slots are used again; in
three units of time a lease lapses, its checkpoint is claimed again by another
run, and its window closes or its kickoff moves. Two attempts are the least that
tell a counted attempt from its limit. In the corpus, two saves of each of two
processes, one of which ends, are one takeover and a save after it; two
takeovers of successive locks need `lock_takeover`.

`MCCorpus` and `MCApplication` put parts that share no state into one instance:
the part is chosen by `Init`, and only it takes steps, so what is explored is
the sum of the parts and not their product. A property is evaluated in its part.
Sets with two alike members are all given one of two pairs of values, so that the
symmetry group stays small.
Symmetry is used with invariants and action properties only.

Deadlock is not checked: these systems stop when every call has returned, or
when a bound is reached.

## Fairness

`live` runs `FairSpec` of `FeatureStore`. Calls that were made go on to their
next await (`CallsReturn`): PostgreSQL and the object store answer or time out
(`ingest.ts:52` and `datasets.ts:125,148` bound their statements). A waiting
lock is got if it is free again and again (strong fairness for the re-queue and
the cleaners): PostgreSQL queues waiters. `CleanupRepeats` is an assumption on
the operator, since no scheduler in the repository calls `cleanupDeletedObjects`
or `sweepOrphanObjects`: both are called again and again, over all candidates.
`RequestsEnd` and `FaultsEnd` are assumptions on the environment: each deletion
re-arms the grace, so deletion for ever starves removal, and a cleaner that
loses its session every time never finishes. `FaultsEnd` excludes only lost
sessions that differ from a step the cleaner may take anyway.

`live_prop` runs under: time passes; statements end, with success or failure;
a timeout that is due fires; an aborted fetch ends. A fetch that is not aborted
may hang.

`odds_collect` runs under: time passes; the cron keeps waking runs, and a run
goes on to its next await (weak fairness of `RunStep`); and runs are not killed
for ever. The last excludes only crashes that differ from a step the run may
take anyway, such as a request that fails: failures are never assumed to end.

## Proofs

`FeatureStoreProofs` proves, for any schema, processes and requests that satisfy
the three assumptions of `GovernanceTables`:

* `FeatureStoreTyped`: `TypeOK`.
* `LiveRowsHaveBytes`: `LiveHaveBytes`, if no DELETE outlives its lock.
* `LiveRowsHaveLiveInputs`: `LiveLineage`.
* `WithdrawnRowsLeaveTombstones`: `WithdrawnLeaveTombstones`.
* `NothingToAdopt`: `NoObservationBesideArtifact`.
* `OneOwner`: a model address never has an observation and a tombstone.

`LiveHaveBytes` is not inductive: it says nothing of a publisher between its
HEAD and its COMMIT, nor of a cleaner between its recheck and its DELETE. The
inductive invariant adds that whoever is inside such a transaction holds the
lock (`LocksHeldThroughout`), that the bytes a publisher has verified are there,
and that what a deleter is about to delete is not live, which the lock then
keeps so. Lineage rests on the pinned inputs of publication transactions: they
are live at the guard, and no withdrawal passes a pinned row. That no
observation sits beside an artifact rests on each commit dropping the
observations of its files, and on enrollment refusing what is referenced; a
tombstone on a model address only exists where a row was, so nothing is left to
adopt.

The action properties follow from these invariants:

* `NothingResurrected`: a row comes to life once, over no tombstone.
* `GraceIsHonoured`: bytes under a tombstone are deleted only when due, if no
  DELETE outlives its lock.
* `PromiseKept`: every step is a step of `PublishedObjects` or a stutter, under
  the same hypothesis. Only commits, deletions and the DELETEs map to steps; the
  rest stutters.

The hypothesis `~LateDeletes` is necessary: `late_delete` is the counterexample
without it. Late PUTs and lost sessions are not excluded.

Of the source calls, the module proves

* `OneExecutor`: `JobHasOneExecutor`, from: executing ingesters have a running
  job each, and no two the same.
* `SourceBytesHaveOwners`: `SourceBytesOwned`, if no PUT outlives its caller.
  Its inductive invariant `OwnersInv` adds the gap that makes it hard: bytes
  that come back after a cleaner's DELETE and before its acknowledgement already
  have an owner, which the cleaner's lock keeps from being let in until the
  acknowledgement has committed.

`LivePropCacheProofs` proves, for any number of callers and any options,
`OneCallerFetches` and `FollowersConsumeAnswer` from `LeaseHeld` (whoever was
granted a lease, or fetches under it, owns it beyond its timeout) under
`Timely`, and `NothingOlderStored` from `OwnerIsNewer` with no assumption on
time: the owner guard of the statements suffices.

`OddsCollectionProofs` proves, for any runs, events, checkpoints, schedules and
limits that satisfy `CollectorAssumption`, every safety property of the run:

* `CollectorTyped`: `TypeOK`, with the shape of a run's queue.
* `AutomaticPinHeld`: `PinHeld`.
* `FinishedWorkStays`: `FinishedIsFinal`, from `RowsSound` (only claimed rows
  have an owner) and `EvidenceKept` (who is about to complete has stored the
  observation): a run that settles owns a claimed row, so never a finished one.
* `EvidenceCapturedInWindow`: `CapturedInWindow`, from `RequestInTime`.
* `LeasesExclude`: `OneRunningLease`, from `LeaseHeld`: while the lease of a job
  in a run's queue runs, the ledger names this run with this lease, since a
  claim takes only rows whose lease is over and no other statement touches them.
* `RequestsBounded`: `FetchesBounded`, from `RequestsCovered`: the requests made
  plus the runs that still wait to make one are covered by the attempts of the
  row. Each claim counts one attempt and adds at most one waiting run.

`PredictionProofs` proves its `PoolStaysSound` (`ReadsClean`) for any predictions
and connections whose names differ from the other values. The invariant ties a
read to its connection until one of the two layers disposes of it (`Tied`), and a
running statement to the read that holds its connection, or to a closed one. A
connection goes back to the pool only after its read's statement has ended,
since an interruption in the middle of a statement spoils it.

`MigrationsProofs` proves its `LedgerNeverLies` (`LedgerTrue`) for any runners and
any migrations numbered from one. A runner inside its transaction has the lock,
so what it read of the ledger is still so when it commits; of the schema the
invariant only promises what was verified if nobody has touched it since.

`PrivateFileProofs` proves, for any processes, saves and requests, while at most
one process ends or write fails (`MaxFaults <= 1`):

* `SavesStay`: `SavesKept`, a reported save stays and the file can be read.
* `LiveLockStays`: the lock of a process that is still there goes only when that
  process releases it.

The invariant `LockSound` says that a process in its save owns the lock, so what
it read of the file is what it writes over, and that a process in a takeover
holds the claim that is named for the lock: if the lock is stale at its second
look, it is the one the claim names. That last part is where a second fault
breaks it. With one, there is one stale lock ever, so a stale lock that is there
is the one that was judged. With two, the lock seen at the second look may be
another stale one, for which somebody else has the claim, and `LiveLockKept` is
false: that is the run `lock_takeover`. The hypothesis is therefore as weak as the
code allows, and not a limit of the proof.

`CorpusProofs` proves properties of the run `corpus` for every value of the
constants. Each theorem carries the invariant of one part, under "this part is
the one that runs".

* `AuditKeepsTrue` (`ImportsTrue`) and `CommittedStays` (`NothingOverwritten`).
  The invariant `ImportsSound` is about what an importer is about to commit:
  tables that extend its snapshot and whose audit is true. A plan to append has
  checked that the files continue both histories, and transitivity of prefixes
  carries earlier imports over; a commit over anything but the snapshot is
  refused.
* `ReviewGetsNewer` (`ShownNeverOlder`), from `ReviewSound`: what the page shows
  is a past state of the log, at most one request is under way while the page is
  busy, and its answer is a state no older than what is shown.
* `TypedTextsStay` (`DraftsKept`), from `PageSound`: the text of every item but
  the one in the form is in the log or among the drafts; while a load is under
  way, so is that of the form, because `loadQueue` saves the draft before it asks.
* `DiscoveriesAreTrue` (`DiscoveryTrue`), from `DiscoverySound` and `GateSound`.
  While the playlist is listed, each video of the window that was there at the
  start is known, lies ahead of the position, or is excused. An upload only moves a
  video back. When an entry leaves the list, at most one video is excused for it:
  the entry itself if it lies ahead, or else the one that slips over the position,
  so there are never more of them than removals, although the set depends on the
  order of events (`DiscoverySound` says that there is one). A run that stops early
  has seen a video more than a day older than the window. This needs `ListsInOrder`:
  the uploads playlist is in order to within that day, and no upload is dated before
  the margin. It is an assumption about the API which the code makes too
  (the margin is its allowance for disorder), and `RunListsInOrder` proves it of the
  lists of the run. Of the gate, only one process at a time has the record open for writing,
  and a record is linked only after it is whole.
* `SavesStay` (`SavesKept`), from `PrivateFileProofs` with its hypotheses.
* `ReportAndPagesAgree` (`ReportAgrees`). The invariant `ManifestSound` says that
  the imported rows are what the rule makes of the decisions imported with them.
  The rest is about two loops over events against the definitions the pages use:
  `LoopFindsLatest` proves by a least wrong position that such a loop ends at the
  latest event of a video, by time and then by position, and `LoopExists` that
  the recursion defines one; `LastCapture` and `LatestDecision` apply both to
  `activeCaptures` and `activeDecisions`.

`ApplicationProofs` does the same for `application`:

* `ScreenStaysTrue` (`ScreenTrue`): `EventSource` is the one of the watched prop
  and every way to another prop or session leaves "live" in the same step; on the
  server, a cancelled stream has no armed poll.
* `OddsAnswersAreTrue` (`AnswersTrue`): a row and a response carry the time of
  their own capture through joins and late writes; the rows a caller returns
  without a fetch were fresh when it decided.
* `SelectionIsShown` (`ShownIsSelected`): the property itself is inductive, with
  the shape of the requests and mounts: every change of the selection empties
  what was discovered in the same step, and an answer is compared with the request
  its mount asked last.
* `DataStaysOwn` (`DataIsOwn`) and `ToldMeansDeleted` (`SuccessMeansDeleted`): a
  load is kept with the user it was asked for; a request for deletion that reports
  success has passed the deletion of the Auth record, which nothing undoes.
* `PlayersAreTrue` (`PlayersTrue`): the fetches that calls made can be ordered by
  the releases they saw, and a recorded stamp belongs to a fetch all of whose
  games were written (`StatsInv`). Its hypothesis `ReleasesGrow`, that releases
  only add games, is the nature of the upstream files; `SeasonGrows` proves it of
  the season of the run.
* `PoolStaysSound` (`ReadsClean`) and `LedgerNeverLies` (`LedgerTrue`), from the
  invariants of `PredictionProofs` and `MigrationsProofs`.
* `PastIsAnswered` (`EvidenceTrue`), from `EvidenceInv`: an observation is what was
  captured, quotes kept under a hash are those of that hash, whoever stored them
  first, and at every moment one observation is the latest. The computation in
  between is proved for all responses: a bookmaker's name has quotes of a line in
  both directions or in neither (`QuotesAtLine`), so the two prices of a pair,
  chosen separately by the query, are of one name (`PricesAreOffered`). Its
  hypothesis `ResponsesGiven` (responses are finite, prices are not `None`, names
  have an order) is proved of the responses of the run by `RunResponsesGiven`.
* `GamesAreLookedAt` (`ScheduleSound`). Nothing happens after a schedule is
  planned, so the work is in the functions: the instant of a wall clock shows that
  wall clock (`InstantShowsWall`) and midnights divide the instants as they divide
  the wall clocks (`MidnightDivides`), through the change too; ranks put a finite
  set in order (`Ordered`); and the recursion of a priority target exists and
  makes each due the next one of the due before it (`DuesExist`, `DuesFollow`).
  `ScheduleGiven` is what it takes: the clocks fall back, no midnight is shown
  twice, and a game begins at six in the morning at the earliest, since the code
  plans a checkpoint six hours before any kickoff without looking at the week.
  `RunScheduleGiven` proves it of the games and the change of the run.

Data of any size are reached by `LeastNumber`: if a statement fails at some number
it fails at a least one. The library's induction theorems take the statement as a
parameter, which the provers cannot instantiate; the least number is a fact about
sets, and `WFMin` gives it.

The remaining hypotheses (`None \notin ...`, `MaxStreams \in Nat`) say that a
name or bound is what it is meant to be; every run satisfies them, as `None` is a
model value.

Only model-checked:

* `CallsEnd`, `CheckpointsSettle`, `DeletedBytesReclaimed`, `OrphansReclaimed`:
  liveness under fairness is out of the prover's reach.

Every invariant and every other action property of a passing run is a theorem.

## What the checks found

1. `late_delete`. `ingest.ts:97-99` says that publication and orphan cleanup
   hold the same address lock, so a sweep cannot race a successful reference.
   The lock belongs to the session, the DELETE to the object store. If the
   session is lost after the DELETE was sent, PostgreSQL releases the lock, a
   publisher verifies the bytes and commits, and then the DELETE lands.
2. `stranded`. Publishing an existing run again: preflight sees the bytes; the
   dataset is deleted, and a cleaner removes the bytes and acknowledges; the PUT
   creates them again; the enrollment that should own them
   (`modelManifests.ts:93-96`) refuses the tombstone, and nothing re-queues it.
   `docs/feature-store-model-manifests.md:429-432` says the new bytes receive
   cleanup ownership. The source publishers re-queue in this situation
   (`ingest.ts:95`, `datasets.ts:167`).
3. `lock_takeover`. `privateOutput.ts:252` says that `reapStaleLock` removes a
   stale lock without ever removing a live one. Its claim is named for the lock
   that was read, its second look takes whatever lock is there by then. Of two
   takeovers of successive stale locks, whose claims have different names, both
   pass the second look; one removes the stale lock, a save takes the lock, and
   the other rename removes that. It takes two processes that end while they
   hold the lock; with one, `LiveLockStays` proves what the comment says.
4. A consequence worth knowing, not a fault: by `NothingToAdopt` the present
   code never has an observation to adopt when it writes a tombstone, so the
   recovery horizon that `229` records at adoption stays NULL, and its recovery
   lane serves only rows left by earlier versions.
5. Another: a video that is removed while a discovery lists the channel makes it
   miss one video without a report, be it the removed one or a public one that
   moved up, against `commands.ts:204-208`. `DiscoveryTrue` states the bound that
   does hold; a later discovery, which starts at the head again, finds the public
   one.

## Not modelled

* Rights and composite authorization: SQL predicates over rights rows, present
  as refusals.
* The recovery lane of 229 (`schedule_removal_recovery`, `due_recovery`), for the
  reason above; it needs a legacy initial state.
* `pruneDerivedDataset`, `readDataset`, `withDatasetRead`; the insertion of a
  submission (`creatorSubmissionsRepo.ts`); the GCRA bucket of proposal 220,
  which no code under `services` or `apps` calls.
* The deadlock that PostgreSQL resolves between foreign-key row locks taken
  after the address lock and the row locks a deletion takes first: its
  resolution is `AbortSource`.
* Derivation, normalization, evaluation and betting mathematics: floating-point
  arithmetic that TLC does not represent.
* Contents of descriptors, reports and datasets: abstracted to addresses.
* In the caches: clock skew between instances and database; request telemetry.
* Collector health, telemetry and database readiness: read-only summaries or
  best effort, without an order of their own.
* File permissions of the private files, and damage to a lock file from outside.
* Rendering, dialogs and presentation; tests, CI and build tooling.

Smaller limits, where a reader of the code may look for more: after a client
component is replaced, the discovery answer of the old one may overwrite a newer
answer for the same selection, and `ShownIsSelected` does not order them; a user
who changes from A to B and back may see the older of two loads of A
(`useInitAuth.ts:85` compares the uid); the matchup settings are kept when the
user changes; a placeholder goal counts as none; the sign-out after a deletion
signs out whoever is current.

## Plan

Done, in this order: the governance tables, source publication, model
publication and cleanup, since every other part of the feature store depends on
them; the abstract promise and the refinement; their proofs; the live-prop
cache; the odds collector and its proofs; the corpus tool; the web application,
predictions, player data, evidence and migrations; the proofs of imports, jobs
and owners, predictions and migrations; the proofs of the other properties of
`corpus` and `application`, and of saves under the lock file; and the proofs about
computed data: the readiness report, past odds and schedules.

Left, most useful first:

1. For the collector's ledger, an invariant behind `CheckpointsSettle`: a due row
   is never left without a run or a lease end that leads on. The lemmas that
   `CallsEnd` rests on, for the live-prop cache.
2. Guarded reads of datasets (`withDatasetRead`) and `pruneDerivedDataset`
   against deletion; the recovery lane of 229 from a legacy state; liveness for
   model addresses.
3. An abstract specification of the collector, each window's evidence captured at
   most as often as attempts are counted, with `OddsCollection` as its refinement.
4. Pure operators against reference definitions: the as-of join, and the line
   movement and expected-value rounding where they can be done in integers.
