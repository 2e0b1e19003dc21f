# mirror-memory in TLA+

This directory specifies the part of `mirror_memory` (`src/src/mirror_memory`) that is hard
to get right and hard to test: what happens to remembered and deleted facts when requests,
workers, deletions, devices, crashes, restores, migrations and lost leases interleave. Source
paths below are relative to `src/src/mirror_memory/`.

Each component has a module of its own; a module `MC…` gives its constants values for TLC; a module
`…Proofs` holds its theorems. `PROJECT.json` lists the components, the runs, a mutant for every
property of every run, the source lines behind every definition, the hazards and the theorems.

## The system

`mirror_memory` keeps what a host application learns about its users. Everything is rows of one
relational database (SQLite or PostgreSQL), plus a deletion log kept outside it. The library is
called by threads of a host (or by the routes of `server.py`), one or more workers poll the
database, and devices exchange tombstones of what they deleted.

| Component | State | Operations | Hard behaviour | What makes it correct | Module |
|---|---|---|---|---|---|
| Engine entry (`api.py`) | flags and event of the one initialization, sync state, a session per call | initialize, catch up, gate, serve | several threads enter at once; unlocked flags | one initializer; nothing served before a verdict | `EngineEntry` |
| Deletion of the engine (`api.py`, `core/repository.py`) | rows, generation, revision | forget, delete | commit after the log entry | an acknowledged deletion is whole | `DeletionReplay`, `Publisher`, `EvolutionQueue` |
| Deletion log and replay (`core/deletion.py`, `core/replay.py`) | chained entries, checkpoint, watermark, replay lock | append, prune, reconcile, apply | crash between log and commit; restored backup; stale log | deleted memory does not come back | `DeletionReplay` |
| Publisher (`core/publisher.py`, `core/proposal.py`) | publish log, state revision | gates, compare-and-swap, handler, log | stale decisions, savepoints, identity map | one winner per revision; consent is a barrier | `Publisher` |
| Repository and ledger (`core/repository.py`, `core/models.py`) | beliefs, versions per slot, evidence, preferences | record, support, update, correct, confirm, reject, forget | two tables that must agree | one open version per slot; forgetting leaves nothing | `Publisher` |
| Identity resolution (`memory/identity.py`, `canonicalize`, `relation`, `atom`) | none | resolve a claim against stored beliefs | A→B→A, withdrawals under another verb | a single-valued predicate has one current value | `Publisher` |
| Extraction, verification (`extraction/*`, `core/curiosity.py`) | pending question | publish the claims of a turn; judge an answer | one of several claims fails | earlier claims survive; a rejection is final | `Publisher` |
| Evolution worker (`worker/evolution.py`) | jobs with lease token and expiry | enqueue, sweep, claim, renew, publish, fail, defer | compute without a transaction; lost lease; crash | fencing; every job settles | `EvolutionQueue` |
| Snapshots (`worker/snapshot.py`, `extraction/synthesis.py`) | versioned snapshots | persist, retire, read | concurrent publishes; deletions | nothing stale or deleted is shown | `EvolutionQueue` |
| Authorization (`core/authorization.py`, `core/scope_registry.py`) | grants with versions and expiry | issue, change, revoke, decide | two issuers; revocation under a read | a revocation stops what runs | `Access`, `EvolutionQueue` |
| Provenance, export, access audit (`core/provenance.py`, `core/export.py`, `core/access_audit.py`, `worker/maintenance.py`) | purposes of evidence, cursors, audit rows | list, explain, export page by page, purge | statements of one read see different states | nothing withheld leaves; an export is whole | `Access` |
| Metabolism (`metabolism/*`) | tiers, digests, audit trail | scan, plan, gate, move, fold | a plan made from an old scan | nothing protected cools; a digest counts whole | `Metabolism` |
| Tombstones and sync (`core/tombstones.py`, `api.py`) | cursor and chain hash per sender, applied identities | export, validate, apply, rescan | restores, repeats, compaction | what was consumed is gone; devices catch up | `TombstoneSync` |
| Tenancy, RLS (`core/tenancy.py`, `core/rls.py`, `core/pg_engine.py`) | context variables, session hooks, settings | enter and leave scopes, filter, flush | nesting, lost contexts, text statements | no row of another tenant is read or written | `Tenancy` |
| Schema migration, adoption (`core/schema_migration.py`, `deletion_adopt.py`) | versions, catalog, watermark | thirteen steps on two dialects, adopt | crash between durable stages; old writers | what is recorded is there; deletions survive | `SchemaMigration` |
| Server (`server.py`) | engine cache per tenant | look up, build, land, evict, stop | leader and followers of one build | every follower is answered; no stale engine | `Server` |
| Temporal rules, scores, retrieval, throttle, rendering, configuration, benchmarks | none that matters | – | – | – | not modelled |

Interactions. The pipeline, verification, the metabolism and the engine hand proposals to the
Publisher, the only writer of beliefs. Every truth change moves the user's *state revision*; every
deletion also moves the *deletion generation* and is appended to the log, whose last applied seq is
the *watermark* row of the main database. The worker reads revision, generation and evidence,
computes for minutes with no transaction, and publishes only if both barriers are where it found
them. A restore rolls revision, generation and watermark back; the startup check of an engine and
every tick of a worker compare the watermark with the log and replay. Other devices read the same
log as tombstones. The engine's entry holds every call until the startup check and the first
catch-up with the peer are through.

## Modules

`DeletionPromise` composes `DeletionReplay` with the abstract `ForgettingPromise`. The others meet at
abstractions of each other: what `TombstoneSync` takes as one local deletion is `DeletionReplay`'s,
what `EngineEntry` takes as one pull is `TombstoneSync`'s, what `SchemaMigration` takes as an engine's
start on a watermark is `DeletionReplay`'s reconciliation, and the deletions and grants of
`EvolutionQueue` are those of `DeletionReplay` and `Access`.

### DeletionReplay

One main database (`rows`, `gen`, `stray`, `wm`), the log (`log`, `tail`, `checkpoint`), backups, and
per process its reconciliation (`pc`, `applied`, `goal`) and deletion transaction (`tx`). `gen` is the
set of a user's generation rows, of which requests read the greatest. `Exclusive` selects SQLite or
PostgreSQL.

- Deletion: `BeginDeletion` (cascade and fingerprints), `ReadGeneration`, `InsertGeneration` /
  `GenerationConflict` (`bump_deletion_generation` with its `session.rollback()`), `AppendLog`,
  `AdvanceWatermark` (`_append_deletion_log`), `CommitDeletion`; `AbortDeletion` and
  `DeadlockVictim` are its failures.
- Reconciliation: `StartCheck`, `ReadWatermark`, `Refuse` / `InSync` / `LockBusy` / `TakeLock`,
  `ReadAgain`, `ApplyEntry`, `ReplayConflict`, `FinishReplay`, in the order of `_reconcile_scoped`.
  An engine replays in its tenant's scope (`api.py:370`), a worker in a system scope and without a
  tenant (`worker/evolution.py:183-217`). The row of an entry's generation is looked up under the
  entry's tenant in both cases (`Aligned`); the one a worker adds takes the columns' default, an empty
  tenant, and goes to `stray`, where no request finds it (`core/replay.py:256-261`,
  `core/tenancy.py:700`). Two entries of a user may carry one generation; the second such row clashes
  with the first, and the worker raises at every tick (`ReplayConflict`).
- Environment: `Crash`, `Backup`, `Restore`, `Prune`, `LoseLogTail`, `RecoverLog`.

A row stands for a deletable item with its dependants; its name is its fingerprint, so it is born
once. Restores happen with every process stopped and never together with an older log, as
`docs/deletion-log-runbook.md` asks; a backup is a committed snapshot. `done` and `misplaced` are
history variables: the entries whose deletion was acknowledged, and every row ever stored under the
empty tenant. Tail, checkpoint, comparison and the attempt at the lock are one step (`Refuse` to
`TakeLock`), so a change of the log between these reads is outside the model. There is one tenant: a
database with several has one watermark and one log, and an engine that replays another tenant's
entries in its own scope advances the watermark past rows it does not find. The tenant criteria
are taken to be injected; where the single-tenant flag skips them on SQLite (see *Tenancy*) a request's
`max(generation)` also sees a stray row.

`ForgettingPromise` is what a user is promised, without logs or watermarks: items are remembered,
a deletion takes them away in one step for good, the system stops and resumes. `DeletionPromise` maps
rows to items, "some process serves" to `serving`, the rows shown by a serving process to `shown`
and the rows named by acknowledged entries to `gone`; `KeepsPromise` is the abstract specification
under that mapping.

### Publisher

One user, several sessions; a session is an API call with its transaction. `db` is the committed
database, `work` what the holder of the preference row will commit, `view` the statuses in a
session's identity map. `Resolve` (with `Decide` from `resolve_identity`), `Judge`, `Correct`,
`Forget` and `ToggleConsent` are the callers; `ReadRevision`, `PassGates` / `Refuse`,
`PublishCommits` / `PublishStale` / `PublishFails` follow `Publisher.publish`; one handler per
transition (`CommitCreate` … `CommitReject`). The isolation is READ COMMITTED with the identity
map; SQLite's stricter locking only removes interleavings. Abstracted: wording, evidence,
confidence, tiers. Left out: dates (claims are undated, so a new value is a handover) and with
them COEXIST; polarity and goal lifecycles; CONFIRM_RATE; idempotent replays; lock timeouts; the
first touch of the preference row. TIER_TRANSITION and EVIDENCE_COMPACT are in `Metabolism`.

### EvolutionQueue

One user. `user` holds consent, grant, beliefs, revision and generation; `jobs` the queue; `snaps`
the committed snapshots; `worker`, `host` and `deletion` where each actor stands; `lock` SQLite's
write lock (`"none"` on PostgreSQL; `Database` says which of the two a behaviour may start on).
Enqueueing is `ReadWatermark`, `ReadQueue`, then `Merge`, `Revive` or `Insert`; a tick is `Tick`
(sweep and scan) and `Claim` for each job; a job is `ReadToken`, `RenewBeforeSnapshot`, `CheckGates`,
`ReadRevision`, `ReadGeneration`, `LoadEvidence`, `RenewBeforePublish`, `Recheck`,
`RecordInvocation`, `RecheckGeneration`, `PassGates`, `Persist`, `Complete`. `Fail`, `Busy`,
`RecordFailure`, `GiveUp`, `Crash` and `LeaseExpires` are what goes wrong. A deletion is two
statements and a commit, in the order of `forget_belief` and of `delete_user_memories`.

There is no clock: a lease may expire whenever it is held, which covers any ratio of lease to
compute. Every collected belief has a newer update time than the ones before it, so the
watermark is the highest belief. Left out: what is computed, the shadow stage, log and watermark
of a deletion (`DeletionReplay`), and job order (`Tick` allows any).

### SchemaMigration

A database is what the thirteen steps of `core/schema_migration.py` can tell apart: tables, their
row-level security, columns and indexes, recorded versions, the watermark row, beliefs. `Steps(n, d)`
gives a step's `needed`, its durable stages and its `verify`; `Feasible` and `After` say when a stage
can run and what it leaves. `StartUpgrade`, `EnterStep`, `RunStage`, `MintRow`, `VerifyStep` are
`upgrade_database`; `StageFails` and `Crash` fall between two stages and leave their debris
(`__mm_migrate` on SQLite, half-built indexes); `StartAdopt` and `WriteAdoptedRow` are
`deletion_adopt.py`; `StartEngine` is `_initialize_db` with `ensure_watermark`; `OldWrite` is the
previous release writing on; `Downgrade` and `Restore` are the operator's. `lives` of the log are
numbered, so an engine bound to the wrong lineage is seen.

### Tenancy

A stack of `scopes` stands for the context variables of `core/tenancy.py`, `handle` for the session
or bare connection in use with its tenant, role, transaction, setting and unflushed objects, and
`seen` for what the last statement returned. `OpenSession`, `Flush`, `OrmRead`, `Get`, `LoadColumn`
are the ORM hooks, `TextRead` everything the hook ignores, `Connect` a raw connection; on PostgreSQL
`Begun` carries the setting the policies of `core/rls.py` compare with. Both read filters
(`app`, `rls`) and the single-tenant flag are included. A row belongs to a tenant or, when it was
flushed in a system scope without one, to `Blank`, the default of the tenant columns; the worker's
replay stores such rows (`core/replay.py:259`). No tenant's query finds them, except in single-tenant
mode on SQLite, where nothing is filtered: `Own` is what a read may return there. The startup check of
that mode counts beliefs only and lets such rows be.

### Server

`cache` is the set of entries of `_data` and `older` their order of recency, `made` what became of each creation, `req` the request
threads. A request is `Arrive`, one critical section (`Hit` / `Follow` / `Miss`), `Build` or
`BuildFails` without the lock, `Land` (the second section), `Resolve` of the future the followers
`Wait` on, `Release` of what was evicted, `Serve`. `Start` and `Stop` are the lifespan, which may end
under running requests.

### TombstoneSync

Two devices, each with its database (`content`, `applied`, `peer`), its log and its checkpoint.
`Fetch` builds a batch from the sender's log (`Batch`, `ServedFrom`, `Limit`), `Deliver` validates it
(`Acceptable`), applies it tombstone by tombstone, in the order of the sender's sequence numbers
(`ApplyOne`: echoes, known ones, doomed items, a log entry of its own), and moves the cursor; a broken chain or a pruned range starts a rescan. The
faults, one kind per behaviour: a delivery that fails after its log entries, a batch delivered twice,
a database restored alone or together with its log, a pruned log.

### EngineEntry

Per thread the statement it is about to execute. `Claim` / `Join` / `Wake` / `Schema` / `Publish` /
`Release` / `Signal` are `_ensure_db`; `Lock` / `Complete` / `Disconnected` / `Raise` the catch-up
under `_sync_lock`; `RefuseCatchingUp` … `LastTest`, `Reattempt` and `Serve` the gate
(`_sync_gate`), which reads the sync state up to three times without the lock. `Tick` ages the last
complete catch-up; `LinkFails` and `LinkHeals` are the peer.

### Access

One user's grants, beliefs, evidence and audit rows. A read is `BeginRead`, `Decide`, `ReadRule`,
`List` / `FetchBeliefs` / `ReadLinks` / `ReadEvents` / `FetchEvidence`, `Record` (the audit row),
`CommitFails` or `Return`, and for an export `Page` after page to `LastPage`. `Look` and `Write` are the
two halves of a grant change; `Create`, `Support`, `Forget`, `Expire` and `SetConsent` come between.
`PurgeBegins` and `PurgeBatchOf` are the retention pass. An audit row names the ids its entry hands to
`record_access` (`Ids`): an export page's fetched rows, shown or not, of a history the belief that was
asked for, else what is returned. Beyond `MaxIds` they are dropped; the row keeps their count.
Histories record what was returned; what an
export owes, which is what exists and is visible from its start to its last page, also by the rule
each page has read; which beliefs stayed withheld; and how many pages were handed over since the grant
was last in force.

### Metabolism

A cycle is `Scan`, `Plan` (heat, protection, tier rules, keep rules of `compact.py`, the cap), `Gate`
(the Publisher's second look), `CommitTier` or `CommitFold`. Users `Observe`, `Update`, `Correct`, are
`Ask`ed and `Answer`, `Recall` and `Restore` in between; `Tick` ages everything. Scores are a small
table with the order and the thresholds of `heat.py`, `tiers.py` and `policy.py`; `KeepAssumption`
and `LimitsAssumption` are what `clamp_policy` lets through.


## Runs

| Run | Question | Bounds |
|---|---|---|
| `deletion_sqlite` | on SQLite deleted memory stays deleted through crashes, restores, prunes and lost logs; generations are found again, under their user or where a worker put them; backups are honest; the whole implements `ForgettingPromise` | 2 rows (one a summary), 1 engine, 1 worker, 3 entries, 1 backup, 2 faults |
| `deletion_pg` | on PostgreSQL generations stay unique through conflicts, rollbacks and deadlocks unless a worker misplaced them, and a restored database catches up unless a worker's insert clashes | 2 engines, 1 worker, 1 row, 2 entries, 1 backup, 2 faults |
| `publisher` | one winner per revision, one open version per slot, consent barrier, nothing left of a forgotten belief; without overlap one current value and a closed rejection | 2 sessions: together 2 beliefs, revision 4; alone 3 beliefs, revision 6; 3 predicates, 2 objects, 2 claims a turn |
| `evolution` | tokens are held once and order the versions on both databases; SQLite: published is current, nothing deleted shown; PostgreSQL: revocation barrier | 2 workers, 1 host, 1 job with a requeue, 1 belief, revision 3, 1 fault, both deletions |
| `evolution_live` | every job settles, on both databases | 2 workers, 1 host, 1 job, 1 fault |
| `migration` | recorded versions are true of the catalog, deletions survive restores and adoptions, SQLite's upgrade arrives | all 13 steps, both dialects, 3 old releases (0, 5 and 10), 2 beliefs, 3 lives, a crash, an error, an old write, a restore |
| `tenancy` | ORM reads return exactly the ambient tenant's rows, text reads on PostgreSQL only the session's, nothing foreign is written | 2 tenants (interchangeable, hence the symmetry) and rows of nobody, 3 nested scopes, 1 object of work, none added beyond 2 rows, both dialects and filters |
| `server` | one build per tenant, no stale engine but those landing after a stop, everybody is answered | 2 requests, 2 tenants beside the default, cache of 1, 1 failing build, 2 lives |
| `sync` | consumed tombstones are gone, again is nothing, both devices reach the tails | 2 devices, 2 deletions, batches of 2, 9 entries, no fault or one of 5 kinds |
| `entry` | one initializer, every call returns, no stale read but one a catch-up overtook | 2 threads, grace of 1 tick, 1 outage, 1 error, with and without transport |
| `access` | an export stops a page after a revocation and is whole for beliefs; what is withheld throughout stays so | 1 reader, 2 issuers, 2 purposes, 2 beliefs, page, batch and ids of an audit row 1; six mixes of events |
| `metabolism` | a digest counts all that was folded, what the gate sees protected stays, cycles come to rest | 1 cycle at a time, 2 beliefs, 4 pieces of evidence, cap 2, mixes of user events |

Why the bounds are enough. Each property involves two deletions, two sessions, two threads or two
holders of one job, one earlier and one later state; the bounds leave room for these plus one
unrelated event and the faults between them. The deletion log needs three entries so that a
checkpoint, a watermark and a tail can all differ. A second fault lets a crash hit the recovery from
the first. Two beliefs per single-valued predicate and a third for the way back cover A→B→A. A cache
of one engine makes every second tenant evict; a page and a batch of one make every export and purge
take several. In `Access` and `Metabolism` the bounds (`Budgets`) are a set of mixes, each of which
gives one kind of behaviour room instead of all of them a little. Every property's mutant shows that
the bounds reach the case it is about: a missing lease token, a sweep that is left out, a checkpoint
that is not looked at, a compare-and-swap that always lands, an eviction of the wrong entry, a cursor
that stops short, a digest that starts anew.

Where a run stops because a bound is reached the configuration says `CHECK_DEADLOCK FALSE`;
`deletion_sqlite`, `deletion_pg`, `migration`, `sync` and `entry` check deadlock. Each
configuration names further properties that hold with the same constants.

### Fairness

- `DeletionReplay!LiveSpec`: the worker's loop is a timer, so its ticks and its own steps are weakly
  fair. Transactions of engines are driven to their end by the host. The database admits
  `TakeLock` and `ApplyEntry` between other writers, hence strong fairness. Faults are bounded, so
  they cease; `CatchesUp` promises nothing for entries that were pruned, nor while the next entry's
  generation is already stored under the empty tenant, when only an engine's start helps.
- `EvolutionQueue!LiveSpec`: workers poll (weak fairness of each worker's own steps), a deletion that
  began proceeds to its commit, and the clock passes the lease of a holder that is gone. Crashes,
  failures and leases lost alive are bounded by `MaxFaults`; nothing is assumed of hosts,
  consent or grants.
- `SchemaMigration!LiveSpec`: a migration that was started goes on, and an operator whose database is
  below the latest version stops the engine and runs the migration again sooner or later (the
  documented answer to a failure). Only SQLite is promised to arrive; see below for PostgreSQL.
- `Server!LiveSpec`: a thread of the pool goes on, and a build returns or raises.
- `TombstoneSync!SyncLiveSpec`: every device goes on pulling from every other (the engine catches up at
  each start and on each gate), which is why fetching is strongly fair: a delivery may disable it.
- `EngineEntry!LiveSpec`: threads run, the transport's timeouts bound a pull, and the lock is fair
  (strong fairness of `Lock`, which other threads disable in turn).
- `Access!LiveSpec`: the retention pass of the worker runs, and takes batch after batch.
- `Metabolism!LiveSpec`: the worker's cycles run.

## What is proved

For every value of the constants that their assumptions allow: any sets of rows, users,
processes, sessions, workers, hosts, threads and devices, and any bounds. `TenancyProofs` and
`EngineEntryProofs` each hold the proofs of two components and extend both modules, which is why the
names that `SchemaMigration` and `TombstoneSync` would share with the other one are their own
(`MigrationSpec`, `MigrationInit`, `backend`, `OnPg`; `SyncSpec`, `SyncInit`, `SyncTypeOK`). Some
assumptions on constants serve the proofs only: `MigrationBounds` asks for one life at least, and
`BeliefAssumption`, `ItemAssumption` and `DeviceAssumption` say that no belief, item or device is
called like a marker of the model (a log that is not there, the user scope, an entry of one's own).

| Module | Theorem | Assumes | Establishes |
|---|---|---|---|
| `DeletionReplayProofs` | `BaseInvariant` | – | `Base`: types, log contiguous with its tail, transactions only of serving processes |
| | `TypeCorrect` | – | `TypeOK` |
| | `ReplayExclusion` | – | `OneReplayer` |
| | `SeqsStable` | – | `SeqsAreNeverReused` |
| | `SafeInvariant` | `Exclusive`, `~PruneDuringReplay` | `Safe` |
| | `DeletedStaysDeleted` | the same | `NoResurrection` |
| | `GenerationsSurvive` | the same | `GenerationSurvivesRestore` |
| | `BackupsHonest` | the same | `BackupsAreHonest` |
| | `GenerationsNeverRepeat` | the same | `GenerationsAreUnique` |
| | `GenerationsNeverRepeatUnrestored` | `MaxBackups = 0` | `GenerationsAreUnique`, on both databases |
| | `PromiseKept` | `Exclusive`, `~PruneDuringReplay` | `KeepsPromise`: the refinement |
| `PublisherProofs` | `Invariance` | – | `IInv` |
| | `OneWinner` | – | `OneWinnerPerRevision` |
| | `OneOpenVersion` | – | `OneOpenVersionPerSlot` |
| | `ConsentHolds` | – | `ConsentBarrier` |
| | `TypesHold` | – | `TypeOK` |
| | `NothingIsLeft` | – | `ForgottenLeavesNothing` |
| | `RejectedIsClosed` | – | `RejectedIsClosedAlone` |
| | `OneValueAlone` | `~CrossPredicate` | `SingleCurrentValueAlone` |
| `EvolutionQueueProofs` | `TypesHold` | – | `TypeOK` |
| | `Invariance` | `~StallAfterClaim` | `Typed` and `Fencing` |
| | `OneHolderAlways` | the same | `OneHolder` |
| | `TokensOrder` | the same | `TokensOrderVersions` |
| | `BarriersHold` | – | `Typed` and `Barriers`, behind the next three |
| | `DeletedIsHidden` | – | `DeletedIsHiddenOnSqlite` |
| | `PublishesAreCurrent` | – | `PublishIsCurrentOnSqlite` |
| | `RevocationHolds` | – | `RevocationBarrierOnPostgres` |
| `TenancyProofs` | `TypesHold` | – | `TypeOK` |
| | `WritesAreTheTenants` | – | `WritesStayInTenant` |
| | `ContextStands` | `~SharedDevice` | `Stands` |
| | `IsolationHolds` | the same | `Isolated`, the next three together |
| | `SelectsAreExact` | the same | `ReadsAreTheTenants` |
| | `ReadsAreConfined` | the same | `ReadsStayInTenant` |
| | `TextIsConfined` | the same | `TextStaysInTenant` |
| `TenancyProofs`, on `SchemaMigration` | `MigrationTypes` | – | `MigrationTypeOK` |
| | `VersionsAreBacked` | – | `CatalogBacksVersion` |
| | `EnginesAreBound` | – | `ServingIsBound` |
| | `DeletionsHold` | – | `DeletedStaysDeleted` |
| `ServerProofs` | `CacheStands` | – | `Sound` |
| | `LimitHolds` | – | `TypeOK`, which bounds the engines kept |
| | `EnginesAreTheTenants` | – | `EngineOfItsTenant` |
| | `OneBuild` | – | `OneBuildPerTenant` |
| | `PlaceholdersAreOwned` | – | `NoOrphanPlaceholder` |
| | `ServedFresh` | – | `ServedByThisApp` |
| | `PoolStaysOpen` | – | `SharedPoolStaysOpen` |
| `EngineEntryProofs` | `Invariance` | – | `Inv` |
| | `TypesHold` | – | `TypeOK` |
| | `ServiceAfterVerdict` | – | `NoServiceBeforeVerdict` |
| | `InitializesOnce` | – | `OneInitializer` |
| | `StaleReadsWereCrossed` | – | `StaleOnlyWhenCrossed` |
| | `CatchingUpHolds` | – | `CatchingUpIsTrue` |
| `EngineEntryProofs`, on `TombstoneSync` | `SyncAlways` | – | `SyncInv` |
| | `SyncTypes` | – | `SyncTypeOK` |
| | `ConsumedAreGone` | – | `ConsumedIsGone` |
| | `AppliedAreGone` | – | `AppliedIsGone` |
| | `AgainChangesNothing` | – | `AgainIsNothing` |
| | `EchoesStop` | – | no device applies its own deletion while no log lost entries |
| `MetabolismProofs` | `Invariance` | – | `Inv` |
| | `TypesHold` | – | `TypeOK` |
| | `FoldsAreByRule` | – | `FoldedByRule` |
| | `SampleIsKept` | – | `SampleSurvives` |
| | `DigestIsWhole` | – | `DigestCountsWhole` |
| | `GuardHolds` | – | `GuardedStays` |
| `AccessProofs` | `Invariance` | – | `Standing` |
| | `TypesHold` | – | `TypeOK` |
| | `EveryAnswerIsRecorded` | – | `NothingLeavesUnrecorded` |
| | `ChangesAreNumbered` | – | `OneWinnerPerVersion` |
| | `RowsNameTheirGrant` | – | `RecordsNameTheGrant` |
| | `RevocationStops` | – | `RevocationStopsTheExport` |
| | `ExportsAreWhole` | – | `BeliefsExportedWhole` |
| | `WithheldIsKeptBack` | no `history` in `Budgets` | `WithheldStaysWithheld` |

The arguments.

- *Deletion.* `NoResurrection` is not inductive: it speaks of serving processes only, and a step may
  make a process serve on the strength of values it read earlier. `Safe` carries those:
  `WatermarkTrue` and `BackupsTrue` (everything acknowledged at or below a watermark has been
  applied to that copy), `ServingTrue` (while a process serves the watermark covers everything
  acknowledged), `CompareTrue` (what a process read before comparing is still a lower bound when it
  decides), `ReplayTrue` (a replay's cursor and goal account for every acknowledged deletion),
  `TxTrue` (a transaction past its log entry will acknowledge exactly what it removed) and
  `RowsTrue` (a row was born once). The two assumptions are the two ways the code really breaks the
  promise: overlapping write transactions (PostgreSQL) let the watermark overtake an uncommitted
  deletion, and a compaction that runs while a process replays takes away entries it needs.
- *Generations.* `Counted` says that a deletion that has inserted its key holds a generation no row of
  its user has (`TxCounted`) and that no two of a user hold the same (`Alone`, the primary key). A
  commit is then new if the generation of every acknowledged deletion is among its user's rows, or was
  misplaced by a worker. `Safe` says so of a served database (`AppliedTo`: under the user or under no
  tenant), and `StrayKnown` that what is under no tenant, here or in a backup, is known to be
  misplaced; where nothing is ever restored `NeverRestored` says it. An engine's replay beside open
  transactions waits for the holder of its entry's generation, so it takes nobody's key. On
  PostgreSQL *with* restores the property fails: two users' deletions commit against the order of
  their entries, a backup taken between the two claims the one it has not seen
  (`BackupsAreHonest` in the table below), and after its restore that generation is handed out again.
- *Refinement.* Under `Safe` nothing shown is gone. A commit is the abstract deletion, an entry
  applied under a serving process drops what is already gone, the step by which the first process
  comes to serve resumes, the one by which the last stops stops; everything else stutters.
- *Publisher.* `IInv` is `Typed`, `Sound` of the committed database (one open version per slot;
  every log row expected a revision below the current one, and no two the same), `Copied` (the copy
  of the lock's holder is `Sound` too and ahead: it has moved the revision, kept the consent and,
  with memory off, only lacks what the database has) and `Calling` of every session (a proposal past
  its gates expects a revision that is not above the current one; if it is the current one, memory is
  enabled or the proposal forgets). The compare-and-swap is what ties the three together: who
  lands it holds the only copy.
- *Nothing left.* A database is `Whole` when its versions and log rows name beliefs that exist and a
  version has the slot of its row; only then does a purge by slot take every version of the belief.
  A handler keeps it whole if the row it writes is there and its target is in the state the gates
  found: `Passed` says that while the revision a proposal expects stands, the target still has the
  status the gates let through (`Fit`), and a commit of another session moves the revision.
  `Handled` sums up what any handler does to rows and open versions (keeps the rows, adds one and
  supersedes others, loses the target, or rejects it); what follows argues from it alone.
- *One session alone.* `Calm`: what the session has loaded is what it reads (`Fresh`), save the row
  it has just forgotten, after which its turn is over (`LastClaim`); so the statuses a handler
  compares are the true ones, and it never opens a version of a rejected row. `One` adds `Apt`: what
  the session has decided supersedes everything current of a single-valued predicate, because the
  resolver fetches every such row. A correction into another predicate is not `Apt`; hence the
  assumption, and the configuration `PublisherDivergences`.
- *Fencing.* `OneHolder` says nothing of a worker whose claim has committed and whose token is not
  read yet; `Fencing` does: such a row is running and not expired, or ended by a deletion
  (`ClaimsStand`), everyone else at the job carries an older token (`ClaimsAreNewest`), nothing is
  published under the new one (`HeldIsUnpublished`). Two holders' tokens differ (`TokensAreOwn`),
  tokens are at most the row's (`RowsExist`, `SnapshotsAreOld`), and a draft under the newest token has
  the newest version of its job (`DraftsAreNewest`), since a newer one would have come from a later
  claim. Most steps are `Quiet` (no lease given, nothing published) and share one lemma. The
  assumption is real: `EvolutionQueueStall.cfg` shows what happens without it.
- *Barriers.* A worker computes for minutes outside any transaction, so what it read may be long out
  of date, and `Barriers` says only what still follows: the evidence it read exists as long as the
  generation it read stands, the revision and generation are not above the current ones
  (`ReadsStand`); memory is enabled as long as the revision stands, and on PostgreSQL the
  share-locked grant is still there (`AuthorityStands`). From there the dialects part. On
  SQLite whoever has begun to publish holds the only write lock, which a deletion needs too
  (`WriterIsCurrent`, `DeletionLocks`): the comparison made under it is still true when the draft is
  written (`DraftIsTrue`), and a later deletion raises the generation and hides what was
  published (`SnapshotsStand`). On PostgreSQL `DraftIsTrue` is weaker, and the properties above that
  fail there are in the table of disagreements below.
- *Tenancy.* A write goes by the ambient scope at the flush, so `WritesStayInTenant` needs the types
  only. A read relies on older facts: the setting of a PostgreSQL transaction was written when it
  began, from the session's binding (`SettingStands`); in the single-tenant mode nothing is filtered
  on SQLite, so the device's rows must be that tenant's or nobody's and every scope on the stack that
  tenant's (`RowsAreSingle`, `ScopesAreSingle`); a closed handle has nothing pending
  (`ClosedIsEmpty`). `FilledIsAmbient` and `FilledIsSingle` say what a flush stores. The
  assumption excludes a second engine that brings another tenant's scopes to a single-tenant device;
  with it the three properties fail.
- *Migration.* `CatalogBacksVersion` speaks of the database in use, and a run may put a copy in its
  place; `MigInv` therefore has the database, the backup file and the archive `Coherent`: the
  recorded versions have no gap, and for each of them `Kept`, the part of the step's verify that no
  later write undoes (the previous release may write NULLs again). `JobFits` says how far a run is: all
  versions below its step are recorded, and what it still has to do are stages of that step. One lemma
  per kind of stage shows that it `Grows` the catalog, whatever failure or kill comes between two of
  them: nothing an earlier version stands for is lost. The deletions need another relation, between
  the rows, the logs and three copies of the beliefs. Each action is first reduced to one of seven
  `BookStep`s (it leaves rows and beliefs alone, puts a copy back, mints a life, adopts one, serves,
  deletes); only these are then shown to keep `LivesStand` (a row is of a minted life, a copy without
  a row has what the archive has) and `DeletionsStand`: while no new lineage was forced on an
  archive with data the log knows one life at most, and above the watermark of *every* copy that life
  holds each acknowledged deletion the copy lacks. Serving replays exactly that part of the log.
- *Server.* Requests and entries of the cache are tied together by `Known`: a placeholder stands for
  a creation that is being built and the other way round, a real entry for a running engine, each
  creation has one request at work on it, and a request holds an engine of its own tenant. `Fresh`
  orders them by the starts of the app (an engine that lands after the stop of its own app is
  counted in `stranded`). `Recent` is needed for the limit: the order of recency is total on the
  entries, so what an eviction leaves has at most `Limit` engines.
- *Entry.* `Inv` is the types, what the shared flags say together (`Flags`), what each thread knows
  at its place in the code (`Local`: a claim means the initialization runs, a place past the gate
  means there is a verdict, and what a thread that no catch-up crossed has read of the sync state
  still stands) and that one thread at most holds the claim (`OneClaim`). It uses the three
  assumptions on the constants in `EngineEntry`.
- *Sync.* A tombstone can reach a device from anywhere: the sender's log, a relay's, a batch fetched
  before a restore, a backup put back later. `SyncInv` therefore speaks of all `Copies` of a memory
  (the present one and the backup) and of all `Carriers`, the tombstones in any log of a copy or in any
  batch. Hashes tell them apart (`Agree`, `Minted`), an entry that relays a tombstone travels as that
  tombstone and not under its own hash (`NotRelays`), and two copies of a log with an entry in common
  have all before it in common (`SamePast`), which is why an agreeing chain hash speaks for the
  whole prefix. `CopyStands`: what a copy records as applied, and what it deleted itself, is gone from
  that copy; `ChannelStands`: so is everything up to the cursor of *any* copy of the sender's log the
  cursor fits. `Apart` is for the deletion of everything: two devices share the items they began with
  and no other. `BatchFits` says the same of a batch in the inbox: every travelling entry between its
  ends is in it; or, where logs are compacted, it does not start at the channel's cursor and will be
  taken for a rescan. What a batch does is `Absorbed`, position by position, shown by the least position
  where it would fail. Steps are of two kinds: after some there is only what there was (`NarrowSteps`:
  fetch, refusal, backup, rollback of the machine, compaction), after the others the present copy of
  one device is new and its log at most longer (`RenewSteps`). An own deletion of a log that never
  went back is in it for good (`OwnStands`), hence `EchoesStop`; what a backup holds is
  in the present database too or deleted by an entry of its log (`BackupStands`), so the replay deletes
  what the restore of the database brings back.
  `SyncInv` was first checked by TLC on the instance of the run.
- *Metabolism.* `Graph` relates links, evidence and digests: what is linked was recorded, for a
  belief that exists (`Linked`); a folded row is a plain support of its folder (`Folded`, hence
  `FoldedByRule`); a belief never folds the earliest of its supports (`Later`), so a digest counts
  at least one row more than were folded into it, and no more than there are supports. A live row
  has lost its words only if a second belief is linked by it, one having folded what the other
  keeps (`Worded`); where the evidence of a belief is its own, its earliest support therefore has
  them (`SampleSurvives`). `SourcesKnown` carries `GuardedStays`: a source changes only together
  with the revision, so at an unchanged revision what the gate compares is what the scan loaded,
  except for the beliefs that had already changed when the cycle took its revision.
- *Access.* A read answers for what it saw several statements ago, and `Standing` says what that is
  still worth. What it was decided on is among the events of its grant, for which a change adds an
  event and the row repeats the last (`GrantsStand`, `DecisionsStand`). A page that is past its
  decision has not been late before (`PagesStand`): the decision set the count back, and it is only
  raised where the page is handed over. Reads have numbers of their own (`NumbersStand`), so what is
  about to leave is accounted for by its own row, or that row was purged (`AnswersStand`; `Accounts` says what a
  row tells of the ids: it counts them, and names all of them up to `MaxIds`, but of a history only
  the belief that was asked for). Up to its cursor an
  export has sent what it owes, and what it owes above the cursor and has not fetched lies above
  everything it fetched (`ExportsStand`); that needs a lemma on cardinalities, `PageIsFirst`: a full page holds
  the least rows, and a page that is not full all of them. `WithheldStand` goes by the statements of
  a read: a belief hidden since the rule fails by the links read, then by the events read, or is
  gone. The assumption is real: `belief_history` returns the chain of its slot unfiltered, and
  `AccessDivergences` with `HistoryMix` shows a withheld belief in it.

Only model-checked: all liveness and everything with fairness (outside the prover's reach); the
PostgreSQL side of `DeletionReplay` beyond the theorems without assumptions. Of `TombstoneSync` that is
`CatchesUp`.


## Where the code does not do what it says

These configurations each give a counterexample to one property; properties that fail in the same
configuration wait there as comments. None is among the runs, which all pass: of `DeletionReplaySqlite`
and `DeletionReplayPg` the properties named here are the commented ones.

| Configuration, property | Disagreement |
|---|---|
| `DeletionReplayPrune`, `ReplayRemovesOnlyAcknowledged` | A deletion that fails after its log entry is carried out by the next reconciliation, since the rows are still there and their fingerprints match (`core/replay.py:376`); `core/deletion.py:29-31` calls the window safe "because replay matches fingerprints that will never be found". |
| `DeletionReplayPrune`, `NoResurrection` | The checkpoint is read before the replay lock and never again; a prune in between makes the replay skip entries (`core/replay.py:376`). |
| `DeletionReplaySqlite`, `GenerationIsTheUsers` | After a restore a worker's replay stores the generation under the empty tenant, so requests read a lower one than was acknowledged (`core/replay.py:259` under `worker/evolution.py:183`), against "never roll back" (`core/replay.py:254`). |
| `DeletionReplayPg`, `GenerationsNeverShared` | The next deletion of that user then takes the same generation again, against "unique and gapless per successful deletion" (`core/repository.py:2649-2650`). |
| `DeletionReplayPg`, `TicksSuffice` | An aborted deletion and the next one leave two entries with one generation; the worker's second insert under the empty tenant fails on the key and every tick raises, until an engine starts. |
| `DeletionReplayPgBackup`, `BackupsAreHonest` | On PostgreSQL commits need not follow the order of log entries, so a backup can claim a deletion whose rows it holds (`api.py:577`). |
| `DeletionReplayPgRace`, `CommitRemovesItsRows` | Two deletions race for a generation; the loser's `session.rollback()` undoes its deletes and the call goes on to log and acknowledge them (`core/repository.py:2676`). |
| `PublisherRaces`, `RejectionIsFinal` | The resurrection guard tests a status loaded earlier; a rejection committed meanwhile is overwritten (`core/publisher.py:256`). |
| `PublisherRaces`, `SingleCurrentValue` | Two turns that resolve one single-valued predicate against the same rows leave two current values: the revision is read after the resolution. |
| `PublisherDivergences`, `SingleCurrentValue` | A correction that moves a value into a single-valued predicate leaves two current values (`core/repository.py:3101`). |
| …, `OpenVersionIsCurrent` | A row superseded from another slot keeps an open version (`core/publisher.py:427`). |
| …, `LoggedMeansChanged` | A refused key is committed and logged as a CREATE of nothing (`core/publisher.py:501`). |
| …, `DenialsReachTheirBelief` | A denial is published without its target and always refused (`extraction/pipeline.py:941`). |
| `EvolutionQueueDivergences`, `CancelledJobsDoNotBlock` | A cancelled job keeps its unique key, so the next enqueue with the same watermark raises (`worker/evolution.py:113`), against `_block_job`'s docstring. |
| …, `OneActiveJob` | Two hosts give a user two pending jobs; `core/models.py:768` says "single-user mutex". |
| …, `DeletedContentIsHidden` | On PostgreSQL a deletion that commits between the re-check of the generation and `persist_snapshot` is stamped as known. |
| …, `RevocationBarrier` | On SQLite a grant revoked between the authorization and the first write of the publish does not stop it. |
| `EvolutionQueueStall`, `OneHolder` | The token is read after the claim has committed; a worker that stalls there for a whole lease shares its successor's token (`worker/evolution.py:293`). |
| `EvolutionQueueTwoLive`, `OneLiveSnapshot` | Two jobs of a user publish side by side on PostgreSQL and leave two live snapshots (`worker/snapshot.py:71`). |
| `SchemaMigrationUnions`, `RecordedIsComplete` | On PostgreSQL step 10 skips the backfill when the column exists, so a second run records a nullable column as done, against `docs/postgres-deployment.md:22-24`. |
| `TenancySetting`, `NeverTheWrongSetting` | A transaction begun inside a system scope and used after it carries the wrong tenant setting (`core/rls.py:175-182`). |
| `TombstoneSyncWedge`, `ZeroRefusals` | After the receiver's database is restored alone, re-applying a tombstone logs the same identity again and the other side refuses the batch for good (`core/models.py:524`); `tests/test_sync_mesh.py:796` expects no refusals. |
| `TombstoneSyncEcho`, `EchoesAreSkipped` | Once its log is compacted a device no longer recognises its own tombstone and applies it (`api.py:1406`). |
| `EngineEntryStale`, `ReadsAreFresh` | The gate reads the sync state three times without the lock, and another thread's catch-up in between lets a read through on an expired grace (`api.py:1908`; docstring at `api.py:1871`). |
| `AccessDivergences`, `ExportIsWhole` | A full page of evidence or events of which one row is withheld is taken for the last, and the rest of its section is never exported (`core/export.py:189-191`, 233-239). |
| …, `NothingWithheldLeaves` | A withheld belief forgotten between two statements of a read passes, since a missing purpose is shown (`core/provenance.py:218-235`, `core/repository.py:3191-3193`); with `HistoryMix`, `belief_history` does it (`core/repository.py:1042-1077`). |
| …, `EveryIdIsRecorded` | "Memory never leaves unrecorded" (`api.py:527`), but the row of a `belief_history` names the one belief asked for while versions of others are returned (`api.py:2110-2111`, `core/repository.py:1058-1077`; with `HistoryMix`), and ids beyond `max_ids` are dropped (`core/access_audit.py:79-96`; with `Mixes`). |
| `MetabolismDivergences`, `ProtectedStays` | The gate is to derive protection from live state but uses the row the scan loaded, so a confirmation in between does not protect (`core/publisher.py:297-299`). |
| …, `TrailIsAPath` | The tier a move starts from is compared with the one the scan loaded, so the audit trail can have a gap (`core/publisher.py:317`). |
| …, `NothingBlocksWarming` | Reheating a protected belief is refused by the gate, against `metabolism/planner.py:230-233`. |
| …, `CorrectionsKeepTheirWords` | A correction's evidence can be folded, against `metabolism/compact.py:14`. |
| …, `NoDeadEnd` | An archived belief that has become protected cannot be restored; `restore_belief` in `api.py` says that archiving is reversible by design. |
| `MetabolismStarved`, `ExcessIsHandled` | A reheat that is refused takes the run's only slot every time, so nothing else is ever planned (`config/schema.py:299`). |

Observed while modelling, and part of the models without a property of their own:

- *Migration.* On PostgreSQL steps 1, 6 and 9 skip the fill and the NOT NULL when a failed run left
  the column; a crash between table and policies in steps 6, 8, 11 and 13 makes the posture check
  raise on every later run; step 3 checks the posture of tables that later steps create, so an
  upgrade from below 3 or from an empty schema cannot pass. On SQLite the rebuild of step 1 gives all
  old beliefs one `global_id`, a crash leaves `__mm_migrate`, and each run overwrites the `.bak`.
- *Tenancy.* A session whose first statement is text and that carries no tenant reads an empty
  database; one opened in a system scope and used after it under the filter `rls` sees all tenants;
  column loads are unfiltered on SQLite; a bare connection keeps the tenant of its first statement.
  `SharedDevice` lets a second engine use a single-tenant database, whose flag skips the filter.
- *Server.* An engine whose build outlives the app lands in the cleared cache and serves the next
  app; it is counted in `stranded` and excluded from `ServedByThisApp`.
- *Sync.* A hub that never held a belief does not relay its tombstone; `TombstoneBatch.to_dict` and
  `from_dict` are defined twice, so a batch passed as a dictionary raises (`api.py:1436`); a rescan
  of a peer whose log is pruned never ends.
- *Entry.* `_initializing` is cleared without the lock before the event is set; an error that is not a
  connection error leaves `catching_up` for ever; the test of `_grace_state` that keeps `expired`
  is never true.
- *Access.* The audit row of a page of beliefs lists withheld ids too; `get_beliefs` and
  `belief_by_id` reload rows after their commit, so a concurrent deletion raises; the SQL predicate
  and the Python rule differ on a dangling link; observing known evidence again keeps its first
  purpose; a belief without evidence whose first evidence comes under a purpose granted after the page
  read its rule is left out of that page, although it is visible throughout.
- *Metabolism.* pysqlite commits at the release of the outermost savepoint, so each proposal of a
  cycle commits alone; restoring a hot belief cools it to warm and reports success; freshness
  is anchored on the last access.

## Hazards

`PROJECT.json` lists forty, with the properties that would catch them. Six have none in a run. The
prune during a replay (`core/replay.py:334`), the rollback of a lost generation
(`core/repository.py:2677`), the two stale reads between overlapping sessions
(`extraction/pipeline.py:410`, `core/publisher.py:256`) and the two live snapshots
(`worker/snapshot.py:71`) fail, in the configurations above; that a deadlocked deletion gets through in
the end (`core/repository.py:2636`) would be the database's promise. Two replayers at once
(`core/replay.py:361`) are excluded by the theorem `ReplayExclusion`. Smaller ones that the models
leave out:

- the attempts of a job are compared with the maximum in the failure handler only, so a job that
  kills its worker is retried for ever (`worker/evolution.py:634`);
- an enqueue merges its key into a job that is already running, and a merge may clash with another
  job's key; the backoff of the reconciliation has no upper end (`worker/evolution.py:727`);
- the log is verified while it is pruned; an export carries the log entry of a deletion that failed;
- `fingerprints and fingerprints.append` adds nothing to an empty list (`core/repository.py:2836`),
  and forgetting an old value purges its slot's whole chain (`core/repository.py:2872`);
- the confirm rate of a belief is updated after its rejection (`extraction/verification.py:363`), and
  statistics are flushed before a model call;
- the look-up of an idempotency key and the insert of its log row are two statements
  (`core/publisher.py:127`).

## Not modelled

- Temporal and lifecycle rules, polarity, confidence, activity and valence: pure functions over
  dates and floating-point scores, which TLC cannot compute. What the models tell apart of
  them is in their own tables.
- Retrieval and behaviour, the throttle, rendering, configuration, model declarations and
  exceptions: no state that an interleaving could harm.
- The language model and what is computed with it; the benchmarks.
- Inside modelled components: the hash chain of the log (a log is a sequence of unique entries),
  the shadow stage of snapshots, dated claims and COEXIST, routes and key files of the server,
  keys registered while requests run, the system-scope allowlist and the SQL audit, the legacy purpose
  of old rows, `core/migrate.py`, lock timeouts inside a stage, sync among three devices, the transport's encoding, the
  `sync_status` call, query modes of the metabolism. Reasons per component are in `PROJECT.json`.

