# bqcubbit: a TLA+ verification project

`bqcubbit` copies BigQuery tables to an S3-compatible object store (Cubbit) as
Parquet files and keeps its own state in one SQLite file. This directory models
the parts of it where several processes, goroutines or crashes meet, checks the
models with TLC on small instances, and proves the most important invariants
with TLAPS for every instance.

## 1. Inventory

### Processes

* `bqcubbit sync`, no table configured: `Orchestrator.SyncAll`, the incremental
  sync of every partitioned table.
* `bqcubbit sync`, `sync.table` set: `Orchestrator.SyncTable`, a full export of
  one table through a *task* in the state store.
* `bqcubbit serve`: the daemon. Cron triggers `Scheduler.runSync`, which takes a
  job lock and calls `Coordinator.RunOnce`, which starts a pool of workers.
* `bqcubbit verify`: one read-only query.

Both `sync` and `serve` start a goroutine that aborts old multipart uploads and
deletes everything under `_staging/`.

### Components

| Component (source) | State | Operations | Interacts with |
|---|---|---|---|
| State store (`internal/state/sqlite.go`) | tables `sync_runs`, `tasks`, `tables`, `partitions`, `schema_versions`, `job_locks` | one SQL statement each; only `CreateTasks` is a transaction | everyone |
| Coordinator (`internal/coordinator`) | `running` flag, run context, current run | `RunOnce`, `Cancel`, `waitForCompletion` | store, pool |
| Worker, pool (`internal/worker`) | `running`, `stopCh`; per task a heartbeat goroutine and a context | `Start`, `Stop`, `runOnce`, `heartbeat`, `ScaleUp` (no caller) | store, executor |
| Task executor (`internal/sync/executor.go`) | locals | `ExecuteTask`: read, upload, rename, manifest, partition row, task row | store, BigQuery, object store |
| Full export (`sync.go`, `SyncTable`) | locals | create a task, claim one, upload, settle it | store, object store |
| Incremental sync (`sync.go`, `SyncAll`) | locals; watermark and exported paths in the store | discover, filter, batch, export the first batch, move the watermark | all three services |
| Object storage client (`internal/storage`) | none; multipart uploads in the store | `UploadMultipart`, `AbortStaleUploads`, `RenameObject` (copy, delete), `ObjectExists`, `DeleteObjects` | Cubbit |
| Manifest (`internal/manifest`) | `_manifest.json` per table | `AddFile`, `Merge` | executor, `SyncAll` |
| Scheduler (`internal/scheduler`) | cron entries; row in `job_locks` | `runSync` with `skip`, `queue`, `cancel_and_restart` | store, coordinator |
| Streaming pipeline (`internal/bigquery/reader.go`, `internal/parquet`, `internal/hash`, executor) | channel of records, pipe, part buffer, running hash | `readTable`, `WriteStreamResult`, `hash.Reader.Read`, `UploadMultipart` in three goroutines | BigQuery, Cubbit |
| Schema versions (`internal/schema`, executor) | `schema_versions` | `CanonicalHash`, `Diff`, `resolveSchemaVersion` | executor |
| Web UI, metrics, config, rate limiter, verify, circuit breaker, EXPORT DATA backend | see section 7 | | |

### What is hard

* Nothing spans two SQL statements: a claim is an UPDATE and then a SELECT, the
  end of a run is decided by two list queries, recovery is an UPDATE and then a
  DELETE. Other processes, and crashes, come in between.
* Late writers: a worker whose lease was reset, deleted or renewed still carries
  a generation and will write with it. `UpdateTaskState` and `RenewLease` look at
  the generation only.
* Cancellation: it makes every later statement of its owner fail, in the middle
  of any sequence of them.
* An export is a chain (upload, copy, delete, manifest, partition rows,
  watermark) over three services, any link of which may fail or be the last one
  before a crash, while the clean-up goroutine deletes staging objects.
* Data goes on changing while it is exported; the watermark is one time per table.
* Three goroutines of an export wait for one another over a bounded channel and a
  pipe, and each may be the first to end; to the writer a cancelled or broken
  stream looks like the end of the table.
* Exports of one table by several workers and processes share the manifest, the
  staging prefix and the partition rows, without a lock.
* Overlap: cron does not wait for the previous trigger, and the lock has no owner.

### What makes each part correct

* Tasks: a task is held by one claimant; a settled task stays settled; completed
  means exported; a completed run has settled its backlog; pending tasks are
  claimed; a cancelled run returns.
* Incremental sync: recorded paths and manifest entries are never ahead of the
  object store; the watermark does not move back and does not pass what has not
  been exported.
* Upload: the staging object appears at once and whole, or not at all; the hash
  recorded is of its bytes; the call returns and the reader ends.
* Exports of one table: partition rows and manifest point at files that exist; a
  completed export's file stays its own and stays listed.
* Schema and batches: the hash separates schemas, the diff is exact and its class
  sound; batches are a partition of the days.
* Scheduler: at most one run; nobody releases another's lock; no stuck flag.

`PROJECT.json` lists the hazards, each at the line where it bites, with the
properties that would catch it.

## 2. Modules

| Module | Models |
|---|---|
| `TaskLifecycle` | tasks and runs in the store, coordinator, workers, heartbeats, full export |
| `TaskLifecycleProofs` | its theorems |
| `CoordinatorProofs` | the theorems about `waitForCompletion` and the backlog |
| `TaskQueue` | abstract: what the tasks table promises; implemented by `TaskLifecycle` |
| `TaskQueueProofs` | the refinement, and the theorems that rest on who holds a task |
| `Pipeline` | one streaming export: reader, writer, uploader, the multipart upload |
| `PipelineProofs` | its theorems |
| `AtomicUpload` | abstract: what the callers of an upload rely on; implemented by `Pipeline` |
| `TableExport` | several exports of one table: executor and `exportBatch` call by call |
| `TableExportProofs` | its theorems |
| `IncrementalSync` | `SyncAll`, run after run, over one partitioned table |
| `IncrementalSyncProofs` | its theorems |
| `Scheduler` | cron triggers, job lock, overlap policies, running flag |
| `SchedulerProofs` | its theorems |
| `SchemaChanges` | a change, its classification, and the reference: schemas as sets of columns |
| `SchemaDiff` | `CanonicalHash` and `Diff`, which recurse through nested fields |
| `Batching` | `groupIntoBatches`, loop by loop |
| `AlgorithmProofs` | the theorems about `Batching` and `SchemaChanges` |
| `MCTaskLifecycle`, `MCPipeline`, `MCTableExport`, `MCIncrementalSync`, `MCScheduler`, `MCAlgorithms` | instances for TLC |

The modules are nested by what they leave out. `Scheduler` has `RunOnce` as one
step; `TaskLifecycle` is its inside and has an export as one step (`WkExport`);
`TableExport` is the inside of that and has an upload as one step; `Pipeline` is
the inside of the upload. `AtomicUpload` is the interface between the last two: it
has the outcomes that `Upload` and `ExportFails` of `TableExport` and `Upload`,
`UploadTruncated` and `ExportFails` of `IncrementalSync` assume.

Definitions named `Mut...` are deliberately wrong variants of the
definition that follows them, used to test that the properties can fail; no
action refers to them.

### Pipeline

`rd`, `wr` and `up` are where the three goroutines are, `channel` the record
channel, `pipe` the chunk being written and how the pipe was closed, `up.buf` the
part buffer, `upload` and `object` the store. Bytes are chunks: a header, one
chunk per record, a footer; a part holds `PartSize` chunks (16 MiB in the code),
the channel `ChanCap` records (32). A write returns when the chunk has been read,
as `io.Pipe` does. `Write` and the footer are one chunk each, so what the library
buffers in between is left out; it changes when bytes come, not which.

`live` is the task's context. Every call under it may fail for certain once it is
cancelled, and within `MaxFaults` before. `AbortStaleUploads` is the start of
another process. `CompletedParts` gives every part the last part number, as the
pointer in the code does, and `Accepted` is the store's rule that part numbers
ascend. `cut` remembers that the row stream broke off while the context was live.

`AtomicUpload` has three steps: the stream breaks off, the object is stored, the
call fails. The refinement mapping (`UploadStatus`) calls an upload "stored" when
the object is there, whatever the uploader still has to read from `outcomeCh`;
that it then never reports a failure is part of what the refinement says.

### TableExport

Actors are workers (`ExecuteTask` of a task with partition "full") and
`bqcubbit sync` processes (`exportBatch` of one partition); both go through
schema version, upload, copy, delete, manifest (read, then write), partition row
(SELECT, INSERT, UPDATE) and completion, one call per action; only the batch's check at
the start (`GetOrCreatePartition` and HEAD) is one step. An export is a
number that stands for its bytes and its hash. `Stamps` is what the clock puts into
keys; two exports may get the same. `collided` and `raced` remember that two
exports used one key, and that a manifest update overlapped another or failed: the
code permits both, and the properties say what holds otherwise and so that these
are the only ways to lose something.

`resolveSchemaVersion` returns 1 whatever the schema is (section 4), so keys do
not carry a version. Left out: `bq_last_modified` and the size columns, and the
watermark (in `IncrementalSync`).

### SchemaChanges, SchemaDiff, Batching

Pure functions; `MCAlgorithms` picks an input and computes. Fields are records with
nested fields, two levels deep in the instance, in every order, with equal and
different types and modes; a SHA-256 is the byte string itself. The reference
(`Columns`, `ChangedPaths`, `ColumnsReadable`, `TypedPaths`) sees a schema as a set of
columns with paths, does not recurse in step with the code, and takes what is wider
than what from the document's chains (`Chains`), not from the code's table. The
classification is judged by presence and types only: `diffFields` does not compare the
mode of a column both schemas have, and `ClassifiedSoundly` says nothing about such a
change. With the modes counted (`ReadsOldFiles` has `ListsKept` too) NONE and ADDITIVE do
not mean that old files can be read; `SchemaModes.cfg` (section 4) shows it. That a column
becomes REQUIRED is in neither, since the document says both that it is breaking
(`bigqueryexporter-analysis.md:648`) and that it is not (line 666).
`SchemaChanges` has what needs no recursion and can be proved about; `WellFormed`
is what BigQuery lets a schema be, and `MCAlgorithms` has TLC check it of every schema
it enumerates (`SchemasAssumption`).

`Batching` is the function as a small machine: `Enter` is everything up to the loop,
`NextWindow`, `Scan` and `CloseWindow` are the bodies of the two loops, `Return` the
exit, so that what the loops compute is an invariant and their progress an action
property. A partition is a day number, `NoDate` an id such as `__NULL__`, which sorts
last; the caller's list is in the order of its ids (`partitions.go:49`).

### TaskLifecycle

State and code: `run` and `task` are the rows of `sync_runs` and `tasks`; `co`,
`wk` and `cli` are the program counter and locals of `RunOnce`, of each worker
and of `SyncTable`. `older` keeps the order of `lease_expires_at`, which
`ClaimTask`'s SELECT sorts by. `exported` and `faults` are history variables.

Every action is one SQL statement, or one call that contains none, of one
process. The store's statements are operators that give the new table
(`ClaimUpdate`, `UpdateTaskState`, `RenewLease`, ...), named after the Go methods.
An action whose statement can fail has a disjunct for the failure: for certain
once the owner's context is cancelled, otherwise within `MaxFaults`. Errors that
the code reports and that leave everything unchanged (`CoBeginFails`,
`WkAbandon`, `CliError` before the claim) need no budget.

Abstractions. Ten minutes are one `Tick`; a lease is the number of ticks left and
is kept only while a statement can read it (the row is assigned), a run's age
saturates at `StaleAfter`. A task is numbered by its `created_at`. The executor's
upload, rename, manifest and partition row are one step (`WkExport`), and so is
`SyncTable`'s `UploadStream` (`CliUpload`); the executor's is what
`TableExport` and `Pipeline` take apart; what both establish here is that the
table was uploaded, and a row stream that breaks off counts as uploaded too. Tasks carry the
partition "full", as all tasks that the code creates do, so that the executor's
skip of exported partitions cannot happen. The pool's workers have all started
when the wait ends; a `Stop` before a worker's `Start` would be lost, but needs a
goroutine that is not scheduled for the minute the wait takes at least.

`TaskQueue` is the abstract view: created in order, the oldest pending one handed
out, a held one settled once or released, rows deleted. The mapping
(`QueueStatus`) reads the rows only. It is checked, and proved, without overlap.

### IncrementalSync

A partition is a day, its content the time it was last modified; what an
exported file holds is the whole table's snapshot when `ReadTable` opened its
session. `path` is `last_exported_path`, `object` and `staged` the object store
under final and staging keys, `manifest` the entries of `_manifest.json` per
path. One process runs at a time; its clean-up goroutine is an actor of its own.
Every call may fail within `MaxFailures`, and the process may be killed between
any two steps. Staging keys are per run (the code takes them from the time of day,
which differs between runs that follow one another). `broken` remembers that a row stream broke off, so that the other
invariants can be stated for what they are about.

Left out: recovery of stale runs at the start (it is in `TaskLifecycle`),
schema versions (always v1 on this path), more than one table (tables share
nothing but the run row).

### Scheduler

`lock` is the row of `job_locks`, remembered with the job that inserted it; no
guard reads the owner, as the table has no such column. `Expires` says whether
the expiry DELETE can match: the SQLite driver writes times in a format for
which `datetime()` yields NULL, so in the build it never does (`FALSE`), and a
lock left behind by a stopped daemon stays. `TRUE` is what the statement says; the DELETE may
then also fail, unnoticed.

## 3. Runs that pass

| Run | Instance | Shows |
|---|---|---|
| `TaskPool` | 2 workers, 2 tasks, 3 runs, 1 fault, no overlap with `sync`; 1.8M states | `TypeOK`, `ExclusiveClaim`, `CompletedIsExported`, `BacklogDrained`, `ImplementsTaskQueue` |
| `TaskLiveness` | 1 worker, a `sync` at any time under the same worker id, 1 task, 2 runs, 1 fault; 0.3M states | `GenerationsFenced`, `TerminalStable`, `CancelReturns`, `PendingIsClaimed` |
| `Pipeline` | up to 6 records, channel of 2, parts of 6 chunks, 2 faults; 12k states | `TypeOK`, `HashIsOfObject`, `SmallFailsOnlyOnFault`, `ImplementsAtomicUpload`, `UploadReturns`, `ReaderReleased` |
| `TableExport` | 2 workers and a `sync`, 3 exports, 2 stamps, 1 failing call, 1 kill or clean-up; 1.7M states | `TypeOK`, `CatalogueBacked`, `CompletedIsStored`, `CompletedIsListed` |
| `Algorithms` | every pair of schemas over two names and two levels; lists of up to 9 days and an id without a date, sizes -1 to 4; 0.5M inputs, 1.0M states | `HashSeparates`, `DiffIsExact`, `ClassifiedSoundly`, `BatchesPartition`, `WindowsMoveOn` |
| `SyncSafety` | 3 partitions, batches of 2 days, 3 modifications, 3 runs, 1 failing call, 1 crash; 4.1M states | `TypeOK`, `RecordedCovers`, `ManifestBacked`, `WatermarkMonotone` |
| `SchedSkip` | 2 daemons with 2 triggers each, `skip`, 2 stops; 12k states | `RunsExclusive`, `OwnerReleases` |
| `SchedRestart` | 1 daemon, 3 triggers, `cancel_and_restart`, expiring lock, 2 stops; 15k states | `RunsExclusive`, `FlagAccurate` |

Why the bounds are enough to be interesting. Two tasks are the smallest number
for which claim order, the newest-lease SELECT and a leftover of an earlier run
matter; three runs give one that goes stale, one that recovers it and one beside
them. `LeaseTTL` and `StaleAfter` are two ticks: long enough for a heartbeat to
renew, short enough for leases and runs to expire in every phase (the code's 3
and 144 ticks add length, not order). Six records against a channel of two and a
part of six chunks fill the channel with the reader blocked, fill a part exactly,
and give files of one and of two parts. Three exports by three actors overlap in
every step of the manifest update and reuse a key. Three partitions with batches of two days
have a first batch smaller than the whole, with and without gaps. One fault
suffices for each error path (the pipeline has two, so that a failure and its
failing abort combine); further combinations are outside the bound, and two
failing polls in a row are known to break `BacklogDrained` (hazard
`coordinator.go:143`). `TaskPool` has one table: with two, `CompletedIsExported`
fails (section 4).

`IncrementalSync`, `Pipeline` and `TableExport` stop once their work and bounds are
used up, so their deadlock check is off; that `Pipeline` does not stop too early is
`UploadReturns`. In `TaskLifecycle` time always passes, so what matters
there is liveness, not deadlock.

### Fairness

`FairSpec` has weak fairness of: the coordinator's steps, each worker's steps,
each heartbeat, the full export's steps, `Tick`, and `RunOnce` itself. The Go
scheduler runs goroutines, statements and uploads return with a result or an
error (an assumption about SQLite and the S3 client), tickers fire, and cron triggers again. There is no fairness of
crashes, cancellations, failing statements or an operator's `bqcubbit sync`, and
no strong fairness anywhere.

`Pipeline`'s `FairSpec` has weak fairness of each of the three goroutines (they are
scheduled, and a call to BigQuery or the store returns with a result or an error)
and of the cancel that `runOnce` defers. No fault is fair, and `UploadReturns` does
not need the cancellation.

## 4. Runs that find a disagreement

| Run | Property | What happens |
|---|---|---|
| `TaskDoubleClaim` | `ExclusiveClaim` | `SyncTable` and the pool's first worker share the id `worker-0`; between one's UPDATE and SELECT the other claims, and both return the same row |
| `TaskExpiredLease` | `ExpiredLeaseIsReset` | leases are reset only when `RunOnce` begins; an orphaned assigned row keeps it from ending |
| `SyncWatermark` | `WatermarkCovers` | the run's own clean-up goroutine deletes the staging object, the rename fails, and the watermark moves on all the same |
| `LargeUpload` | `FailsOnlyOnFault` | a file of two parts is completed with equal part numbers and refused; no file over 16 MiB is ever exported |

Each compares the code with a comment or document of the repository, quoted in
`PROJECT.json`. Four further configurations check other consequences of the same
modules and are violated too; they are not among the runs, and their findings are
recorded in `PROJECT.json` without a run:

| Configuration | Module | Property | What happens |
|---|---|---|---|
| `TaskOtherTable.cfg` | `MCTaskLifecycle` | `CompletedIsExported` | `SyncTable` claims another table's leftover and marks it completed |
| `SyncLateData.cfg` | `MCIncrementalSync` | `LateDataSynced` | a partition modified after its export is skipped as "already exported" and passed by the watermark |
| `SyncTruncated.cfg` | `MCIncrementalSync` | `CommitIsComplete` | a broken row stream is committed as a complete file |
| `SchemaModes.cfg` | `MCAlgorithms` | `ReadableUnlessBreaking` | a column that starts or stops being `REPEATED` changes the hash, and the difference is classified NONE |

Found while modelling, without a run, since the code settles them by itself: the
schema version never leaves 1, because the first one is stored as `{}` and never
parses as a list of fields;
`ack-schema-change` updates a column that does not exist. And two daemons under
`cancel_and_restart` do run at the same time, since the second goes on without
the lock.

## 5. Proofs

Assumptions: only the ones the modules name (`CountsAssumption`,
`TimesAssumption`, `NoneAssumption`; `PolicyAssumption`, `BoundsAssumption`,
`NoJobAssumption`; `PipelineAssumption`, `NoneAssumption` of `Pipeline`;
`ExportAssumption`; `SizesAssumption`, `NoneAssumption` of `IncrementalSync`;
`NoDateAssumption`, `ListsAssumption`, `SizesAssumption` of `Batching`): bounds
are natural numbers, durations, the channel's capacity, the part size, the batch size
of `IncrementalSync` and the number of partitions positive, no actor is both a worker
and a `sync`, `None` is not a value, the lists given to `groupIntoBatches` are
in the order of their ids and its sizes any integers. TLC evaluates them in every run. What a theorem assumes beyond them
is said with it. Every inductive invariant below was first checked by TLC as an
invariant of the component's run.

**TaskLifecycle**, for any number of workers, tasks, runs and faults, any sharing
of worker ids, with or without overlap:

* `TypeCorrect`: `Spec => []TypeOK`
* `Fencing`: `Spec => []GenerationsFenced`
* `SettledStays`: `Spec => TerminalStable`

They follow from `Inductive`, `Spec => []IInv`, with

    IInv == TypeOK /\ GenerationsFenced /\ IdleBelowTwo /\ FreshRows

`TerminalStable` is not inductive, as the statements that could break it look at
the generation and not at the state: a settled task is safe because every
generation carried anywhere is behind its row's, which is `GenerationsFenced`.
That in turn needs that a row's generation never decreases (lemma
`StepAdvances`), for which a row must be created with no smaller generation than
it had: `FreshRows`, rows not yet created have generation 0. `IdleBelowTwo` is what
bounds `idleLoops` in `TypeOK`. The argument goes statement by statement
(`StatementTypes`, `StatementsAdvance`), then action by action (`TypeStep`,
`FencedStep`, `IdleStep`, `FreshStep`).

The queue (`TaskQueueProofs`), for any number of workers, tasks, runs and faults:

* `QueueRefinement`, assuming `~Overlap`: `Spec => ImplementsTaskQueue`
* `ClaimsAreExclusive`, assuming `~Overlap` and `DistinctIds`:
  `Spec => []ExclusiveClaim`
* `CompletionIsEarned`, assuming `OneTable`: `Spec => []CompletedIsExported`

The first two follow from `HeldRowsInvariant`, `Spec => []QInv`, with

    QInv == IInv /\ OneAtATime /\ HeldRows

`HeldRows` says that the row of a task somebody holds is not pending, and is his while
it is assigned. Only the reset of expired leases could break it, and without overlap
the reset runs where no worker and no `SyncTable` is active (`OneAtATime`). Then
each statement is one operation of the queue (`StatementsMove`): `UpdateTaskState` never
settles a pending row, which its SQL alone would allow. Exclusive claims add
`ClaimsApart`, that no two workers carry the same task with the same generation: the
SELECT after a worker's UPDATE finds a row of its own id, and a row that another worker
holds has that worker's. `DistinctIds` is how the pool numbers its workers. Overlap is
excluded for a reason: `TaskDoubleClaim` is the counterexample with it.

`CompletionIsEarned` needs neither, only that one table is configured
(`TaskOtherTable.cfg` shows it false with two). Its invariant, `XInv`, follows the uploads:
a task that somebody holds has been created, and whoever is about to write "completed"
has uploaded its table since (`Served`).

The backlog (`CoordinatorProofs`), for any number of workers, tasks and runs, with or
without overlap:

* `DrainedUnlessPollsFail`: `Spec => DrainedUnlessTwoFail`, that a run recorded
  completed before a second fault has its backlog settled, whatever `MaxFaults` is
* `OneFaultDrains`, assuming `MaxFaults <= 1`: `Spec => BacklogDrained`

They follow from `RoundsInductive`, `Spec => []CInv`, with

    CInv == BacklogKnown /\ RoundsCounted /\ RunsApart

`waitForCompletion` polls twice per round, pending and then assigned, and takes an
error for an empty list. An invariant about the round in progress is not inductive,
since whether a poll failed is forgotten when the round ends. `RoundsCounted` counts
instead: while the backlog is open, each quiet round has used up a fault
(`idle <= faults`), and between the two polls of a quiet round the backlog has no
pending task or one more fault was used. That no step makes a settled or claimed row
pending again while `RunOnce` waits (`StepDescends`) is what lets the two polls,
which are no snapshot, be combined. `RunsApart` keeps an overlapping `SyncTable` from
completing the daemon's run. The bound is sharp: two failing polls in a row complete
a run over an open backlog (hazard `coordinator.go:143`).

**TableExport**, for any number of workers, processes, time stamps, exports, faults
and kills:

* `TypeCorrect`: `Spec => []TypeOK`
* `CatalogueIsBacked`: `Spec => []CatalogueBacked`
* `CompletedTaskKeepsItsFile`: `Spec => []CompletedIsStored`
* `ManifestLosesOnlyInRaces`: `Spec => []CompletedIsListed`

They follow from `ExportInvariant`, `Spec => []IInv`, with

    IInv == TypeOK /\ ActorLocals /\ Backed /\ OwnFiles /\ ListedFiles

The three properties are about what was written down; an export carries a key and a
copy of the manifest through several steps before it writes, while others copy,
clean up and write. `Backed`, `OwnFiles` and `ListedFiles` are the three properties
extended to what the actors carry: to keys from the copy on, to local copies of the
manifest, to staging objects, and, for the last, that a copy about to be merged is
still the manifest unless an update overlapped. Eight of the actions change no
object, manifest or recorded path and go through one lemma (`PassesKeeps`); the others have
one each. `WithFileFacts` says what merging does to the entries of a path.

**IncrementalSync**, for any number of partitions and runs, any batch size, any number
of modifications, failing calls and kills:

* `TypeCorrect`: `Spec => []TypeOK`
* `RecordedIsCovered`: `Spec => []RecordedCovers`
* `ManifestIsBacked`: `Spec => []ManifestBacked`
* `WatermarkNeverMovesBack`: `Spec => WatermarkMonotone`

They follow from `SyncInvariant`, `Spec => []IInv`, with

    IInv == TypeOK /\ SyncLocals /\ ListingIsOld /\ RowsInOrder /\ FinalIsWritten
            /\ RecordedCovers /\ ManifestBacked

A later run replaces the object under a key that earlier runs have recorded, so what
must be shown is that it is never replaced by something older. `RowsInOrder` is the
order that makes it so: the partitions were listed before the rows were read, and every
object in the store was read before them (`Upto` is that order, partition by
partition). `FinalIsWritten` carries the copied rows to the steps that list and record
them. `SyncLocals` has the batch and the partitions left nonempty where their first
and last are taken, and every partition in `todo` newer than the watermark, from which
its monotonicity follows. That a nonempty set of days has a first and a last one
(`Least`, `Greatest`, `BatchFacts`) is derived from the library's theorem that finite sets
are well-founded under inclusion, since the induction principle for naturals
cannot be instantiated by the installed provers.

**Pipeline**, for any number of records, channel capacity, part size and number of
faults:

* `TypeCorrect`: `Spec => []TypeOK`, the capacities included
* `HashMatches`: `Spec => []HashIsOfObject`
* `Refinement`: `Spec => ImplementsAtomicUpload`
* `SmallUploadsSucceed`: `Spec => []SmallFailsOnlyOnFault`
* `StoredInOnePart`: `Spec => [](object # None => Len(object) <= PartSize)`

They follow from `Streaming`, `Spec => []IInv`, with

    IInv == TypeOK /\ WriterInv /\ UploaderInv /\ StreamInv

`WriterInv` ties the writer's place to how the pipe was closed and to the outcome
it sent: an "eof" means a writer without an error. `UploaderInv` says that the
bytes hashed are the bytes uploaded followed by the bytes in the buffer.
`StreamInv` follows the rows: what the reader has sent is what the writer took and
what is queued (`QueueInv`), and what the writer wrote is a file of what it took
(`FileInv`). It is conditional on a live context, because a cancelled reader drops the
record in its hand; the refinement needs it only at `UpComplete`, which needs a live
context too. That is the argument why a cancellation cannot leave a short object
although the writer cannot tell it from the end of the table. The lemma `Complete`
puts the three together at that step.

The last two say exactly what the finding of `LargeUpload` hits: every file of more
than one part, and no other. `Accepted` holds of a list of equal numbers only if its
length is one (`AcceptedIsOne`); `PartsInv` keeps what the first part holds, and
`SmallInv` that before the first fault nothing has failed and the store has no part
or the only one, a full one or the last of its file (`OnePart`). The second part is
excluded by the length of the file (`FileLength`, from `FileInv`), also where header,
records and footer fill the part exactly.

**Scheduler**, for any number of daemons, triggers and restarts, assuming
`~Expires` and a policy other than `cancel_and_restart`:

* `Exclusion`: `Spec => []RunsExclusive`
* `OwnRelease`: `Spec => OwnerReleases`

The invariant (`RowInvariant`) is that whoever is past `AcquireJobLock` owns the
row. Both assumptions are needed: with either dropped the invariant is false.

Without those assumptions, under every policy and with expiring locks:

* `FlagIsAccurate`: `Spec => []FlagAccurate`

from `FlagInv == TypeOK /\ OneRunEach /\ FlagOfRun`: a daemon has jobs only once it
runs cron, at most one of them is inside `RunOnce`, and a set flag belongs to that
job or to the initial run. `FlagAccurate` alone is not inductive: the return of one
`RunOnce` clears the flag, which is right only if no other of the daemon is inside.

* `OneDaemonExclusion`, assuming there is one daemon: `Spec => []RunsExclusive`

follows from the same invariant. It is the configuration `SchedRestart` checks: the
flag refuses what an expired lock or `cancel_and_restart` lets through.

**Algorithms.** `groupIntoBatches`, for every list of partitions and every size, zero
and negative ones included:

* `BatchesArePartition`: `Spec => []BatchesPartition`
* `LoopMovesOn`: `Spec => WindowsMoveOn`

from `BatchingInductive`, `Spec => []BInv`: the batches so far are a cut of the
partitions before `start` (the outer loop), and `batch` holds those of the partitions
looked at that lie in the window (the inner loop). With the end of the function this
gives the partition; `LoopMovesOn` is the variant that bounds the rounds.

`ClassificationSound`, for schemas of any width and nesting: given the changes between
two well-formed schemas (`WellFormed`, and paths that are nonempty sequences), each
once and with its columns (`ExactChanges`), `ClassifyChanges` is sound
in what the changes tell it (`SoundlyClassified`): BREAKING exactly if the columns cannot
be read any more (`ColumnsReadable`), NONE exactly if the columns and their types are the
same (`UnchangedMeans`). Modes of columns both have are excluded, as above. Wider is by
the documented chains; that the code's table has the same pairs is a lemma,
`WideningIsDocumented`. What `Diff` recurses to is not part of it: that `Diff` gives
exactly these changes is `DiffIsExact`, which TLC checks. The interesting direction is
that no breaking change means that the old columns can be read although the changes say
nothing about columns below a changed one. `FirstDifference` takes the first
enclosing path on which the schemas disagree; a change is reported there, and since a
column that encloses others is no scalar (`Enclosing`), a change of its type is
breaking.

## 6. Only model-checked

Liveness (`CancelReturns`, `PendingIsClaimed`, `UploadReturns`, `ReaderReleased`):
TLAPS does not handle fairness and `ENABLED`. `HashSeparates` and `DiffIsExact`:
`CanonicalBytes` and `DiffFields` recurse through nested fields, and what a recursive
definition computes for every input needs an induction over data, which the
installed provers cannot do. `ClassifiedSoundly` composes `Diff` with
`ClassifyChanges`; its second half is `ClassificationSound`, its first is
`DiffIsExact`. `BacklogDrained` is proved for one fault and false for more.
The violated properties of section 4 have counterexamples; `ExclusiveClaim` and
`FailsOnlyOnFault` have theorems that say when they hold all the same.

## 7. Not modelled

* The full export's manifest, `Pool.ScaleUp`, the EXPORT DATA backend, circuit
  breaker, error classes, late-data predicate: no effect on the state modelled, or
  no caller.
* `Worker.Stop` before the worker's goroutine has begun: it needs a goroutine that
  is not scheduled for as long as a whole run takes.
* Two incremental syncs racing for the watermark: the later write wins; files,
  partition rows and manifest of concurrent processes are in `TableExport`.
* Parquet encoding, Arrow decoding, token buckets: libraries.
* Config, metrics, verify, web UI: parsing, counters and read-only queries. The web
  UI's log buffer has readers but nothing writes to it.

## 8. Plan

Done, in the order of importance: `TaskLifecycle` with its type and fencing
proofs, `IncrementalSync`, `Scheduler` with its proofs, `Pipeline` with its
refinement of `AtomicUpload` and the proof of it, `TableExport`, `TaskQueue` and the
refinement, `SchemaChanges`, `SchemaDiff`, `Batching`.

Then the proofs of section 5: the task queue and its refinement, exclusive claims,
completion, all properties of `TableExport` and of `IncrementalSync`, the backlog,
`groupIntoBatches`, the classification of schema changes, uploads of one part.

Next, theorems: that the files of `IncrementalSync` and of `TableExport` appear only as
`AtomicUpload` allows. Next, models:
`WorkerPool` (the `Start`/`Stop` race) and a second process in `IncrementalSync`.
