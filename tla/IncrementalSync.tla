--------------------------- MODULE IncrementalSync ---------------------------
(***************************************************************************)
(* `bqcubbit sync` without a configured table: Orchestrator.SyncAll over   *)
(* one partitioned table, run after run, while BigQuery goes on modifying  *)
(* the table's partitions.                                                 *)
(*                                                                         *)
(* A partition is the day number its id stands for, and its content is the *)
(* last_modified_time it was written at (0 while it does not exist): a     *)
(* snapshot of the table is a function from partitions to such times, and  *)
(* that is also what an exported file holds, for ReadTable streams the     *)
(* whole table.  Every run is a process of its own, one at a time; beside  *)
(* the sync it runs main's clean-up goroutine, which deletes everything    *)
(* under _staging/, the run's own upload included.                         *)
(*                                                                         *)
(* Any call to BigQuery, to the object store or to SQLite may fail, within *)
(* a budget, and the process may be killed between any two steps.          *)
(***************************************************************************)
EXTENDS Naturals, FiniteSets, Sequences

CONSTANTS
    NumParts,       \* bound: partitions (days) of the table
    BatchSizeDays,  \* sync.batch_size_days
    None,           \* no object, no path
    MaxTime,        \* bound: modifications of the table
    NumRuns,        \* bound: runs of `bqcubbit sync`
    MaxFailures,    \* bound: failing calls
    MaxCrashes      \* bound: killed processes

ASSUME SizesAssumption ==
    /\ NumParts \in Nat \ {0} /\ BatchSizeDays \in Nat \ {0} /\ NumRuns \in Nat
    /\ MaxTime \in Nat /\ MaxFailures \in Nat /\ MaxCrashes \in Nat

Parts == 1..NumParts
Runs  == 1..NumRuns
Times == 0..MaxTime
Snapshots == [Parts -> Times]
\* dataset/table/schema_version=v1/<first>_<last>.parquet
Keys  == {k \in Parts \X Parts : k[1] <= k[2]}
ASSUME NoneAssumption == None \notin Keys /\ None \notin Snapshots

VARIABLES
    lmt,        \* BigQuery: each partition's last_modified_time
    now,        \* the time of the latest modification
    watermark,  \* tables.last_sync_watermark, 0 for NULL
    path,       \* partitions.last_exported_path
    object,     \* the object store: what each final key holds
    staged,     \* the object store: what each run's _staging/ key holds
    manifest,   \* _manifest.json: per path its entries, in file order
    runState,   \* table sync_runs
    sy,         \* the sync: where SyncAll is, and its locals
    cleaner,    \* the clean-up goroutine: where it is, the keys it listed
    recorded,   \* history: the modification a recorded path was exported for
    broken,     \* history: has a stream of rows broken off in an export
    failures,   \* history: calls that failed so far
    crashes     \* history: processes killed so far

store == <<path, object, staged, manifest>>
vars == <<lmt, now, watermark, store, runState, sy, cleaner, recorded, broken, failures, crashes>>

Steps == {"off", "discover", "table", "read", "check", "upload", "copy", "delete",
          "manifest", "record", "watermark", "complete"}

NoSnapshot == [p \in Parts |-> 0]
\* Between runs a process has no locals.
OffSync    == [pc |-> "off", run |-> 0, seen |-> NoSnapshot, todo |-> {},
               rows |-> NoSnapshot, batch |-> {}, left |-> {}, result |-> "completed"]
OffCleaner == [pc |-> "off", keys |-> {}]

(* The tables, the store and the process's locals have their types; a path in *)
(* the manifest has at most the old and the new entry.                        *)
TypeOK ==
    /\ lmt \in Snapshots /\ now \in Times /\ watermark \in Times
    /\ path \in [Parts -> Keys \cup {None}]
    /\ object \in [Keys -> Snapshots \cup {None}]
    /\ staged \in [Runs -> Snapshots \cup {None}]
    /\ manifest \in [Keys -> Seq(Snapshots)] /\ \A k \in Keys : Len(manifest[k]) <= 2
    /\ runState \in [Runs -> {"absent", "running", "completed", "failed"}]
    /\ sy \in [pc: Steps, run: Runs \cup {0}, seen: Snapshots, todo: SUBSET Parts,
               rows: Snapshots, batch: SUBSET Parts, left: SUBSET Parts,
               result: {"completed", "failed"}]
    /\ cleaner \in [pc: {"off", "list", "delete"}, keys: SUBSET Runs]
    /\ recorded \in Snapshots /\ broken \in BOOLEAN
    /\ failures \in 0..MaxFailures /\ crashes \in 0..MaxCrashes

Init ==
    /\ lmt = NoSnapshot /\ now = 0 /\ watermark = 0
    /\ path = [p \in Parts |-> None]
    /\ object = [k \in Keys |-> None]
    /\ staged = [r \in Runs |-> None]
    /\ manifest = [k \in Keys |-> <<>>]
    /\ runState = [r \in Runs |-> "absent"]
    /\ sy = OffSync /\ cleaner = OffCleaner
    /\ recorded = NoSnapshot /\ broken = FALSE
    /\ failures = 0 /\ crashes = 0

-----------------------------------------------------------------------------
First(S) == CHOOSE p \in S : \A q \in S : p <= q
Last(S)  == CHOOSE p \in S : \A q \in S : q <= p

MutModifiedDiffers(seen) == {p \in Parts : seen[p] > 0 /\ seen[p] # watermark}

\* The partitions modified since the watermark.
Modified(seen) == {p \in Parts : seen[p] > 0 /\ seen[p] > watermark}

\* groupIntoBatches, the batch that starts at the first day.
FirstBatch(S) == {p \in S : p <= First(S) + BatchSizeDays - 1}

FinalKey == <<First(sy.batch), Last(sy.batch)>>

\* last_exported_path is set and HEAD finds the object.
Exported(p) == path[p] # None /\ object[path[p]] # None

MutMergedAll(old) == old

\* manifest.Merge into an empty manifest keeps the first entry of each path;
\* AddFile then appends.
MergedEntries(old) == IF old = <<>> THEN <<>> ELSE <<old[1]>>
MergeManifest(old, key, rows) ==
    [k \in Keys |-> IF k = key THEN Append(MergedEntries(old[k]), rows)
                    ELSE MergedEntries(old[k])]

GoTo(step) == sy' = [sy EXCEPT !.pc = step]
Fails      == failures < MaxFailures /\ failures' = failures + 1

\* What every step of the sync leaves alone.
KeepsSource == UNCHANGED <<lmt, now, cleaner, crashes>>
KeepsTables == UNCHANGED <<watermark, path, runState, recorded, broken>>
KeepsObjects == UNCHANGED <<object, staged, manifest>>

-----------------------------------------------------------------------------
(* BigQuery: rows arrive in a partition, a new one or an old one. *)
Modify(p) ==
    /\ now < MaxTime
    /\ now' = now + 1
    /\ lmt' = [lmt EXCEPT ![p] = now + 1]
    /\ UNCHANGED <<watermark, store, runState, sy, cleaner, recorded, broken, failures, crashes>>

\* main.runSync: the clean-up goroutine starts, then SyncAll's BeginRun.
Start ==
    /\ sy.pc = "off"
    /\ \E r \in Runs :
          /\ runState[r] = "absent" /\ \A q \in 1..(r-1) : runState[q] # "absent"
          /\ runState' = [runState EXCEPT ![r] = "running"]
          /\ sy' = [OffSync EXCEPT !.pc = "discover", !.run = r]
    /\ cleaner' = [OffCleaner EXCEPT !.pc = "list"]
    /\ UNCHANGED <<lmt, now, watermark, store, recorded, broken, failures, crashes>>

\* DiscoverPartitions, without a watermark.
Discover ==
    /\ sy.pc = "discover"
    /\ sy' = [sy EXCEPT !.pc = "table", !.seen = lmt]
    /\ UNCHANGED failures
    /\ KeepsSource /\ KeepsTables /\ KeepsObjects

\* The only error SyncAll reports.
DiscoverFails ==
    /\ sy.pc = "discover" /\ Fails
    /\ sy' = [sy EXCEPT !.pc = "complete", !.result = "failed"]
    /\ KeepsSource /\ KeepsTables /\ KeepsObjects

\* syncTable: table state, schema, schema version, the filter.
FilterModified ==
    /\ sy.pc = "table"
    /\ LET todo == Modified(sy.seen)
       IN  sy' = [sy EXCEPT !.todo = todo, !.pc = IF todo = {} THEN "complete" ELSE "read"]
    /\ UNCHANGED failures
    /\ KeepsSource /\ KeepsTables /\ KeepsObjects

\* ReadTable opens a session on the whole table as it is now.
ReadTable ==
    /\ sy.pc = "read"
    /\ sy' = [sy EXCEPT !.pc = "check", !.rows = lmt, !.batch = FirstBatch(sy.todo)]
    /\ UNCHANGED failures
    /\ KeepsSource /\ KeepsTables /\ KeepsObjects

\* syncTable's own errors are logged by SyncAll, which still succeeds.
SyncTableFails ==
    /\ sy.pc \in {"table", "read"} /\ Fails
    /\ GoTo("complete")
    /\ KeepsSource /\ KeepsTables /\ KeepsObjects

\* exportBatch: every partition of the batch has an exported file already.
CheckExported ==
    /\ sy.pc = "check"
    /\ GoTo(IF \A p \in sy.batch : Exported(p) THEN "watermark" ELSE "upload")
    /\ UNCHANGED failures
    /\ KeepsSource /\ KeepsTables /\ KeepsObjects

\* A HEAD that fails, or a row that cannot be read, counts as not exported.
CheckFails ==
    /\ sy.pc = "check" /\ Fails
    /\ GoTo("upload")
    /\ KeepsSource /\ KeepsTables /\ KeepsObjects

\* UploadMultipart of the stream to the run's staging key, which the code makes from the
\* time of day: runs that follow one another have different keys.
Upload ==
    /\ sy.pc = "upload"
    /\ staged' = [staged EXCEPT ![sy.run] = sy.rows]
    /\ GoTo("copy")
    /\ UNCHANGED <<object, manifest, failures>>
    /\ KeepsSource /\ KeepsTables

\* ReadRows or Recv fails midway: the reader logs it and closes the channel,
\* which the parquet writer takes for the end of the table.
UploadTruncated ==
    /\ sy.pc = "upload" /\ Fails
    /\ \E S \in SUBSET Parts :
          /\ S # Parts
          /\ LET rows == [p \in Parts |-> IF p \in S THEN sy.rows[p] ELSE 0]
             IN  /\ staged' = [staged EXCEPT ![sy.run] = rows]
                 /\ sy' = [sy EXCEPT !.pc = "copy", !.rows = rows]
    /\ broken' = TRUE
    /\ UNCHANGED <<watermark, path, runState, recorded, object, manifest>>
    /\ KeepsSource

MutCopyIgnoresError ==
    /\ sy.pc = "copy"
    /\ object' = IF staged[sy.run] = None THEN object
                 ELSE [object EXCEPT ![FinalKey] = staged[sy.run]]
    /\ GoTo("delete")
    /\ UNCHANGED <<staged, manifest, failures>>
    /\ KeepsSource /\ KeepsTables

\* RenameObject, first half.  The staging object may be gone by now.
RenameCopy ==
    /\ sy.pc = "copy"
    /\ IF staged[sy.run] = None
       THEN GoTo("watermark") /\ UNCHANGED object
       ELSE /\ object' = [object EXCEPT ![FinalKey] = staged[sy.run]]
            /\ GoTo("delete")
    /\ UNCHANGED <<staged, manifest, failures>>
    /\ KeepsSource /\ KeepsTables

RenameDelete ==
    /\ sy.pc = "delete"
    /\ staged' = [staged EXCEPT ![sy.run] = None]
    /\ GoTo("manifest")
    /\ UNCHANGED <<object, manifest, failures>>
    /\ KeepsSource /\ KeepsTables

\* exportBatch returns an error: logged, and syncTable goes on.
ExportFails ==
    /\ sy.pc \in {"upload", "copy", "delete"} /\ Fails
    /\ GoTo("watermark")
    /\ KeepsSource /\ KeepsTables /\ KeepsObjects

\* mergeManifest: read, merge, add, write back.
UpdateManifest ==
    /\ sy.pc = "manifest"
    /\ manifest' = MergeManifest(manifest, FinalKey, sy.rows)
    /\ sy' = [sy EXCEPT !.pc = "record", !.left = sy.batch]
    /\ UNCHANGED <<object, staged, failures>>
    /\ KeepsSource /\ KeepsTables

\* The HEAD or GET of the old manifest fails: the new one starts empty.
ManifestUnread ==
    /\ sy.pc = "manifest" /\ Fails
    /\ manifest' = MergeManifest([k \in Keys |-> <<>>], FinalKey, sy.rows)
    /\ sy' = [sy EXCEPT !.pc = "record", !.left = sy.batch]
    /\ UNCHANGED <<object, staged>>
    /\ KeepsSource /\ KeepsTables

\* The manifest's upload fails: logged.
ManifestFails ==
    /\ sy.pc = "manifest" /\ Fails
    /\ sy' = [sy EXCEPT !.pc = "record", !.left = sy.batch]
    /\ KeepsSource /\ KeepsTables /\ KeepsObjects

NextStep(left) == IF left = {} THEN "watermark" ELSE "record"

\* UpdatePartitionSync, one partition of the batch after the other.
RecordPartition ==
    /\ sy.pc = "record"
    /\ LET p == First(sy.left)
       IN  /\ path' = [path EXCEPT ![p] = FinalKey]
           /\ recorded' = [recorded EXCEPT ![p] = sy.seen[p]]
           /\ sy' = [sy EXCEPT !.left = sy.left \ {p}, !.pc = NextStep(sy.left \ {p})]
    /\ UNCHANGED <<watermark, runState, broken, failures>>
    /\ KeepsSource /\ KeepsObjects

RecordFails ==
    /\ sy.pc = "record" /\ Fails
    /\ LET p == First(sy.left)
       IN  sy' = [sy EXCEPT !.left = sy.left \ {p}, !.pc = NextStep(sy.left \ {p})]
    /\ KeepsSource /\ KeepsTables /\ KeepsObjects

\* The last partition's time, whatever happened to the export.
UpdateTableWatermark ==
    /\ sy.pc = "watermark"
    /\ watermark' = sy.seen[Last(sy.todo)]
    /\ GoTo("complete")
    /\ UNCHANGED <<path, runState, recorded, broken, failures>>
    /\ KeepsSource /\ KeepsObjects

WatermarkFails ==
    /\ sy.pc = "watermark" /\ Fails
    /\ GoTo("complete")
    /\ KeepsSource /\ KeepsTables /\ KeepsObjects

\* CompleteRun, whose error is only logged; the process exits and the clean-up
\* goroutine with it.
Complete ==
    /\ sy.pc = "complete"
    /\ \/ runState' = [runState EXCEPT ![sy.run] = sy.result] /\ UNCHANGED failures
       \/ Fails /\ UNCHANGED runState
    /\ sy' = OffSync /\ cleaner' = OffCleaner
    /\ UNCHANGED <<lmt, now, watermark, store, recorded, broken, crashes>>

Crash ==
    /\ sy.pc # "off" /\ crashes < MaxCrashes
    /\ crashes' = crashes + 1
    /\ sy' = OffSync /\ cleaner' = OffCleaner
    /\ UNCHANGED <<lmt, now, watermark, store, runState, recorded, broken, failures>>

-----------------------------------------------------------------------------
(* storage.DeleteObjects("_staging/"): list a page, then delete it. *)
CleanerList ==
    /\ cleaner.pc = "list"
    /\ cleaner' = [pc |-> "delete", keys |-> {r \in Runs : staged[r] # None}]
    /\ UNCHANGED <<lmt, now, watermark, store, runState, sy, recorded, broken, failures, crashes>>

CleanerDelete ==
    /\ cleaner.pc = "delete"
    /\ staged' = [r \in Runs |-> IF r \in cleaner.keys THEN None ELSE staged[r]]
    /\ cleaner' = OffCleaner
    /\ UNCHANGED <<lmt, now, watermark, path, object, manifest, runState, sy, recorded, broken,
                   failures, crashes>>

\* The listing or the deletion fails: a warning.
CleanerFails ==
    /\ cleaner.pc # "off" /\ Fails
    /\ cleaner' = OffCleaner
    /\ UNCHANGED <<lmt, now, watermark, store, runState, sy, recorded, broken, crashes>>

Sync ==
    \/ Discover \/ DiscoverFails \/ FilterModified \/ ReadTable \/ SyncTableFails
    \/ CheckExported \/ CheckFails \/ Upload \/ UploadTruncated \/ RenameCopy \/ RenameDelete \/ ExportFails
    \/ UpdateManifest \/ ManifestUnread \/ ManifestFails
    \/ RecordPartition \/ RecordFails \/ UpdateTableWatermark \/ WatermarkFails \/ Complete

Next ==
    \/ \E p \in Parts : Modify(p)
    \/ Start \/ Sync \/ Crash
    \/ CleanerList \/ CleanerDelete \/ CleanerFails

Spec == Init /\ [][Next]_vars

-----------------------------------------------------------------------------
(* last_exported_path is never ahead of the store: the object is there and, as *)
(* long as no stream of rows has broken off, holds the partition at least as   *)
(* the run that recorded it saw it modified, whatever failed, crashed, was     *)
(* cleaned up or was exported again.                                           *)
RecordedCovers ==
    \A p \in Parts : path[p] # None =>
        object[path[p]] # None /\ (~broken => object[path[p]][p] >= recorded[p])

(* The manifest is never ahead of the store: every entry's object is there and *)
(* (no stream having broken off) is the one the entry was written for, or a    *)
(* later export of the same key.                                               *)
ManifestBacked ==
    \A k \in Keys : \A i \in DOMAIN manifest[k] :
        object[k] # None /\ (~broken => \A p \in Parts : manifest[k][i][p] <= object[k][p])

(* Only complete exports are committed: a recorded path holds the partition,   *)
(* even if a stream of rows broke off.                                         *)
CommitIsComplete ==
    \A p \in Parts : path[p] # None => object[path[p]][p] >= recorded[p]

(* The watermark never moves back, although it is the time of the last         *)
(* partition in id order and not the latest one.                               *)
WatermarkMonotone == [][watermark' >= watermark]_vars

(* Between runs, whatever is not newer than the watermark has been exported as *)
(* it is: the next run will not look at it.                                    *)
WatermarkCovers ==
    sy.pc = "off" =>
        \A p \in Parts : 0 < lmt[p] /\ lmt[p] <= watermark =>
            path[p] # None /\ object[path[p]] # None /\ object[path[p]][p] >= lmt[p]

(* Between runs, a partition that was modified after it had been exported has  *)
(* been exported again by the time the watermark passes the modification.      *)
LateDataSynced ==
    sy.pc = "off" =>
        \A p \in Parts : Exported(p) /\ lmt[p] <= watermark =>
            object[path[p]][p] >= lmt[p]
=============================================================================
