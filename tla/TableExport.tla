----------------------------- MODULE TableExport -----------------------------
(***************************************************************************)
(* Several exports of one table at once: ExecuteTask in the pool's workers *)
(* and exportBatch in `bqcubbit sync` processes.  They share the table's   *)
(* row in schema_versions, its rows in partitions, the staging and final   *)
(* keys of the object store and the one _manifest.json, which each of them *)
(* reads, merges and writes back without any lock.                         *)
(*                                                                         *)
(* An export is known by a number, in the order in which they started; the *)
(* number also stands for the bytes it uploads and for their SHA-256.  A   *)
(* task exports the partition "full" under a key that ends in the clock's  *)
(* last five digits in milliseconds; a batch exports its partition under a *)
(* key made of the partition's id.  What happens inside an upload is       *)
(* Pipeline's.                                                             *)
(***************************************************************************)
EXTENDS Naturals, Sequences, FiniteSets

CONSTANTS
    Workers,     \* workers, each with a task of the table
    Syncs,       \* `bqcubbit sync` processes
    Stamps,      \* what time.Now() may contribute to a key
    None,        \* no object, no path
    MaxExports,  \* bound: exports started
    MaxFaults,   \* bound: failing calls
    MaxCrashes   \* bound: actors killed, processes that start and clean up

ASSUME ExportAssumption ==
    /\ Workers \cap Syncs = {}
    /\ MaxExports \in Nat /\ MaxFaults \in Nat /\ MaxCrashes \in Nat

Actors  == Workers \cup Syncs
Kinds   == {"task", "batch"}
Kind(a) == IF a \in Workers THEN "task" ELSE "batch"
Exports == 1..MaxExports

\* _staging/<table>/<partition>/<time>...
StagingKeys == Kinds \X Stamps
\* .../full/part-<stamp>.zstd.parquet and .../<first>_<last>.parquet
FinalKeys   == ({"task"} \X Stamps) \cup {<<"batch", None>>}
Content     == Exports \cup {None}

VARIABLES
    versioned,  \* schema_versions: is there a row for the table
    part,       \* partitions: per kind, whether the row exists, and its path
    staged,     \* the object store under staging keys
    object,     \* the object store under final keys
    manifest,   \* _manifest.json: per path the hashes of its entries
    actor,      \* the actors: where each is, and its locals
    exports,    \* exports started so far
    completed,  \* history: the exports that succeeded, with their keys
    collided,   \* history: two exports have used one staging or final key
    raced,      \* history: a manifest was written over one not read, or a call on it failed
    faults, crashes

store == <<versioned, part, staged, object, manifest>>
history == <<completed, collided, raced>>
vars == <<store, actor, exports, history, faults, crashes>>

Steps == {"off", "version", "insert", "check", "upload", "copy", "delete", "read", "write",
          "select", "create", "update", "finish"}
Manifests == [FinalKeys -> Seq(Exports)]
NoManifest == [k \in FinalKeys |-> <<>>]
Idle == [pc |-> "off", no |-> 0, stage |-> None, key |-> None, local |-> NoManifest]

(* The rows, the store and every actor's locals have their types; the manifest *)
(* never has more than an old and a new entry for a path.                      *)
TypeOK ==
    /\ versioned \in BOOLEAN
    /\ part \in [Kinds -> [exists: BOOLEAN, path: FinalKeys \cup {None}]]
    /\ staged \in [StagingKeys -> Content] /\ object \in [FinalKeys -> Content]
    /\ manifest \in Manifests /\ \A k \in FinalKeys : Len(manifest[k]) <= 2
    /\ actor \in [Actors -> [pc: Steps, no: Exports \cup {0}, stage: StagingKeys \cup {None},
                             key: FinalKeys \cup {None}, local: Manifests]]
    /\ exports \in 0..MaxExports /\ completed \subseteq Exports \X FinalKeys
    /\ collided \in BOOLEAN /\ raced \in BOOLEAN
    /\ faults \in 0..MaxFaults /\ crashes \in 0..MaxCrashes

Init ==
    /\ versioned = FALSE
    /\ part = [k \in Kinds |-> [exists |-> FALSE, path |-> None]]
    /\ staged = [k \in StagingKeys |-> None] /\ object = [k \in FinalKeys |-> None]
    /\ manifest = NoManifest
    /\ actor = [a \in Actors |-> Idle]
    /\ exports = 0 /\ completed = {} /\ collided = FALSE /\ raced = FALSE
    /\ faults = 0 /\ crashes = 0

-----------------------------------------------------------------------------
Fault == faults < MaxFaults /\ faults' = faults + 1
At(a, step)   == actor[a].pc = step
GoTo(a, step) == actor' = [actor EXCEPT ![a].pc = step]
\* ExecuteTask or syncTable returns.
Return(a)     == actor' = [actor EXCEPT ![a] = Idle]

Row(a) == part[Kind(a)]

MutMergeAll(m) == m

\* manifest.Merge into a new manifest: the first entry of each path.
Merge(m) == [k \in FinalKeys |-> IF m[k] = <<>> THEN <<>> ELSE <<m[k][1]>>]

MutAddReplaces(m, key, hash) == [NoManifest EXCEPT ![key] = <<hash>>]

\* updateManifest, mergeManifest: merge what was read, add the new file.
WithFile(m, key, hash) == [Merge(m) EXCEPT ![key] = Append(@, hash)]

-----------------------------------------------------------------------------
\* Task, table and schema are read and the read session is opened.
Start(a) ==
    /\ At(a, "off") /\ exports < MaxExports
    /\ exports' = exports + 1
    /\ actor' = [actor EXCEPT ![a] = [Idle EXCEPT !.pc = "version", !.no = exports + 1]]
    /\ UNCHANGED <<store, history, faults, crashes>>

\* GetCurrentSchemaVersion; an error counts as no version.
ReadVersion(a) ==
    /\ At(a, "version")
    /\ \/ GoTo(a, IF versioned THEN "check" ELSE "insert") /\ UNCHANGED faults
       \/ Fault /\ GoTo(a, "insert")
    /\ UNCHANGED <<store, exports, history, crashes>>

\* RecordSchemaVersion of version 1; UNIQUE(table_id, version).
RecordVersion(a) ==
    /\ At(a, "insert")
    /\ \/ /\ ~versioned /\ versioned' = TRUE
          /\ GoTo(a, "check") /\ UNCHANGED faults
       \/ /\ (versioned /\ UNCHANGED faults) \/ Fault
          /\ Return(a) /\ UNCHANGED versioned
    /\ UNCHANGED <<part, staged, object, manifest, exports, history, crashes>>

\* A batch: GetOrCreatePartition, then HEAD of the exported path, as one step: the
\* statements are apart in SelectPartition and CreatePartition below.  A task of
\* the partition "full" is not checked.
Check(a) ==
    /\ At(a, "check")
    /\ \/ a \in Workers /\ GoTo(a, "upload") /\ UNCHANGED <<part, faults>>
       \/ /\ a \in Syncs /\ UNCHANGED faults
          /\ part' = [part EXCEPT ![Kind(a)].exists = TRUE]
          /\ IF Row(a).path # None /\ object[Row(a).path] # None
             THEN Return(a) ELSE GoTo(a, "upload")
       \/ a \in Syncs /\ Fault /\ GoTo(a, "upload") /\ UNCHANGED part
    /\ UNCHANGED <<versioned, staged, object, manifest, exports, history, crashes>>

\* UploadMultipart to a staging key.
Upload(a) ==
    /\ At(a, "upload")
    /\ \E s \in Stamps :
          LET k == <<Kind(a), s>>
          IN  /\ staged' = [staged EXCEPT ![k] = actor[a].no]
              /\ actor' = [actor EXCEPT ![a].pc = "copy", ![a].stage = k]
              /\ collided' = (collided \/ \E b \in Actors \ {a} : actor[b].stage = k)
    /\ UNCHANGED <<versioned, part, object, manifest, exports, completed, raced, faults, crashes>>

MutCopyKeepsGoing(a, key) ==
    /\ object' = [object EXCEPT ![key] = IF staged[actor[a].stage] = None THEN @
                                         ELSE staged[actor[a].stage]]
    /\ actor' = [actor EXCEPT ![a].pc = "delete", ![a].key = key]
    /\ collided' = (collided \/ (key[1] = "task" /\ object[key] # None))

\* CopyObject; the staging object may be gone.
CopyTo(a, key) ==
    IF staged[actor[a].stage] = None
    THEN Return(a) /\ UNCHANGED <<object, collided>>
    ELSE /\ object' = [object EXCEPT ![key] = staged[actor[a].stage]]
         /\ actor' = [actor EXCEPT ![a].pc = "delete", ![a].key = key]
         /\ collided' = (collided \/ (key[1] = "task" /\ object[key] # None))

RenameCopy(a) ==
    /\ At(a, "copy")
    /\ \E key \in FinalKeys : key[1] = Kind(a) /\ CopyTo(a, key)
    /\ UNCHANGED <<versioned, part, staged, manifest, exports, completed, raced, faults, crashes>>

RenameDelete(a) ==
    /\ At(a, "delete")
    /\ staged' = [staged EXCEPT ![actor[a].stage] = None]
    /\ actor' = [actor EXCEPT ![a].pc = "read", ![a].stage = None]
    /\ UNCHANGED <<versioned, part, object, manifest, exports, history, faults, crashes>>

\* The upload, the writer, the copy or the deletion fails: the export fails.
ExportFails(a) ==
    /\ actor[a].pc \in {"upload", "copy", "delete"} /\ Fault
    /\ Return(a)
    /\ UNCHANGED <<store, exports, history, crashes>>

\* HEAD and GET of the manifest; any error and the new one starts empty.
ReadManifest(a) ==
    /\ At(a, "read")
    /\ \/ actor' = [actor EXCEPT ![a].pc = "write", ![a].local = manifest] /\ UNCHANGED <<raced, faults>>
       \/ Fault /\ raced' = TRUE /\ GoTo(a, "write")
    /\ UNCHANGED <<store, exports, completed, collided, crashes>>

\* Serialize and PUT; its failure is a warning.
WriteManifest(a) ==
    /\ At(a, "write")
    /\ \/ /\ manifest' = WithFile(actor[a].local, actor[a].key, actor[a].no)
          /\ raced' = (raced \/ \E b \in Actors \ {a} : At(b, "write"))
          /\ UNCHANGED faults
       \/ Fault /\ raced' = TRUE /\ UNCHANGED manifest
    /\ actor' = [actor EXCEPT ![a].pc = "select", ![a].local = NoManifest]
    /\ UNCHANGED <<versioned, part, staged, object, exports, completed, collided, crashes>>

\* GetOrCreatePartition's SELECT; an error is a warning.
SelectPartition(a) ==
    /\ At(a, "select")
    /\ \/ GoTo(a, IF Row(a).exists THEN "update" ELSE "create") /\ UNCHANGED faults
       \/ Fault /\ GoTo(a, "finish")
    /\ UNCHANGED <<store, exports, history, crashes>>

\* ... and its INSERT; UNIQUE(table_id, partition_id).
CreatePartition(a) ==
    /\ At(a, "create")
    /\ \/ /\ ~Row(a).exists /\ part' = [part EXCEPT ![Kind(a)].exists = TRUE]
          /\ GoTo(a, "update") /\ UNCHANGED faults
       \/ /\ (Row(a).exists /\ UNCHANGED faults) \/ Fault
          /\ GoTo(a, "finish") /\ UNCHANGED part
    /\ UNCHANGED <<versioned, staged, object, manifest, exports, history, crashes>>

\* UpdatePartitionSync; its failure is a warning.
UpdatePartition(a) ==
    /\ At(a, "update")
    /\ \/ part' = [part EXCEPT ![Kind(a)].path = actor[a].key] /\ UNCHANGED faults
       \/ Fault /\ UNCHANGED part
    /\ GoTo(a, "finish")
    /\ UNCHANGED <<versioned, staged, object, manifest, exports, history, crashes>>

\* UpdateTaskState(completed), or the batch is done.
Finish(a) ==
    /\ At(a, "finish")
    /\ \/ completed' = completed \cup {<<actor[a].no, actor[a].key>>} /\ UNCHANGED faults
       \/ a \in Workers /\ Fault /\ UNCHANGED completed
    /\ Return(a)
    /\ UNCHANGED <<store, exports, collided, raced, crashes>>

\* The actor's process is killed, or its task's context cancelled.
Crash(a) ==
    /\ ~At(a, "off") /\ crashes < MaxCrashes /\ crashes' = crashes + 1
    /\ Return(a)
    /\ UNCHANGED <<store, exports, history, faults>>

\* A starting process deletes what it has listed under _staging/.
DeleteStaging ==
    /\ crashes < MaxCrashes /\ crashes' = crashes + 1
    /\ \E keys \in SUBSET {k \in StagingKeys : staged[k] # None} :
          /\ keys # {}
          /\ staged' = [k \in StagingKeys |-> IF k \in keys THEN None ELSE staged[k]]
    /\ UNCHANGED <<versioned, part, object, manifest, actor, exports, history, faults>>

Step(a) ==
    \/ Start(a) \/ ReadVersion(a) \/ RecordVersion(a) \/ Check(a)
    \/ Upload(a) \/ RenameCopy(a) \/ RenameDelete(a) \/ ExportFails(a)
    \/ ReadManifest(a) \/ WriteManifest(a)
    \/ SelectPartition(a) \/ CreatePartition(a) \/ UpdatePartition(a) \/ Finish(a)

Next == (\E a \in Actors : Step(a) \/ Crash(a)) \/ DeleteStaging

Spec == Init /\ [][Next]_vars

-----------------------------------------------------------------------------
(* What the state store and the manifest point at is in the object store,      *)
(* whichever export wrote it, whatever was killed or cleaned up in between.    *)
CatalogueBacked ==
    /\ \A k \in Kinds : part[k].path # None => object[part[k].path] # None
    /\ \A k \in FinalKeys : manifest[k] # <<>> => object[k] # None

(* A completed task's file is there and is its own: as long as the clock gives *)
(* every export keys of its own, no other export, clean-up or rename has       *)
(* replaced or removed it, and its entry in the manifest has its hash.         *)
CompletedIsStored ==
    ~collided =>
        /\ \A c \in completed : c[2][1] = "task" => object[c[2]] = c[1]
        /\ \A s \in Stamps : \A i \in DOMAIN manifest[<<"task", s>>] :
              manifest[<<"task", s>>][i] = object[<<"task", s>>]

(* Every completed export is listed in the manifest, unless two updates of the *)
(* manifest overlapped or a call on it failed: those are the only ways to lose *)
(* an entry.                                                                   *)
CompletedIsListed ==
    ~raced => \A c \in completed : manifest[c[2]] # <<>>
=============================================================================
