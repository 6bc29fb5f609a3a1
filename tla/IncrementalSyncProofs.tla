------------------------ MODULE IncrementalSyncProofs ------------------------
(***************************************************************************)
(* Proofs about IncrementalSync, for any number of partitions, any batch   *)
(* size, any number of runs, modifications, failing calls and kills.       *)
(*                                                                         *)
(* RecordedCovers and ManifestBacked compare what was recorded earlier     *)
(* with an object that a later run of the same key replaces, so they rest  *)
(* on an order of snapshots: a run lists the partitions' times before it   *)
(* opens its read session, and every object already in the store was read  *)
(* before this run's rows were.                                            *)
(***************************************************************************)
EXTENDS IncrementalSync, FiniteSetTheorems, TLAPS

USE SizesAssumption

-----------------------------------------------------------------------------
\* Every partition's content in x is as old as in y, or older.
Upto(x, y) == \A p \in Parts : x[p] <= y[p]

\* The rows have been read; the file has been copied to its final key.
HasRows == {"check", "upload", "copy", "delete", "manifest", "record"}
Written == {"delete", "manifest", "record"}

\* The locals of SyncAll, syncTable and exportBatch at each step.
SyncLocals ==
    /\ sy.pc # "off" => sy.run \in Runs
    /\ sy.pc \in HasRows \cup {"read", "watermark"} =>
          sy.todo # {} /\ \A p \in sy.todo : sy.seen[p] > watermark
    /\ sy.pc \in HasRows => sy.batch # {} /\ sy.batch \subseteq sy.todo
    /\ sy.pc = "record" => sy.left # {} /\ sy.left \subseteq sy.batch

\* No partition is newer than the clock; the listing is not newer than the table.
ListingIsOld ==
    /\ \A p \in Parts : lmt[p] <= now
    /\ Upto(sy.seen, lmt)

\* What has been read is in the order in which it was read.
RowsInOrder ==
    ~broken =>
        /\ \A k \in Keys : object[k] # None => Upto(object[k], lmt)
        /\ sy.pc \in HasRows =>
              /\ Upto(sy.seen, sy.rows) /\ Upto(sy.rows, lmt)
              /\ \A k \in Keys : object[k] # None => Upto(object[k], sy.rows)
        /\ sy.pc = "copy" => staged[sy.run] \in {None, sy.rows}

\* After the copy the final key holds the rows that were read.
FinalIsWritten ==
    sy.pc \in Written => object[FinalKey] # None /\ (~broken => object[FinalKey] = sy.rows)

IInv ==
    /\ TypeOK /\ SyncLocals /\ ListingIsOld /\ RowsInOrder /\ FinalIsWritten
    /\ RecordedCovers /\ ManifestBacked

-----------------------------------------------------------------------------
(* A set of naturals that is not empty has a least element. *)
LEMMA Least ==
    ASSUME NEW S \in SUBSET Nat, S # {}
    PROVE  \E p \in S : \A q \in S : p <= q
<1> DEFINE T == {0..p : p \in S}
           R == StrictSubsetOrdering(Nat)
<1>1. IsWellFoundedOn(R, FiniteSubsetsOf(Nat))
  BY FS_StrictSubsetOrderingWellFounded
<1>2. T \subseteq FiniteSubsetsOf(Nat) /\ T # {}
  <2>1. ASSUME NEW p \in S PROVE 0..p \in FiniteSubsetsOf(Nat)
    <3>1. 0 \in Int /\ p \in Int
      OBVIOUS
    <3>2. IsFiniteSet(0..p)
      BY <3>1, FS_Interval
    <3> QED BY <3>2 DEF FiniteSubsetsOf
  <2> QED BY <2>1
<1>3. PICK x \in T : \A y \in T : ~(<<y, x>> \in R)
  <2> HIDE DEF R, T
  <2> QED BY <1>1, <1>2, WFMin
<1>4. PICK p \in S : x = 0..p
  OBVIOUS
<1>5. ASSUME NEW q \in S, q < p PROVE FALSE
  <2>1. /\ 0..q \in T /\ 0..q \subseteq 0..p /\ 0..q # 0..p
        /\ 0..p \in SUBSET Nat /\ 0..q \in SUBSET Nat
    BY <1>5
  <2> QED BY <1>3, <1>4, <2>1 DEF StrictSubsetOrdering, FiniteSubsetsOf
<1> QED BY <1>5

(* One that has a bound has a greatest element. *)
LEMMA Greatest ==
    ASSUME NEW N \in Nat, NEW S \in SUBSET (0..N), S # {}
    PROVE  \E p \in S : \A q \in S : q <= p
<1> DEFINE T == {N - x : x \in S}
<1>1. T \in SUBSET Nat /\ T # {}
  <2>1. ASSUME NEW x \in S PROVE N - x \in Nat
    <3>1. x \in 0..N
      OBVIOUS
    <3> QED BY <3>1
  <2> QED BY <2>1, Zenon
<1>2. PICK t \in T : \A u \in T : t <= u
  <2> HIDE DEF T
  <2> QED BY <1>1, Least
<1>3. PICK p \in S : t = N - p
  BY <1>2, Zenon
<1>4. ASSUME NEW q \in S PROVE q <= p
  <2>1. N - p <= N - q
    BY <1>2, <1>3
  <2> QED BY <2>1
<1> QED BY <1>4

(* groupIntoBatches makes no empty batch, and names it by its first and last *)
(* partition.                                                                *)
LEMMA BatchFacts ==
    ASSUME NEW S \in SUBSET Parts, S # {}
    PROVE  /\ First(S) \in S /\ Last(S) \in S
           /\ <<First(S), Last(S)>> \in Keys
           /\ FirstBatch(S) # {} /\ FirstBatch(S) \subseteq S
<1>1. First(S) \in S /\ \A q \in S : First(S) <= q
  <2>1. \E p \in S : \A q \in S : p <= q
    BY Least DEF Parts
  <2> QED BY <2>1 DEF First
<1>2. Last(S) \in S /\ \A q \in S : q <= Last(S)
  <2>1. S \in SUBSET (0..NumParts)
    BY DEF Parts
  <2>2. \E p \in S : \A q \in S : q <= p
    BY <2>1, Greatest
  <2> QED BY <2>2 DEF Last
<1>3. <<First(S), Last(S)>> \in Keys
  BY <1>1, <1>2 DEF Keys
<1>4. First(S) \in FirstBatch(S)
  <2>1. First(S) \in Nat
    <3>1. First(S) \in Parts
      BY <1>1
    <3> HIDE DEF First
    <3> QED BY <3>1 DEF Parts
  <2>2. First(S) <= First(S) + BatchSizeDays - 1
    <3> HIDE DEF First
    <3> QED BY <2>1
  <2> QED BY <1>1, <2>2 DEF FirstBatch
<1> QED
  BY <1>1, <1>2, <1>3, <1>4 DEF FirstBatch

-----------------------------------------------------------------------------
(* Upto is an order of snapshots. *)
LEMMA UptoOrder ==
    /\ \A x \in Snapshots : Upto(x, x)
    /\ \A x, y, z \in Snapshots : Upto(x, y) /\ Upto(y, z) => Upto(x, z)
<1>1. \A x \in Snapshots : \A p \in Parts : x[p] \in Nat
  BY DEF Snapshots, Times
<1> QED
  BY <1>1 DEF Upto

\* Every entry of n is the first that its path had in old, or the new file's.
EntriesFrom(n, old, key, rows) ==
    \A k \in Keys : \A i \in DOMAIN n[k] :
        (old[k] # <<>> /\ n[k][i] = old[k][1]) \/ (k = key /\ n[k][i] = rows)

(* mergeManifest keeps at most the first entry of each path and adds one. *)
LEMMA MergeFacts ==
    ASSUME NEW old \in [Keys -> Seq(Snapshots)], NEW key \in Keys, NEW rows \in Snapshots
    PROVE  /\ MergeManifest(old, key, rows) \in [Keys -> Seq(Snapshots)]
           /\ \A k \in Keys : Len(MergeManifest(old, key, rows)[k]) <= 2
           /\ EntriesFrom(MergeManifest(old, key, rows), old, key, rows)
<1> DEFINE first(k) == MergedEntries(old[k])
           n == MergeManifest(old, key, rows)
<1>1. n = [k \in Keys |-> IF k = key THEN Append(first(k), rows) ELSE first(k)]
  BY DEF MergeManifest
<1> HIDE DEF n, Snapshots, Keys
<1>2. ASSUME NEW k \in Keys
      PROVE  /\ first(k) \in Seq(Snapshots) /\ Len(first(k)) <= 1
             /\ \A i \in DOMAIN first(k) : old[k] # <<>> /\ first(k)[i] = old[k][1]
  <2>1. old[k] \in Seq(Snapshots)
    OBVIOUS
  <2>2. CASE old[k] = <<>>
    BY <2>2 DEF MergedEntries
  <2>3. CASE old[k] # <<>>
    <3>1. old[k][1] \in Snapshots /\ first(k) = <<old[k][1]>>
      BY <2>1, <2>3 DEF MergedEntries
    <3> HIDE DEF first
    <3> QED BY <2>3, <3>1
  <2> QED BY <2>2, <2>3
<1> HIDE DEF first
<1>3. ASSUME NEW k \in Keys
      PROVE  /\ n[k] \in Seq(Snapshots) /\ Len(n[k]) <= 2
             /\ \A i \in DOMAIN n[k] :
                   (old[k] # <<>> /\ n[k][i] = old[k][1]) \/ (k = key /\ n[k][i] = rows)
  <2>1. CASE k = key
    <3>1. n[k] = Append(first(k), rows)
      BY <1>1, <2>1
    <3> QED BY <1>2, <2>1, <3>1
  <2>2. CASE k # key
    <3>1. n[k] = first(k)
      BY <1>1, <2>2
    <3> QED BY <1>2, <2>2, <3>1
  <2> QED BY <2>1, <2>2
<1>4. n \in [Keys -> Seq(Snapshots)]
  BY <1>1, <1>3
<1> QED
  BY <1>3, <1>4 DEF n, EntriesFrom

-----------------------------------------------------------------------------
SyncState == [pc: Steps, run: Runs \cup {0}, seen: Snapshots, todo: SUBSET Parts,
              rows: Snapshots, batch: SUBSET Parts, left: SUBSET Parts,
              result: {"completed", "failed"}]

(* GoTo changes where the sync is, and nothing else of it. *)
LEMMA GoToFields ==
    ASSUME TypeOK, NEW step \in Steps, GoTo(step)
    PROVE  /\ sy' \in SyncState
           /\ sy'.pc = step /\ sy'.run = sy.run /\ sy'.seen = sy.seen /\ sy'.todo = sy.todo
           /\ sy'.rows = sy.rows /\ sy'.batch = sy.batch /\ sy'.left = sy.left
<1> HIDE DEF Steps
<1> QED BY DEF TypeOK, SyncState, GoTo

(* Between runs. *)
LEMMA OffTypes ==
    /\ NoSnapshot \in Snapshots
    /\ OffSync \in SyncState /\ OffCleaner \in [pc: {"off", "list", "delete"}, keys: SUBSET Runs]
    /\ OffSync.pc = "off" /\ OffSync.seen = NoSnapshot
<1>1. NoSnapshot \in Snapshots
  BY DEF NoSnapshot, Snapshots, Times
<1> QED BY <1>1 DEF OffSync, OffCleaner, SyncState, Steps

(* The final key of a batch that is not empty is a key of the store. *)
LEMMA FinalKeyType ==
    ASSUME TypeOK, SyncLocals, sy.pc \in HasRows
    PROVE  FinalKey \in Keys
<1>1. sy.batch \in SUBSET Parts /\ sy.batch # {}
  BY DEF TypeOK, SyncLocals
<1> QED BY <1>1, BatchFacts DEF FinalKey

(* Every step keeps the types; that there is a run, a batch and a first       *)
(* partition left when they are used is SyncLocals.                           *)
LEMMA TypeStep ==
    ASSUME TypeOK, SyncLocals, Next
    PROVE  TypeOK'
<1> USE DEF TypeOK, SyncState
<1>1. ASSUME NEW p \in Parts, Modify(p) PROVE TypeOK'
  <2>1. now + 1 \in Times
    BY <1>1 DEF Modify, Times
  <2>2. lmt' \in Snapshots
    <3> HIDE DEF Times
    <3> QED BY <1>1, <2>1 DEF Modify, Snapshots
  <2> QED BY <1>1, <2>1, <2>2 DEF Modify, store
<1>2. CASE Start
  <2>1. PICK r \in Runs :
           /\ runState' = [runState EXCEPT ![r] = "running"]
           /\ sy' = [OffSync EXCEPT !.pc = "discover", !.run = r]
    BY <1>2 DEF Start
  <2>2. sy' \in SyncState
    BY <2>1, OffTypes DEF Steps
  <2>3. cleaner' \in [pc: {"off", "list", "delete"}, keys: SUBSET Runs]
    BY <1>2, OffTypes DEF Start
  <2> QED BY <1>2, <2>1, <2>2, <2>3 DEF Start, store
<1>3. CASE Discover \/ DiscoverFails
  <2>1. sy' \in SyncState
    <3>1. CASE Discover
      BY <3>1 DEF Discover, Steps
    <3>2. CASE DiscoverFails
      BY <3>2 DEF DiscoverFails, Steps
    <3> QED BY <1>3, <3>1, <3>2
  <2> QED BY <1>3, <2>1 DEF Discover, DiscoverFails, Fails, KeepsSource, KeepsTables, KeepsObjects
<1>4. CASE FilterModified
  <2>1. Modified(sy.seen) \in SUBSET Parts
    BY DEF Modified
  <2>2. sy' \in SyncState
    <3> HIDE DEF Modified
    <3> QED BY <1>4, <2>1 DEF FilterModified, Steps
  <2> QED BY <1>4, <2>2 DEF FilterModified, KeepsSource, KeepsTables, KeepsObjects
<1>5. CASE ReadTable
  <2>1. FirstBatch(sy.todo) \in SUBSET Parts
    BY DEF FirstBatch
  <2>2. sy' \in SyncState
    <3> HIDE DEF FirstBatch
    <3> QED BY <1>5, <2>1 DEF ReadTable, Steps
  <2> QED BY <1>5, <2>2 DEF ReadTable, KeepsSource, KeepsTables, KeepsObjects
<1>6. CASE \/ SyncTableFails \/ CheckExported \/ CheckFails \/ ExportFails \/ WatermarkFails
  <2>1. \E step \in Steps : GoTo(step)
    BY <1>6, Zenon DEF SyncTableFails, CheckExported, CheckFails, ExportFails, WatermarkFails, Steps
  <2>2. sy' \in SyncState
    BY <2>1, GoToFields
  <2>3. (UNCHANGED failures \/ Fails) /\ KeepsSource /\ KeepsTables /\ KeepsObjects
    BY <1>6, Zenon DEF SyncTableFails, CheckExported, CheckFails, ExportFails, WatermarkFails
  <2> QED BY <2>2, <2>3 DEF Fails, KeepsSource, KeepsTables, KeepsObjects
<1>7. CASE Upload
  <2>1. sy' \in SyncState
    BY <1>7, GoToFields DEF Upload, Steps
  <2>2. staged' \in [Runs -> Snapshots \cup {None}]
    BY <1>7 DEF Upload
  <2> QED BY <1>7, <2>1, <2>2 DEF Upload, KeepsSource, KeepsTables
<1>8. CASE UploadTruncated
  <2>1. PICK S \in SUBSET Parts :
           LET rows == [p \in Parts |-> IF p \in S THEN sy.rows[p] ELSE 0]
           IN  /\ staged' = [staged EXCEPT ![sy.run] = rows]
               /\ sy' = [sy EXCEPT !.pc = "copy", !.rows = rows]
    BY <1>8 DEF UploadTruncated
  <2> DEFINE rows == [p \in Parts |-> IF p \in S THEN sy.rows[p] ELSE 0]
  <2>2. rows \in Snapshots
    BY DEF Snapshots, Times
  <2>3. staged' = [staged EXCEPT ![sy.run] = rows] /\ sy' = [sy EXCEPT !.pc = "copy", !.rows = rows]
    BY <2>1
  <2> HIDE DEF rows
  <2>4. sy' \in SyncState /\ staged' \in [Runs -> Snapshots \cup {None}]
    BY <2>2, <2>3 DEF Steps
  <2>5. broken' \in BOOLEAN
    BY <1>8, Zenon DEF UploadTruncated
  <2>6. Fails /\ KeepsSource /\ UNCHANGED <<watermark, path, runState, recorded, object, manifest>>
    BY <1>8 DEF UploadTruncated
  <2> QED BY <2>4, <2>5, <2>6 DEF Fails, KeepsSource
<1>9. CASE RenameCopy
  <2>1. \E step \in Steps : GoTo(step)
    BY <1>9, Zenon DEF RenameCopy, Steps
  <2>2. sy' \in SyncState
    BY <2>1, GoToFields
  <2>3. object' \in [Keys -> Snapshots \cup {None}]
    <3>1. sy.run \in Runs
      BY <1>9 DEF RenameCopy, SyncLocals
    <3> QED BY <1>9, <3>1 DEF RenameCopy
  <2> QED BY <1>9, <2>2, <2>3 DEF RenameCopy, KeepsSource, KeepsTables
<1>10. CASE RenameDelete
  <2>1. sy' \in SyncState
    BY <1>10, GoToFields DEF RenameDelete, Steps
  <2>2. staged' \in [Runs -> Snapshots \cup {None}]
    BY <1>10 DEF RenameDelete
  <2> QED BY <1>10, <2>1, <2>2 DEF RenameDelete, KeepsSource, KeepsTables
<1>11. CASE UpdateManifest \/ ManifestUnread \/ ManifestFails
  <2>1. sy' \in SyncState
    BY <1>11 DEF UpdateManifest, ManifestUnread, ManifestFails, Steps
  <2>2. FinalKey \in Keys /\ sy.rows \in Snapshots
    BY <1>11, FinalKeyType DEF UpdateManifest, ManifestUnread, ManifestFails, HasRows
  <2>3. manifest' \in [Keys -> Seq(Snapshots)] /\ \A k \in Keys : Len(manifest'[k]) <= 2
    <3>1. CASE UpdateManifest
      BY <2>2, <3>1, MergeFacts DEF UpdateManifest
    <3>2. CASE ManifestUnread
      <4>1. [k \in Keys |-> <<>>] \in [Keys -> Seq(Snapshots)]
        OBVIOUS
      <4> QED BY <2>2, <3>2, <4>1, MergeFacts DEF ManifestUnread
    <3>3. CASE ManifestFails
      BY <3>3 DEF ManifestFails, KeepsObjects
    <3> QED BY <1>11, <3>1, <3>2, <3>3
  <2>4. (UNCHANGED failures \/ Fails) /\ KeepsSource /\ KeepsTables /\ UNCHANGED <<object, staged>>
    BY <1>11 DEF UpdateManifest, ManifestUnread, ManifestFails, KeepsObjects
  <2> QED BY <2>1, <2>3, <2>4 DEF Fails, KeepsSource, KeepsTables
<1>12. CASE RecordPartition \/ RecordFails
  <2> DEFINE p == First(sy.left)
  <2>1. p \in Parts /\ FinalKey \in Keys
    <3>1. sy.left \in SUBSET Parts /\ sy.left # {}
      BY <1>12 DEF RecordPartition, RecordFails, SyncLocals
    <3>2. p \in sy.left
      BY <3>1, BatchFacts
    <3> QED BY <1>12, <3>1, <3>2, FinalKeyType DEF RecordPartition, RecordFails, HasRows
  <2>2. /\ sy' = [sy EXCEPT !.left = sy.left \ {p}, !.pc = NextStep(sy.left \ {p})]
        /\ \/ RecordFails
           \/ path' = [path EXCEPT ![p] = FinalKey] /\ recorded' = [recorded EXCEPT ![p] = sy.seen[p]]
    BY <1>12 DEF RecordPartition, RecordFails
  <2> HIDE DEF p
  <2>3. NextStep(sy.left \ {p}) \in Steps
    BY DEF NextStep, Steps
  <2>4. sy' \in SyncState
    BY <2>2, <2>3
  <2>5. path' \in [Parts -> Keys \cup {None}] /\ recorded' \in Snapshots
    <3>1. CASE RecordFails
      BY <3>1 DEF RecordFails, KeepsTables
    <3>2. CASE path' = [path EXCEPT ![p] = FinalKey] /\ recorded' = [recorded EXCEPT ![p] = sy.seen[p]]
      <4>1. path' \in [Parts -> Keys \cup {None}]
        BY <2>1, <3>2
      <4>2. recorded' \in Snapshots
        BY <2>1, <3>2 DEF Snapshots
      <4> QED BY <4>1, <4>2
    <3> QED BY <2>2, <3>1, <3>2
  <2>6. (UNCHANGED failures \/ Fails) /\ KeepsSource /\ KeepsObjects /\ UNCHANGED <<watermark, runState, broken>>
    BY <1>12 DEF RecordPartition, RecordFails, KeepsTables
  <2> QED BY <2>4, <2>5, <2>6 DEF Fails, KeepsSource, KeepsObjects
<1>13. CASE UpdateTableWatermark
  <2>1. sy.todo \in SUBSET Parts /\ sy.todo # {}
    BY <1>13 DEF UpdateTableWatermark, SyncLocals
  <2>2. sy.seen[Last(sy.todo)] \in Times
    BY <2>1, BatchFacts DEF Snapshots
  <2>3. sy' \in SyncState
    BY <1>13, GoToFields DEF UpdateTableWatermark, Steps
  <2> QED BY <1>13, <2>2, <2>3 DEF UpdateTableWatermark, KeepsSource, KeepsObjects
<1>14. CASE Complete
  <2>1. runState' \in [Runs -> {"absent", "running", "completed", "failed"}]
    BY <1>14 DEF Complete
  <2>2. UNCHANGED failures \/ Fails
    BY <1>14 DEF Complete
  <2> QED BY <1>14, <2>1, <2>2, OffTypes DEF Complete, Fails, store
<1>15. CASE Crash
  BY <1>15, OffTypes DEF Crash, store
<1>16. CASE CleanerList
  <2>1. cleaner' \in [pc: {"off", "list", "delete"}, keys: SUBSET Runs]
    BY <1>16 DEF CleanerList
  <2> QED BY <1>16, <2>1 DEF CleanerList, store
<1>17. CASE CleanerDelete
  <2>1. staged' \in [Runs -> Snapshots \cup {None}]
    BY <1>17 DEF CleanerDelete
  <2> QED BY <1>17, <2>1, OffTypes DEF CleanerDelete
<1>18. CASE CleanerFails
  BY <1>18, OffTypes DEF CleanerFails, Fails, store
<1> HIDE DEF TypeOK
<1> QED
  BY <1>1, <1>2, <1>3, <1>4, <1>5, <1>6, <1>7, <1>8, <1>9, <1>10, <1>11, <1>12, <1>13, <1>14,
     <1>15, <1>16, <1>17, <1>18 DEF Next, Sync

-----------------------------------------------------------------------------
(* A run has its number, the partitions it found modified since the watermark, *)
(* the batch and what is left of it, from the step that sets them to the last  *)
(* that uses them.                                                             *)
LEMMA LocalsStep ==
    ASSUME TypeOK, SyncLocals, Next
    PROVE  SyncLocals'
<1> USE DEF HasRows
<1>0. sy \in SyncState
  BY DEF TypeOK, SyncState
<1>1. CASE (\E p \in Parts : Modify(p)) \/ CleanerList \/ CleanerDelete \/ CleanerFails
  BY <1>1 DEF Modify, CleanerList, CleanerDelete, CleanerFails, SyncLocals
<1>2. CASE Start
  <2>1. sy'.pc = "discover" /\ sy'.run \in Runs
    BY <1>2, OffTypes DEF Start, SyncState
  <2> QED BY <2>1 DEF SyncLocals
<1>3. CASE Discover \/ DiscoverFails
  <2>1. sy.pc = "discover" /\ sy'.pc \in {"table", "complete"} /\ sy'.run = sy.run
    BY <1>0, <1>3 DEF Discover, DiscoverFails, SyncState
  <2> QED BY <2>1 DEF SyncLocals
<1>4. CASE FilterModified
  <2>1. Modified(sy.seen) \in SUBSET Parts /\ \A p \in Modified(sy.seen) : sy.seen[p] > watermark
    BY DEF Modified
  <2> DEFINE todo == Modified(sy.seen)
  <2>2. /\ sy.pc = "table" /\ sy'.run = sy.run /\ sy'.seen = sy.seen /\ sy'.todo = todo
        /\ sy'.pc = IF todo = {} THEN "complete" ELSE "read"
    <3> HIDE DEF Modified
    <3> QED BY <1>0, <1>4 DEF FilterModified, SyncState
  <2>3. UNCHANGED watermark
    BY <1>4 DEF FilterModified, KeepsTables
  <2> HIDE DEF todo
  <2> QED BY <2>1, <2>2, <2>3 DEF SyncLocals, todo
<1>5. CASE ReadTable
  <2>1. sy.todo \in SUBSET Parts /\ sy.todo # {} /\ sy.pc = "read"
    BY <1>0, <1>5 DEF ReadTable, SyncState, SyncLocals
  <2>2. FirstBatch(sy.todo) # {} /\ FirstBatch(sy.todo) \subseteq sy.todo
    BY <2>1, BatchFacts
  <2>3. /\ sy'.pc = "check" /\ sy'.run = sy.run /\ sy'.seen = sy.seen /\ sy'.todo = sy.todo
        /\ sy'.batch = FirstBatch(sy.todo) /\ UNCHANGED watermark
    <3> HIDE DEF FirstBatch
    <3> QED BY <1>0, <1>5 DEF ReadTable, SyncState, KeepsTables
  <2> QED BY <2>1, <2>2, <2>3 DEF SyncLocals
<1>6. CASE \/ SyncTableFails \/ CheckExported \/ CheckFails \/ Upload \/ RenameCopy \/ RenameDelete
           \/ ExportFails \/ WatermarkFails
  <2>1. \E step \in {"upload", "copy", "delete", "manifest", "watermark", "complete"} :
           /\ GoTo(step) /\ sy.pc # "off"
           /\ step # "complete" => sy.pc \in HasRows
           /\ step \in Steps
    BY <1>6, Zenon DEF SyncTableFails, CheckExported, CheckFails, Upload, RenameCopy, RenameDelete,
                       ExportFails, WatermarkFails, Steps
  <2>2. UNCHANGED watermark
    BY <1>6, Zenon DEF SyncTableFails, CheckExported, CheckFails, Upload, RenameCopy, RenameDelete,
                       ExportFails, WatermarkFails, KeepsTables
  <2> QED BY <2>1, <2>2, GoToFields DEF SyncLocals
<1>7. CASE UploadTruncated
  <2>1. /\ sy.pc = "upload" /\ sy'.pc = "copy" /\ sy'.run = sy.run /\ sy'.seen = sy.seen
        /\ sy'.todo = sy.todo /\ sy'.batch = sy.batch /\ UNCHANGED watermark
    BY <1>0, <1>7 DEF UploadTruncated, SyncState
  <2> QED BY <2>1 DEF SyncLocals
<1>8. CASE UpdateManifest \/ ManifestUnread \/ ManifestFails
  <2>1. /\ sy.pc = "manifest" /\ sy'.pc = "record" /\ sy'.run = sy.run /\ sy'.seen = sy.seen
        /\ sy'.todo = sy.todo /\ sy'.batch = sy.batch /\ sy'.left = sy.batch /\ UNCHANGED watermark
    BY <1>0, <1>8 DEF UpdateManifest, ManifestUnread, ManifestFails, KeepsTables, SyncState
  <2> QED BY <2>1 DEF SyncLocals
<1>9. CASE RecordPartition \/ RecordFails
  <2> DEFINE left == sy.left \ {First(sy.left)}
  <2>1. sy.pc = "record" /\ sy' = [sy EXCEPT !.left = left, !.pc = NextStep(left)] /\ UNCHANGED watermark
    BY <1>9 DEF RecordPartition, RecordFails, KeepsTables
  <2>2. left \subseteq sy.left
    OBVIOUS
  <2> HIDE DEF left
  <2>3. /\ sy'.pc = NextStep(left) /\ sy'.run = sy.run /\ sy'.seen = sy.seen
        /\ sy'.todo = sy.todo /\ sy'.batch = sy.batch /\ sy'.left = left
    BY <1>0, <2>1 DEF SyncState
  <2> QED BY <2>1, <2>2, <2>3 DEF SyncLocals, NextStep
<1>10. CASE UpdateTableWatermark
  <2>1. sy.pc = "watermark" /\ sy'.pc = "complete" /\ sy'.run = sy.run
    BY <1>10, GoToFields DEF UpdateTableWatermark, Steps
  <2> QED BY <2>1 DEF SyncLocals
<1>11. CASE Complete \/ Crash
  <2>1. sy'.pc = "off"
    BY <1>11, OffTypes DEF Complete, Crash
  <2> QED BY <2>1 DEF SyncLocals
<1> QED
  BY <1>1, <1>2, <1>3, <1>4, <1>5, <1>6, <1>7, <1>8, <1>9, <1>10, <1>11 DEF Next, Sync

-----------------------------------------------------------------------------
\* A step that neither reads rows nor writes an object, a manifest or a path:
\* at most a staging object goes, and the sync carries what it has or drops it.
Quiet ==
    /\ UNCHANGED <<lmt, now, path, object, manifest, recorded, broken>>
    /\ \A r \in Runs : staged'[r] \in {None, staged[r]}
    /\ sy'.seen \in {sy.seen, lmt, NoSnapshot}
    /\ sy'.pc \in HasRows =>
          /\ sy.pc \in HasRows
          /\ sy'.run = sy.run /\ sy'.seen = sy.seen /\ sy'.rows = sy.rows /\ sy'.batch = sy.batch
    /\ sy'.pc \in Written => sy.pc \in Written
    /\ sy'.pc = "copy" => sy.pc = "copy"

(* Such a step keeps the order of what was read and what rests on it. *)
LEMMA QuietKeeps ==
    ASSUME IInv, Quiet
    PROVE  ListingIsOld' /\ RowsInOrder' /\ FinalIsWritten' /\ RecordedCovers' /\ ManifestBacked'
<1>1. UNCHANGED <<lmt, now, path, object, manifest, recorded, broken>>
  BY DEF Quiet
<1>2. ListingIsOld'
  <2>1. Upto(lmt, lmt) /\ Upto(NoSnapshot, lmt)
    <3>1. lmt \in Snapshots
      BY DEF IInv, TypeOK
    <3> QED BY <3>1 DEF Upto, NoSnapshot, Snapshots, Times
  <2>2. Upto(sy'.seen, lmt')
    <3>1. Upto(sy.seen, lmt)
      BY DEF IInv, ListingIsOld
    <3> QED BY <1>1, <2>1, <3>1 DEF Quiet
  <2> QED BY <1>1, <2>2 DEF IInv, ListingIsOld
<1>3. RowsInOrder'
  <2> SUFFICES ASSUME ~broken' PROVE RowsInOrder'
    BY DEF RowsInOrder
  <2>1. \A k \in Keys : object'[k] # None => Upto(object'[k], lmt')
    BY <1>1 DEF IInv, RowsInOrder
  <2>2. ASSUME sy'.pc \in HasRows
        PROVE  /\ Upto(sy'.seen, sy'.rows) /\ Upto(sy'.rows, lmt')
               /\ \A k \in Keys : object'[k] # None => Upto(object'[k], sy'.rows)
    BY <1>1, <2>2 DEF IInv, RowsInOrder, Quiet
  <2>3. ASSUME sy'.pc = "copy" PROVE staged'[sy'.run] \in {None, sy'.rows}
    <3>1. /\ sy.pc = "copy" /\ sy'.run = sy.run /\ sy'.rows = sy.rows
          /\ \A r \in Runs : staged'[r] \in {None, staged[r]}
      BY <2>3 DEF Quiet, HasRows
    <3>2. sy.run \in Runs /\ staged[sy.run] \in {None, sy.rows}
      BY <1>1, <3>1 DEF IInv, SyncLocals, RowsInOrder
    <3> QED BY <3>1, <3>2
  <2> QED BY <2>1, <2>2, <2>3 DEF RowsInOrder
<1>4. FinalIsWritten'
  <2> SUFFICES ASSUME sy'.pc \in Written
               PROVE  object'[FinalKey'] # None /\ (~broken' => object'[FinalKey'] = sy'.rows)
    BY DEF FinalIsWritten
  <2>1. sy.pc \in Written /\ sy'.rows = sy.rows /\ sy'.batch = sy.batch
    BY DEF Quiet, HasRows, Written
  <2>2. FinalKey' = FinalKey
    BY <2>1 DEF FinalKey
  <2> QED BY <1>1, <2>1, <2>2 DEF IInv, FinalIsWritten
<1>5. RecordedCovers' /\ ManifestBacked'
  BY <1>1 DEF IInv, RecordedCovers, ManifestBacked
<1> QED
  BY <1>2, <1>3, <1>4, <1>5

LEMMA QuietActions ==
    ASSUME TypeOK,
           \/ Start \/ Discover \/ DiscoverFails \/ FilterModified \/ SyncTableFails
           \/ CheckExported \/ CheckFails \/ RenameDelete \/ ExportFails \/ ManifestFails \/ RecordFails
           \/ UpdateTableWatermark \/ WatermarkFails \/ Complete \/ Crash
           \/ CleanerList \/ CleanerDelete \/ CleanerFails
           \/ RenameCopy /\ staged[sy.run] = None
    PROVE  Quiet
<1> USE DEF HasRows, Written
<1>0. sy \in SyncState
  BY DEF TypeOK, SyncState
<1>1. CASE Start
  <2>1. sy'.pc = "discover" /\ sy'.seen = NoSnapshot
    BY <1>1, OffTypes DEF Start, SyncState
  <2>2. UNCHANGED <<lmt, now, path, object, manifest, recorded, broken, staged>>
    BY <1>1 DEF Start, store
  <2> QED BY <2>1, <2>2 DEF Quiet
<1>2. CASE Discover \/ DiscoverFails
  <2>1. sy'.pc \in {"table", "complete"} /\ sy'.seen \in {sy.seen, lmt}
    BY <1>0, <1>2 DEF Discover, DiscoverFails, SyncState
  <2>2. UNCHANGED <<lmt, now, path, object, manifest, recorded, broken, staged>>
    BY <1>2 DEF Discover, DiscoverFails, KeepsSource, KeepsTables, KeepsObjects
  <2> QED BY <2>1, <2>2 DEF Quiet
<1>3. CASE FilterModified
  <2>1. sy'.pc \in {"complete", "read"} /\ sy'.seen = sy.seen
    <3> HIDE DEF Modified
    <3> QED BY <1>0, <1>3 DEF FilterModified, SyncState
  <2>2. UNCHANGED <<lmt, now, path, object, manifest, recorded, broken, staged>>
    BY <1>3 DEF FilterModified, KeepsSource, KeepsTables, KeepsObjects
  <2> QED BY <2>1, <2>2 DEF Quiet
<1>4. CASE \/ SyncTableFails \/ CheckExported \/ CheckFails \/ ExportFails \/ WatermarkFails
           \/ RenameCopy /\ staged[sy.run] = None
  <2>1. \E step \in {"upload", "watermark", "complete"} :
           GoTo(step) /\ (step = "upload" => sy.pc = "check") /\ step \in Steps
    BY <1>4, Zenon DEF SyncTableFails, CheckExported, CheckFails, ExportFails, WatermarkFails, RenameCopy, Steps
  <2>2. UNCHANGED <<lmt, now, path, object, manifest, recorded, broken, staged>>
    BY <1>4, Zenon DEF SyncTableFails, CheckExported, CheckFails, ExportFails, WatermarkFails, RenameCopy,
                       KeepsSource, KeepsTables, KeepsObjects
  <2> QED BY <2>1, <2>2, GoToFields DEF Quiet
<1>5. CASE UpdateTableWatermark
  <2>1. sy'.pc = "complete" /\ sy'.seen = sy.seen
    BY <1>5, GoToFields DEF UpdateTableWatermark, Steps
  <2>2. UNCHANGED <<lmt, now, path, object, manifest, recorded, broken, staged>>
    BY <1>5 DEF UpdateTableWatermark, KeepsSource, KeepsObjects
  <2> QED BY <2>1, <2>2 DEF Quiet
<1>6. CASE RenameDelete
  <2>1. /\ sy.pc = "delete" /\ sy'.pc = "manifest" /\ sy'.run = sy.run /\ sy'.seen = sy.seen
        /\ sy'.rows = sy.rows /\ sy'.batch = sy.batch
    BY <1>6, GoToFields DEF RenameDelete, Steps
  <2>2. UNCHANGED <<lmt, now, path, object, manifest, recorded, broken>>
    BY <1>6 DEF RenameDelete, KeepsSource, KeepsTables
  <2>3. \A r \in Runs : staged'[r] \in {None, staged[r]}
    BY <1>6 DEF RenameDelete, TypeOK
  <2> QED BY <2>1, <2>2, <2>3 DEF Quiet
<1>7. CASE ManifestFails
  <2>1. /\ sy.pc = "manifest" /\ sy'.pc = "record" /\ sy'.run = sy.run /\ sy'.seen = sy.seen
        /\ sy'.rows = sy.rows /\ sy'.batch = sy.batch
    BY <1>0, <1>7 DEF ManifestFails, SyncState
  <2>2. UNCHANGED <<lmt, now, path, object, manifest, recorded, broken, staged>>
    BY <1>7 DEF ManifestFails, KeepsSource, KeepsTables, KeepsObjects
  <2> QED BY <2>1, <2>2 DEF Quiet
<1>8. CASE RecordFails
  <2> DEFINE left == sy.left \ {First(sy.left)}
  <2>1. sy.pc = "record" /\ sy' = [sy EXCEPT !.left = left, !.pc = NextStep(left)]
    BY <1>8 DEF RecordFails
  <2> HIDE DEF left
  <2>2. /\ sy'.pc \in {"record", "watermark"} /\ sy'.run = sy.run /\ sy'.seen = sy.seen
        /\ sy'.rows = sy.rows /\ sy'.batch = sy.batch
    BY <1>0, <2>1 DEF SyncState, NextStep
  <2>3. UNCHANGED <<lmt, now, path, object, manifest, recorded, broken, staged>>
    BY <1>8 DEF RecordFails, KeepsSource, KeepsTables, KeepsObjects
  <2> QED BY <2>1, <2>2, <2>3 DEF Quiet
<1>9. CASE Complete \/ Crash
  <2>1. sy'.pc = "off" /\ sy'.seen = NoSnapshot
    BY <1>9, OffTypes DEF Complete, Crash
  <2>2. UNCHANGED <<lmt, now, path, object, manifest, recorded, broken, staged>>
    BY <1>9 DEF Complete, Crash, store
  <2> QED BY <2>1, <2>2 DEF Quiet
<1>10. CASE CleanerList \/ CleanerDelete \/ CleanerFails
  <2>1. UNCHANGED <<lmt, now, path, object, manifest, recorded, broken, sy>>
    BY <1>10 DEF CleanerList, CleanerDelete, CleanerFails, store
  <2>2. \A r \in Runs : staged'[r] \in {None, staged[r]}
    BY <1>10 DEF CleanerList, CleanerDelete, CleanerFails, store
  <2> QED BY <2>1, <2>2 DEF Quiet
<1> QED
  BY <1>1, <1>2, <1>3, <1>4, <1>5, <1>6, <1>7, <1>8, <1>9, <1>10

-----------------------------------------------------------------------------
(***************************************************************************)
(* The other steps, one by one.                                            *)
(***************************************************************************)

(* BigQuery only ever makes the table newer. *)
LEMMA ModifyKeeps ==
    ASSUME IInv, TypeOK', NEW d \in Parts, Modify(d)
    PROVE  ListingIsOld' /\ RowsInOrder' /\ FinalIsWritten' /\ RecordedCovers' /\ ManifestBacked'
<1>1. UNCHANGED <<path, object, staged, manifest, recorded, broken, sy>>
  BY DEF Modify, store
<1>2. lmt \in Snapshots /\ lmt' \in Snapshots /\ sy.seen \in Snapshots /\ sy.rows \in Snapshots
  BY DEF IInv, TypeOK
<1>3. \A p \in Parts : lmt[p] <= lmt'[p] /\ lmt'[p] <= now'
  <2>1. now \in Nat /\ \A p \in Parts : lmt[p] \in Nat /\ lmt[p] <= now
    BY <1>2 DEF IInv, TypeOK, ListingIsOld, Snapshots, Times
  <2>2. now' = now + 1 /\ \A p \in Parts : lmt'[p] = IF p = d THEN now + 1 ELSE lmt[p]
    BY <1>2 DEF Modify, Snapshots
  <2> QED BY <2>1, <2>2
<1>4. \A x \in Snapshots : Upto(x, lmt) => Upto(x, lmt')
  <2>1. Upto(lmt, lmt')
    BY <1>3 DEF Upto
  <2> QED BY <1>2, <2>1, UptoOrder
<1>5. ListingIsOld'
  BY <1>1, <1>2, <1>3, <1>4 DEF IInv, ListingIsOld
<1>6. RowsInOrder'
  <2> SUFFICES ASSUME ~broken' PROVE RowsInOrder'
    BY DEF RowsInOrder
  <2>1. \A k \in Keys : object[k] # None => object[k] \in Snapshots
    BY DEF IInv, TypeOK
  <2>2. \A k \in Keys : object'[k] # None => Upto(object'[k], lmt')
    BY <1>1, <1>4, <2>1 DEF IInv, RowsInOrder
  <2>3. sy'.pc \in HasRows => Upto(sy'.rows, lmt')
    BY <1>1, <1>2, <1>4 DEF IInv, RowsInOrder
  <2> QED BY <1>1, <2>2, <2>3 DEF IInv, RowsInOrder
<1>7. FinalIsWritten'
  BY <1>1 DEF IInv, FinalIsWritten, FinalKey
<1>8. RecordedCovers' /\ ManifestBacked'
  BY <1>1 DEF IInv, RecordedCovers, ManifestBacked
<1> QED
  BY <1>5, <1>6, <1>7, <1>8

(* The read session is opened after the partitions were listed and after every *)
(* object in the store was read.                                               *)
LEMMA ReadKeeps ==
    ASSUME IInv, ReadTable
    PROVE  ListingIsOld' /\ RowsInOrder' /\ FinalIsWritten' /\ RecordedCovers' /\ ManifestBacked'
<1>1. UNCHANGED <<lmt, now, path, object, staged, manifest, recorded, broken>>
  BY DEF ReadTable, KeepsSource, KeepsTables, KeepsObjects
<1>2. sy'.pc = "check" /\ sy'.seen = sy.seen /\ sy'.rows = lmt
  <2> HIDE DEF FirstBatch
  <2> QED BY DEF ReadTable, IInv, TypeOK
<1>3. ListingIsOld'
  BY <1>1, <1>2 DEF IInv, ListingIsOld
<1>4. Upto(lmt, lmt)
  BY UptoOrder DEF IInv, TypeOK
<1>5. RowsInOrder'
  BY <1>1, <1>2, <1>4 DEF IInv, RowsInOrder, ListingIsOld
<1>6. FinalIsWritten'
  BY <1>2 DEF FinalIsWritten, Written
<1>7. RecordedCovers' /\ ManifestBacked'
  BY <1>1 DEF IInv, RecordedCovers, ManifestBacked
<1> QED
  BY <1>3, <1>5, <1>6, <1>7

(* The staging object holds the rows, or the stream has broken off. *)
LEMMA UploadKeeps ==
    ASSUME IInv, Upload \/ UploadTruncated
    PROVE  ListingIsOld' /\ RowsInOrder' /\ FinalIsWritten' /\ RecordedCovers' /\ ManifestBacked'
<1>0. TypeOK /\ sy \in SyncState /\ "copy" \in Steps
  BY DEF IInv, TypeOK, SyncState, Steps
<1>1. UNCHANGED <<lmt, now, path, object, manifest, recorded>> /\ sy.pc = "upload"
  BY DEF Upload, UploadTruncated, KeepsSource, KeepsTables
<1>2. /\ sy'.pc = "copy" /\ sy'.run = sy.run /\ sy'.seen = sy.seen
      /\ Upload => sy'.rows = sy.rows
  <2>1. CASE Upload
    BY <1>0, <2>1, GoToFields DEF Upload
  <2>2. CASE UploadTruncated /\ ~Upload
    BY <1>0, <2>2 DEF UploadTruncated, SyncState
  <2> QED BY <2>1, <2>2
<1>3. ~broken' => ~broken /\ Upload
  BY Zenon DEF Upload, UploadTruncated, KeepsTables
<1>4. ListingIsOld'
  BY <1>1, <1>2 DEF IInv, ListingIsOld
<1>5. RowsInOrder'
  <2> SUFFICES ASSUME ~broken' PROVE RowsInOrder'
    BY DEF RowsInOrder
  <2>1. staged'[sy.run] = sy.rows
    <3>1. sy.run \in Runs
      BY <1>1 DEF IInv, SyncLocals
    <3> QED BY <1>3, <3>1 DEF Upload, IInv, TypeOK
  <2>2. /\ \A k \in Keys : object[k] # None => Upto(object[k], lmt) /\ Upto(object[k], sy.rows)
        /\ Upto(sy.seen, sy.rows) /\ Upto(sy.rows, lmt)
    BY <1>1, <1>3 DEF IInv, RowsInOrder, HasRows
  <2> QED BY <1>1, <1>2, <1>3, <2>1, <2>2 DEF RowsInOrder
<1>6. FinalIsWritten'
  BY <1>2 DEF FinalIsWritten, Written
<1>7. RecordedCovers' /\ ManifestBacked'
  BY <1>1, <1>3 DEF IInv, RecordedCovers, ManifestBacked
<1> QED
  BY <1>4, <1>5, <1>6, <1>7

(* CopyObject replaces an object only by rows that were read later. *)
LEMMA CopyKeeps ==
    ASSUME IInv, RenameCopy, staged[sy.run] # None
    PROVE  ListingIsOld' /\ RowsInOrder' /\ FinalIsWritten' /\ RecordedCovers' /\ ManifestBacked'
<1>0. TypeOK /\ sy.pc = "copy" /\ sy.run \in Runs
  BY DEF IInv, RenameCopy, SyncLocals
<1>1. UNCHANGED <<lmt, now, path, staged, manifest, recorded, broken>>
  BY DEF RenameCopy, KeepsSource, KeepsTables
<1>2. /\ sy'.pc = "delete" /\ sy'.run = sy.run /\ sy'.seen = sy.seen
      /\ sy'.rows = sy.rows /\ sy'.batch = sy.batch
  BY <1>0, GoToFields DEF RenameCopy, Steps
<1> DEFINE key == FinalKey
<1>3. key \in Keys
  BY <1>0, FinalKeyType DEF IInv, HasRows
<1>4. object' = [object EXCEPT ![key] = staged[sy.run]]
  BY DEF RenameCopy
<1>5. FinalKey' = key
  BY <1>2 DEF FinalKey
<1> HIDE DEF key
<1>6. object'[key] = staged[sy.run] /\ \A k \in Keys : k # key => object'[k] = object[k]
  BY <1>0, <1>3, <1>4 DEF TypeOK
<1>7. ~broken => object'[key] = sy.rows
  BY <1>0, <1>6 DEF IInv, RowsInOrder
<1>8. sy.rows \in Snapshots /\ lmt \in Snapshots /\ \A k \in Keys : object[k] # None => object[k] \in Snapshots
  BY <1>0 DEF TypeOK
<1>9. ~broken => \A k \in Keys : object[k] # None => Upto(object[k], object'[k])
  <2> SUFFICES ASSUME ~broken, NEW k \in Keys, object[k] # None PROVE Upto(object[k], object'[k])
    OBVIOUS
  <2>1. CASE k = key
    <3>1. Upto(object[k], sy.rows)
      BY <1>0 DEF IInv, RowsInOrder, HasRows
    <3> QED BY <1>7, <2>1, <3>1
  <2>2. CASE k # key
    BY <1>6, <1>8, <2>2, UptoOrder
  <2> QED BY <2>1, <2>2
<1>10. \A k \in Keys : object[k] # None => object'[k] # None
  BY <1>6
<1>11. ListingIsOld'
  BY <1>1, <1>2 DEF IInv, ListingIsOld
<1>12. RowsInOrder'
  <2> SUFFICES ASSUME ~broken' PROVE RowsInOrder'
    BY DEF RowsInOrder
  <2>1. /\ Upto(sy.seen, sy.rows) /\ Upto(sy.rows, lmt) /\ Upto(sy.rows, sy.rows)
        /\ \A k \in Keys : object[k] # None => Upto(object[k], lmt) /\ Upto(object[k], sy.rows)
    BY <1>0, <1>1, <1>8, UptoOrder DEF IInv, RowsInOrder, HasRows
  <2>2. \A k \in Keys : object'[k] # None => Upto(object'[k], lmt) /\ Upto(object'[k], sy.rows)
    BY <1>1, <1>6, <1>7, <2>1
  <2> QED BY <1>1, <1>2, <2>1, <2>2 DEF RowsInOrder
<1>13. FinalIsWritten'
  BY <1>1, <1>2, <1>5, <1>6, <1>7 DEF FinalIsWritten
<1>14. RecordedCovers'
  <2> SUFFICES ASSUME NEW p \in Parts, path[p] # None
               PROVE  object'[path[p]] # None /\ (~broken => object'[path[p]][p] >= recorded[p])
    BY <1>1 DEF RecordedCovers
  <2>1. path[p] \in Keys /\ object[path[p]] # None /\ (~broken => object[path[p]][p] >= recorded[p])
    BY <1>0 DEF TypeOK, IInv, RecordedCovers
  <2>2. ASSUME ~broken PROVE object'[path[p]][p] >= recorded[p]
    <3>1. object[path[p]][p] <= object'[path[p]][p]
      BY <1>9, <2>1, <2>2 DEF Upto
    <3>2. /\ object[path[p]][p] \in Nat /\ object'[path[p]][p] \in Nat /\ recorded[p] \in Nat
      <4>1. object[path[p]] \in Snapshots /\ object'[path[p]] \in Snapshots /\ recorded \in Snapshots
        BY <1>0, <1>6, <1>7, <1>8, <2>1, <2>2 DEF TypeOK
      <4> QED BY <4>1 DEF Snapshots, Times
    <3> QED BY <2>1, <2>2, <3>1, <3>2
  <2> QED BY <1>10, <2>1, <2>2
<1>15. ManifestBacked'
  <2> SUFFICES ASSUME NEW k \in Keys, NEW i \in DOMAIN manifest[k]
               PROVE  /\ object'[k] # None
                      /\ ~broken => \A p \in Parts : manifest[k][i][p] <= object'[k][p]
    BY <1>1 DEF ManifestBacked
  <2>1. object[k] # None /\ (~broken => Upto(manifest[k][i], object[k]))
    BY DEF IInv, ManifestBacked, Upto
  <2>2. ASSUME ~broken PROVE Upto(manifest[k][i], object'[k])
    <3>1. manifest[k][i] \in Snapshots
      <4>1. manifest[k] \in Seq(Snapshots)
        BY <1>0 DEF TypeOK
      <4> QED BY <4>1
    <3>2. object[k] \in Snapshots /\ object'[k] \in Snapshots
      BY <1>6, <1>7, <1>8, <2>1, <2>2
    <3> QED BY <1>9, <2>1, <2>2, <3>1, <3>2, UptoOrder
  <2> QED BY <1>10, <2>1, <2>2 DEF Upto
<1> QED
  BY <1>11, <1>12, <1>13, <1>14, <1>15

(* mergeManifest adds the entry of a file that is there. *)
LEMMA ManifestKeeps ==
    ASSUME IInv, UpdateManifest \/ ManifestUnread
    PROVE  ListingIsOld' /\ RowsInOrder' /\ FinalIsWritten' /\ RecordedCovers' /\ ManifestBacked'
<1>0. TypeOK /\ sy.pc = "manifest"
  BY DEF IInv, UpdateManifest, ManifestUnread
<1>1. UNCHANGED <<lmt, now, path, object, staged, recorded, broken>>
  BY DEF UpdateManifest, ManifestUnread, KeepsSource, KeepsTables
<1>2. /\ sy'.pc = "record" /\ sy'.run = sy.run /\ sy'.seen = sy.seen
      /\ sy'.rows = sy.rows /\ sy'.batch = sy.batch
  BY DEF UpdateManifest, ManifestUnread, IInv, TypeOK
<1>3. ListingIsOld'
  BY <1>1, <1>2 DEF IInv, ListingIsOld
<1>4. RowsInOrder'
  BY <1>0, <1>1, <1>2 DEF IInv, RowsInOrder, HasRows
<1>5. FinalIsWritten'
  <2>1. FinalKey' = FinalKey
    BY <1>2 DEF FinalKey
  <2> QED BY <1>0, <1>1, <1>2, <2>1 DEF IInv, FinalIsWritten, Written
<1>6. RecordedCovers'
  BY <1>1 DEF IInv, RecordedCovers
<1>7. ManifestBacked'
  <2> DEFINE key == FinalKey
  <2>1. /\ key \in Keys /\ sy.rows \in Snapshots /\ manifest \in [Keys -> Seq(Snapshots)]
        /\ object[key] # None /\ (~broken => object[key] = sy.rows)
    BY <1>0, FinalKeyType DEF IInv, TypeOK, HasRows, FinalIsWritten, Written
  <2>2. ASSUME NEW old \in [Keys -> Seq(Snapshots)], manifest' = MergeManifest(old, key, sy.rows),
               \A k \in Keys : old[k] # <<>> => old[k] = manifest[k]
        PROVE  ManifestBacked'
    <3> HIDE DEF key, Keys, Snapshots
    <3>1. \A k \in Keys : \A i \in DOMAIN manifest'[k] :
             (old[k] # <<>> /\ manifest'[k][i] = old[k][1]) \/ (k = key /\ manifest'[k][i] = sy.rows)
      <4>1. EntriesFrom(MergeManifest(old, key, sy.rows), old, key, sy.rows)
        BY <2>1, MergeFacts
      <4>2. EntriesFrom(manifest', old, key, sy.rows)
        BY <2>2, <4>1
      <4> QED BY <4>2 DEF EntriesFrom
    <3>2. ASSUME NEW k \in Keys, NEW i \in DOMAIN manifest'[k]
          PROVE  object[k] # None /\ (~broken => Upto(manifest'[k][i], object[k]))
      <4>1. CASE old[k] # <<>> /\ manifest'[k][i] = old[k][1]
        <5>1. manifest[k] \in Seq(Snapshots) /\ manifest[k] # <<>> /\ manifest'[k][i] = manifest[k][1]
          BY <2>1, <2>2, <4>1
        <5>2. 1 \in DOMAIN manifest[k]
          BY <5>1
        <5> QED BY <5>1, <5>2 DEF IInv, ManifestBacked, Upto
      <4>2. CASE k = key /\ manifest'[k][i] = sy.rows
        BY <2>1, <4>2, UptoOrder
      <4> QED BY <3>1, <4>1, <4>2
    <3> QED BY <1>1, <3>2 DEF ManifestBacked, Upto
  <2>3. CASE UpdateManifest
    BY <2>1, <2>2, <2>3 DEF UpdateManifest
  <2>4. CASE ManifestUnread
    <3> DEFINE empty == [k \in Keys |-> <<>>]
    <3>1. empty \in [Keys -> Seq(Snapshots)] /\ \A k \in Keys : empty[k] = <<>>
      OBVIOUS
    <3>2. manifest' = MergeManifest(empty, key, sy.rows)
      BY <2>4 DEF ManifestUnread
    <3> HIDE DEF empty
    <3> QED BY <2>2, <3>1, <3>2
  <2> QED BY <2>3, <2>4
<1> QED
  BY <1>3, <1>4, <1>5, <1>6, <1>7

(* UpdatePartitionSync records a file that holds the partition as it was listed. *)
LEMMA RecordKeeps ==
    ASSUME IInv, RecordPartition
    PROVE  ListingIsOld' /\ RowsInOrder' /\ FinalIsWritten' /\ RecordedCovers' /\ ManifestBacked'
<1>0. TypeOK /\ sy.pc = "record"
  BY DEF IInv, RecordPartition
<1> DEFINE d    == First(sy.left)
           left == sy.left \ {d}
<1>1. UNCHANGED <<lmt, now, object, staged, manifest, broken>>
  BY DEF RecordPartition, KeepsSource, KeepsObjects
<1>2. /\ path' = [path EXCEPT ![d] = FinalKey] /\ recorded' = [recorded EXCEPT ![d] = sy.seen[d]]
      /\ sy' = [sy EXCEPT !.left = left, !.pc = NextStep(left)]
  BY DEF RecordPartition
<1>3. d \in Parts
  <2>1. sy.left \in SUBSET Parts /\ sy.left # {}
    BY <1>0 DEF TypeOK, IInv, SyncLocals
  <2> QED BY <2>1, BatchFacts
<1> HIDE DEF d, left
<1>4. /\ sy'.pc \in {"record", "watermark"} /\ sy'.run = sy.run /\ sy'.seen = sy.seen
      /\ sy'.rows = sy.rows /\ sy'.batch = sy.batch
  BY <1>0, <1>2 DEF TypeOK, NextStep
<1>5. ListingIsOld'
  BY <1>1, <1>4 DEF IInv, ListingIsOld
<1>6. RowsInOrder'
  BY <1>0, <1>1, <1>4 DEF IInv, RowsInOrder, HasRows
<1>7. FinalIsWritten'
  <2>1. FinalKey' = FinalKey
    BY <1>4 DEF FinalKey
  <2> QED BY <1>0, <1>1, <1>4, <2>1 DEF IInv, FinalIsWritten, Written
<1>8. RecordedCovers'
  <2> SUFFICES ASSUME NEW p \in Parts, path'[p] # None
               PROVE  object[path'[p]] # None /\ (~broken => object[path'[p]][p] >= recorded'[p])
    BY <1>1 DEF RecordedCovers
  <2>1. CASE p = d
    <3>1. path'[p] = FinalKey /\ recorded'[p] = sy.seen[p]
      BY <1>0, <1>2, <2>1 DEF TypeOK, Snapshots
    <3>2. object[FinalKey] # None /\ (~broken => object[FinalKey] = sy.rows /\ sy.seen[p] <= sy.rows[p])
      BY <1>0 DEF IInv, FinalIsWritten, Written, RowsInOrder, HasRows, Upto
    <3>3. sy.seen[p] \in Nat /\ sy.rows[p] \in Nat
      BY <1>0 DEF TypeOK, Snapshots, Times
    <3> HIDE DEF FinalKey
    <3> QED BY <3>1, <3>2, <3>3
  <2>2. CASE p # d
    <3>1. path'[p] = path[p] /\ recorded'[p] = recorded[p]
      BY <1>0, <1>2, <2>2 DEF TypeOK, Snapshots
    <3> QED BY <3>1 DEF IInv, RecordedCovers
  <2> QED BY <2>1, <2>2
<1>9. ManifestBacked'
  BY <1>1 DEF IInv, ManifestBacked
<1> QED
  BY <1>5, <1>6, <1>7, <1>8, <1>9

-----------------------------------------------------------------------------
(* Every step of the sync, of the clean-up goroutine and of BigQuery keeps the *)
(* invariant.                                                                  *)
THEOREM SyncInvariant == Spec => []IInv
<1>1. Init => IInv
  <2> SUFFICES ASSUME Init PROVE IInv
    OBVIOUS
  <2>1. sy.pc = "off" /\ sy.seen = NoSnapshot /\ sy \in SyncState
    BY OffTypes DEF Init
  <2>2. TypeOK
    <3>1. lmt \in Snapshots /\ recorded \in Snapshots /\ now \in Times /\ watermark \in Times
      BY OffTypes DEF Init, Times
    <3>2. /\ path \in [Parts -> Keys \cup {None}]
          /\ object \in [Keys -> Snapshots \cup {None}]
          /\ staged \in [Runs -> Snapshots \cup {None}]
      BY DEF Init
    <3>3. manifest \in [Keys -> Seq(Snapshots)] /\ \A k \in Keys : Len(manifest[k]) <= 2
      BY DEF Init
    <3>4. /\ runState \in [Runs -> {"absent", "running", "completed", "failed"}]
          /\ cleaner \in [pc: {"off", "list", "delete"}, keys: SUBSET Runs]
      BY OffTypes DEF Init
    <3>5. broken \in BOOLEAN
      BY Zenon DEF Init
    <3>6. failures \in 0..MaxFailures /\ crashes \in 0..MaxCrashes
      BY DEF Init
    <3> QED BY <2>1, <3>1, <3>2, <3>3, <3>4, <3>5, <3>6, Zenon DEF TypeOK, SyncState
  <2>3. SyncLocals
    BY <2>1 DEF SyncLocals, HasRows
  <2>4. ListingIsOld
    BY <2>1 DEF Init, ListingIsOld, Upto, NoSnapshot
  <2>5. RowsInOrder /\ FinalIsWritten
    BY <2>1 DEF Init, RowsInOrder, FinalIsWritten, HasRows, Written
  <2>6. RecordedCovers /\ ManifestBacked
    BY DEF Init, RecordedCovers, ManifestBacked
  <2> QED BY <2>2, <2>3, <2>4, <2>5, <2>6 DEF IInv
<1>2. IInv /\ [Next]_vars => IInv'
  <2>1. ASSUME IInv, Next PROVE IInv'
    <3>1. TypeOK' /\ SyncLocals'
      BY <2>1, TypeStep, LocalsStep DEF IInv
    <3>2. ListingIsOld' /\ RowsInOrder' /\ FinalIsWritten' /\ RecordedCovers' /\ ManifestBacked'
      <4>1. CASE \E p \in Parts : Modify(p)
        BY <2>1, <3>1, <4>1, ModifyKeeps
      <4>2. CASE ReadTable
        BY <2>1, <4>2, ReadKeeps
      <4>3. CASE Upload \/ UploadTruncated
        BY <2>1, <4>3, UploadKeeps
      <4>4. CASE RenameCopy /\ staged[sy.run] # None
        BY <2>1, <4>4, CopyKeeps
      <4>5. CASE UpdateManifest \/ ManifestUnread
        BY <2>1, <4>5, ManifestKeeps
      <4>6. CASE RecordPartition
        BY <2>1, <4>6, RecordKeeps
      <4>7. CASE \/ Start \/ Discover \/ DiscoverFails \/ FilterModified \/ SyncTableFails
                 \/ CheckExported \/ CheckFails \/ RenameDelete \/ ExportFails \/ ManifestFails \/ RecordFails
                 \/ UpdateTableWatermark \/ WatermarkFails \/ Complete \/ Crash
                 \/ CleanerList \/ CleanerDelete \/ CleanerFails
                 \/ RenameCopy /\ staged[sy.run] = None
        BY <2>1, <4>7, QuietActions, QuietKeeps DEF IInv
      <4> QED BY <2>1, <4>1, <4>2, <4>3, <4>4, <4>5, <4>6, <4>7 DEF Next, Sync
    <3> QED BY <3>1, <3>2 DEF IInv
  <2>2. ASSUME IInv, UNCHANGED vars PROVE IInv'
    <3>1. Quiet /\ UNCHANGED <<watermark, runState, sy, staged, cleaner, failures, crashes>>
      BY <2>2 DEF vars, store, Quiet
    <3>2. ListingIsOld' /\ RowsInOrder' /\ FinalIsWritten' /\ RecordedCovers' /\ ManifestBacked'
      BY <2>2, <3>1, QuietKeeps
    <3>3. TypeOK' /\ SyncLocals'
      BY <2>2 DEF IInv, TypeOK, SyncLocals, vars, store
    <3> QED BY <3>2, <3>3 DEF IInv
  <2> QED BY <2>1, <2>2
<1> QED
  BY <1>1, <1>2, PTL DEF Spec

(* The types hold in every reachable state, and no path ever has more than an *)
(* old and a new entry in _manifest.json.                                     *)
THEOREM TypeCorrect == Spec => []TypeOK
<1>1. IInv => TypeOK
  BY DEF IInv
<1> QED
  BY <1>1, SyncInvariant, PTL

(* partitions.last_exported_path names an object that exists and, unless a    *)
(* stream of rows broke off, holds the partition as the recording run listed  *)
(* it or newer, however often the key was exported again.                     *)
THEOREM RecordedIsCovered == Spec => []RecordedCovers
<1>1. IInv => RecordedCovers
  BY DEF IInv
<1> QED
  BY <1>1, SyncInvariant, PTL

(* Every entry of _manifest.json names an object that exists and, unless a    *)
(* stream of rows broke off, is not older than the entry.                     *)
THEOREM ManifestIsBacked == Spec => []ManifestBacked
<1>1. IInv => ManifestBacked
  BY DEF IInv
<1> QED
  BY <1>1, SyncInvariant, PTL

(* UpdateTableWatermark never moves the watermark back: it takes the time of  *)
(* one of the partitions that were found newer than it.                       *)
THEOREM WatermarkNeverMovesBack == Spec => WatermarkMonotone
<1>1. IInv /\ [Next]_vars => [watermark' >= watermark]_vars
  <2> SUFFICES ASSUME IInv, Next PROVE watermark' >= watermark
    OBVIOUS
  <2>1. watermark \in Nat
    BY DEF IInv, TypeOK, Times
  <2>2. CASE UpdateTableWatermark
    <3>1. sy.todo \in SUBSET Parts /\ sy.todo # {} /\ \A p \in sy.todo : sy.seen[p] > watermark
      BY <2>2 DEF UpdateTableWatermark, IInv, TypeOK, SyncLocals
    <3>2. Last(sy.todo) \in sy.todo
      BY <3>1, BatchFacts
    <3>3. sy.seen[Last(sy.todo)] \in Nat /\ sy.seen[Last(sy.todo)] > watermark
      BY <3>1, <3>2 DEF IInv, TypeOK, Snapshots, Times
    <3>4. watermark' = sy.seen[Last(sy.todo)]
      BY <2>2 DEF UpdateTableWatermark
    <3> HIDE DEF Last
    <3> QED BY <2>1, <3>3, <3>4
  <2>3. CASE ~UpdateTableWatermark
    <3>1. UNCHANGED watermark
      <4>1. CASE Sync
        <5> USE DEF KeepsTables
        <5>1. CASE \/ Discover \/ DiscoverFails \/ FilterModified \/ ReadTable \/ SyncTableFails
                   \/ CheckExported \/ CheckFails \/ Upload \/ UploadTruncated
          BY <5>1, Zenon DEF Discover, DiscoverFails, FilterModified, ReadTable, SyncTableFails, CheckExported,
                             CheckFails, Upload, UploadTruncated
        <5>2. CASE \/ RenameCopy \/ RenameDelete \/ ExportFails \/ UpdateManifest \/ ManifestUnread
                   \/ ManifestFails \/ RecordPartition \/ RecordFails \/ WatermarkFails \/ Complete
          BY <5>2, Zenon DEF RenameCopy, RenameDelete, ExportFails, UpdateManifest, ManifestUnread,
                             ManifestFails, RecordPartition, RecordFails, WatermarkFails, Complete
        <5> QED BY <2>3, <4>1, <5>1, <5>2 DEF Sync
      <4>2. CASE Next /\ ~Sync
        BY <4>2 DEF Next, Modify, Start, Crash, CleanerList, CleanerDelete, CleanerFails
      <4> QED BY <4>1, <4>2
    <3> QED BY <2>1, <3>1
  <2> QED BY <2>2, <2>3
<1> QED
  BY <1>1, SyncInvariant, PTL DEF Spec, WatermarkMonotone
=============================================================================
