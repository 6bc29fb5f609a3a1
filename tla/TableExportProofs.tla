------------------------- MODULE TableExportProofs -------------------------
(***************************************************************************)
(* Proofs about TableExport, for any number of workers and processes, any  *)
(* set of time stamps, any number of exports, faults and crashes.          *)
(*                                                                         *)
(* None of the three properties is inductive.  They are about what rows,   *)
(* manifest and finished exports point at, and an export carries its key   *)
(* and a copy of the manifest from one step to a later one: the invariant  *)
(* says the same of what the actors carry.                                 *)
(***************************************************************************)
EXTENDS TableExport, TLAPS

USE ExportAssumption

-----------------------------------------------------------------------------
\* The file has been copied to its final key; the manifest's turn is over.
Stored == {"delete", "read", "write", "select", "create", "update", "finish"}
Listed == {"select", "create", "update", "finish"}

\* The locals ExecuteTask and exportBatch have at each step.
ActorLocals ==
    \A a \in Actors :
        /\ actor[a].pc # "off" => actor[a].no \in Exports
        /\ actor[a].pc \in {"copy", "delete"} => actor[a].stage \in StagingKeys
        /\ actor[a].pc \in Stored => actor[a].key \in FinalKeys /\ actor[a].key[1] = Kind(a)

\* Rows, manifest, its copies and every export past the copy name an object.
Backed ==
    /\ CatalogueBacked
    /\ \A a \in Actors :
          /\ actor[a].pc \in Stored => object[actor[a].key] # None
          /\ \A k \in FinalKeys : actor[a].local[k] # <<>> => object[k] # None
    /\ \A c \in completed : object[c[2]] # None

\* Unless two exports used one key, everyone finds his own bytes.
OwnBytes(m, files) ==
    \A s \in Stamps : \A i \in DOMAIN m[<<"task", s>>] : m[<<"task", s>>][i] = files[<<"task", s>>]

OwnFiles ==
    ~collided =>
        /\ CompletedIsStored
        /\ \A a \in Actors :
              /\ actor[a].pc \in {"copy", "delete"} => staged[actor[a].stage] \in {None, actor[a].no}
              /\ actor[a].pc \in Stored /\ a \in Workers => object[actor[a].key] = actor[a].no
              /\ OwnBytes(actor[a].local, object)

\* Unless two updates of the manifest overlapped or a call on it failed, the
\* copy an export merges into is the manifest, and nothing is lost.
ListedFiles ==
    ~raced =>
        /\ CompletedIsListed
        /\ \A a \in Actors :
              /\ At(a, "write") => actor[a].local = manifest
              /\ actor[a].pc \in Listed => manifest[actor[a].key] # <<>>

IInv == TypeOK /\ ActorLocals /\ Backed /\ OwnFiles /\ ListedFiles

-----------------------------------------------------------------------------
(* Merge keeps at most the first entry of each path, and WithFile adds one. *)
LEMMA WithFileFacts ==
    ASSUME NEW m \in Manifests, NEW key \in FinalKeys, NEW h \in Exports
    PROVE  LET n == WithFile(m, key, h)
           IN  /\ n \in Manifests
               /\ \A k \in FinalKeys :
                     /\ Len(n[k]) <= 2
                     /\ n[k] # <<>> <=> m[k] # <<>> \/ k = key
                     /\ \A i \in DOMAIN n[k] :
                           \/ m[k] # <<>> /\ n[k][i] = m[k][1]
                           \/ k = key /\ n[k][i] = h
<1> DEFINE first(k) == IF m[k] = <<>> THEN <<>> ELSE <<m[k][1]>>
           n == WithFile(m, key, h)
<1>1. ASSUME NEW k \in FinalKeys
      PROVE  /\ first(k) \in Seq(Exports) /\ Len(first(k)) <= 1
             /\ first(k) # <<>> <=> m[k] # <<>>
             /\ \A i \in DOMAIN first(k) : m[k] # <<>> /\ first(k)[i] = m[k][1]
  <2>1. m[k] \in Seq(Exports)
    BY DEF Manifests
  <2>2. CASE m[k] = <<>>
    BY <2>2
  <2>3. CASE m[k] # <<>>
    <3>1. m[k][1] \in Exports
      BY <2>1, <2>3
    <3> HIDE DEF Exports
    <3> QED BY <2>3, <3>1
  <2> QED BY <2>2, <2>3
<1>2. Merge(m) = [k \in FinalKeys |-> first(k)]
  BY DEF Merge
<1>3. n = [k \in FinalKeys |-> IF k = key THEN Append(first(k), h) ELSE first(k)]
  BY <1>2 DEF WithFile
<1> HIDE DEF first, n, Exports
<1>4. ASSUME NEW k \in FinalKeys
      PROVE  /\ n[k] \in Seq(Exports) /\ Len(n[k]) <= 2
             /\ n[k] # <<>> <=> m[k] # <<>> \/ k = key
             /\ \A i \in DOMAIN n[k] :
                   (m[k] # <<>> /\ n[k][i] = m[k][1]) \/ (k = key /\ n[k][i] = h)
  <2>1. CASE k = key
    <3>1. n[k] = Append(first(k), h)
      BY <1>3, <2>1
    <3> QED BY <1>1, <2>1, <3>1
  <2>2. CASE k # key
    <3>1. n[k] = first(k)
      BY <1>3, <2>2
    <3> QED BY <1>1, <2>2, <3>1
  <2> QED BY <2>1, <2>2
<1>5. n \in Manifests
  BY <1>3, <1>4 DEF Manifests
<1> QED
  BY <1>4, <1>5 DEF n

-----------------------------------------------------------------------------
ActorState == [pc: Steps, no: Exports \cup {0}, stage: StagingKeys \cup {None},
               key: FinalKeys \cup {None}, local: Manifests]

(* What an actor's locals may become. *)
LEMMA ActorEdits ==
    ASSUME TypeOK, NEW a \in Actors
    PROVE  /\ actor[a] \in ActorState /\ Idle \in ActorState
           /\ \A row \in ActorState : [actor EXCEPT ![a] = row] \in [Actors -> ActorState]
           /\ \A step \in Steps : GoTo(a, step) => actor' \in [Actors -> ActorState]
           /\ Return(a) => actor' \in [Actors -> ActorState]
<1>1. NoManifest \in Manifests
  BY DEF NoManifest, Manifests
<1>2. Idle \in ActorState
  BY <1>1 DEF Idle, ActorState, Steps
<1>3. actor \in [Actors -> ActorState]
  BY DEF TypeOK, ActorState
<1>4. \A row \in ActorState : [actor EXCEPT ![a] = row] \in [Actors -> ActorState]
  BY <1>3
<1>5. ASSUME NEW step \in Steps PROVE [actor EXCEPT ![a].pc = step] \in [Actors -> ActorState]
  <2>1. [actor[a] EXCEPT !.pc = step] \in ActorState
    BY <1>3 DEF ActorState
  <2>2. [actor EXCEPT ![a].pc = step] = [actor EXCEPT ![a] = [actor[a] EXCEPT !.pc = step]]
    BY <1>3
  <2> QED BY <1>4, <2>1, <2>2
<1> QED
  BY <1>2, <1>3, <1>4, <1>5 DEF GoTo, Return

(* Every step keeps the types; that an export's number, keys and copy of the *)
(* manifest are there when they are used is ActorLocals.                     *)
LEMMA TypeStep ==
    ASSUME TypeOK, ActorLocals, Next
    PROVE  TypeOK'
<1>1. ASSUME NEW a \in Actors, Start(a) PROVE TypeOK'
  <2>1. [Idle EXCEPT !.pc = "version", !.no = exports + 1] \in ActorState
    <3>1. exports + 1 \in Exports
      BY <1>1 DEF Start, TypeOK, Exports
    <3> QED BY <3>1, ActorEdits DEF ActorState, Steps
  <2>2. actor' \in [Actors -> ActorState]
    BY <1>1, <2>1, ActorEdits DEF Start
  <2> QED BY <1>1, <2>2 DEF Start, TypeOK, ActorState, store, history
<1>2. ASSUME NEW a \in Actors, ReadVersion(a) \/ SelectPartition(a) PROVE TypeOK'
  <2>1. actor' \in [Actors -> ActorState]
    <3>1. \E step \in Steps : GoTo(a, step)
      BY <1>2, Zenon DEF ReadVersion, SelectPartition, Steps
    <3> QED BY <3>1, ActorEdits
  <2> QED BY <1>2, <2>1 DEF ReadVersion, SelectPartition, Fault, TypeOK, ActorState, store, history
<1>3. ASSUME NEW a \in Actors, RecordVersion(a) PROVE TypeOK'
  <2>1. actor' \in [Actors -> ActorState]
    <3>1. Return(a) \/ \E step \in Steps : GoTo(a, step)
      BY <1>3, Zenon DEF RecordVersion, Steps
    <3> QED BY <3>1, ActorEdits
  <2>2. versioned' \in BOOLEAN /\ faults' \in 0..MaxFaults
    <3>1. versioned' = versioned \/ versioned' = TRUE
      BY <1>3, Zenon DEF RecordVersion
    <3>2. versioned \in BOOLEAN
      BY DEF TypeOK
    <3>3. UNCHANGED faults \/ Fault
      BY <1>3, Zenon DEF RecordVersion
    <3>4. faults' \in 0..MaxFaults
      BY <3>3 DEF Fault, TypeOK
    <3> QED BY <3>1, <3>2, <3>4, Zenon
  <2> QED BY <1>3, <2>1, <2>2 DEF RecordVersion, TypeOK, ActorState, history
<1>4. ASSUME NEW a \in Actors, Check(a) \/ CreatePartition(a) PROVE TypeOK'
  <2>1. actor' \in [Actors -> ActorState]
    <3>1. Return(a) \/ \E step \in Steps : GoTo(a, step)
      BY <1>4, Zenon DEF Check, CreatePartition, Steps
    <3> QED BY <3>1, ActorEdits
  <2>2. part' \in [Kinds -> [exists: BOOLEAN, path: FinalKeys \cup {None}]]
    BY <1>4 DEF Check, CreatePartition, TypeOK
  <2> QED BY <1>4, <2>1, <2>2 DEF Check, CreatePartition, Fault, TypeOK, ActorState, history
<1>5. ASSUME NEW a \in Actors, Upload(a) PROVE TypeOK'
  <2>1. PICK s \in Stamps :
           /\ staged' = [staged EXCEPT ![<<Kind(a), s>>] = actor[a].no]
           /\ actor' = [actor EXCEPT ![a].pc = "copy", ![a].stage = <<Kind(a), s>>]
           /\ collided' = (collided \/ \E b \in Actors \ {a} : actor[b].stage = <<Kind(a), s>>)
    BY <1>5 DEF Upload
  <2>2. <<Kind(a), s>> \in StagingKeys /\ actor[a].no \in Exports /\ actor[a] \in ActorState
    BY <1>5, ActorEdits DEF Upload, At, ActorLocals, Kind, Kinds, StagingKeys
  <2>3. [actor[a] EXCEPT !.pc = "copy", !.stage = <<Kind(a), s>>] \in ActorState
    BY <2>2 DEF ActorState, Steps
  <2>4. actor' \in [Actors -> ActorState]
    BY <2>1, <2>3, ActorEdits DEF TypeOK
  <2>5. staged' \in [StagingKeys -> Content] /\ collided' \in BOOLEAN
    BY <2>1, <2>2 DEF TypeOK, Content
  <2> QED BY <1>5, <2>4, <2>5 DEF Upload, TypeOK, ActorState
<1>6. ASSUME NEW a \in Actors, RenameCopy(a) PROVE TypeOK'
  <2>1. PICK key \in FinalKeys : CopyTo(a, key)
    BY <1>6 DEF RenameCopy
  <2>2. actor[a].stage \in StagingKeys /\ actor[a] \in ActorState
    BY <1>6, ActorEdits DEF RenameCopy, At, ActorLocals
  <2>3. [actor[a] EXCEPT !.pc = "delete", !.key = key] \in ActorState
    BY <2>2 DEF ActorState, Steps
  <2>4. actor' \in [Actors -> ActorState]
    BY <2>1, <2>3, ActorEdits DEF CopyTo, TypeOK
  <2>5. object' \in [FinalKeys -> Content] /\ collided' \in BOOLEAN
    BY <2>1, <2>2 DEF CopyTo, TypeOK
  <2> QED BY <1>6, <2>4, <2>5 DEF RenameCopy, TypeOK, ActorState
<1>7. ASSUME NEW a \in Actors, RenameDelete(a) PROVE TypeOK'
  <2>1. [actor[a] EXCEPT !.pc = "read", !.stage = None] \in ActorState
    BY ActorEdits DEF ActorState, Steps
  <2>2. actor' \in [Actors -> ActorState]
    BY <1>7, <2>1, ActorEdits DEF RenameDelete, TypeOK
  <2>3. staged' \in [StagingKeys -> Content]
    BY <1>7 DEF RenameDelete, TypeOK, Content
  <2> QED BY <1>7, <2>2, <2>3 DEF RenameDelete, TypeOK, ActorState, history
<1>8. ASSUME NEW a \in Actors, ExportFails(a) \/ Crash(a) PROVE TypeOK'
  <2>1. actor' \in [Actors -> ActorState]
    BY <1>8, ActorEdits DEF ExportFails, Crash
  <2> QED BY <1>8, <2>1 DEF ExportFails, Crash, Fault, TypeOK, ActorState, store, history
<1>9. ASSUME NEW a \in Actors, ReadManifest(a) PROVE TypeOK'
  <2>1. [actor[a] EXCEPT !.pc = "write", !.local = manifest] \in ActorState
    <3>1. manifest \in Manifests /\ actor[a] \in ActorState
      BY ActorEdits DEF TypeOK
    <3> QED BY <3>1 DEF ActorState, Steps
  <2>2. actor' \in [Actors -> ActorState]
    <3>1. GoTo(a, "write") \/ actor' = [actor EXCEPT ![a] = [actor[a] EXCEPT !.pc = "write", !.local = manifest]]
      BY <1>9 DEF ReadManifest, TypeOK
    <3>2. "write" \in Steps
      BY DEF Steps
    <3> QED BY <2>1, <3>1, <3>2, ActorEdits
  <2>3. raced' \in BOOLEAN /\ faults' \in 0..MaxFaults
    <3>1. raced' = raced \/ raced' = TRUE
      BY <1>9, Zenon DEF ReadManifest
    <3>2. raced \in BOOLEAN
      BY DEF TypeOK
    <3>3. UNCHANGED faults \/ Fault
      BY <1>9, Zenon DEF ReadManifest
    <3>4. faults' \in 0..MaxFaults
      BY <3>3 DEF Fault, TypeOK
    <3> QED BY <3>1, <3>2, <3>4, Zenon
  <2> QED BY <1>9, <2>2, <2>3 DEF ReadManifest, TypeOK, ActorState, store
<1>10. ASSUME NEW a \in Actors, WriteManifest(a) PROVE TypeOK'
  <2>1. /\ actor[a] \in ActorState /\ NoManifest \in Manifests
        /\ actor[a].no \in Exports /\ actor[a].key \in FinalKeys /\ actor[a].local \in Manifests
    BY <1>10, ActorEdits DEF WriteManifest, At, ActorLocals, Stored, ActorState, Idle
  <2>2. [actor[a] EXCEPT !.pc = "select", !.local = NoManifest] \in ActorState
    BY <2>1 DEF ActorState, Steps
  <2>3. actor' \in [Actors -> ActorState]
    BY <1>10, <2>2, ActorEdits DEF WriteManifest, TypeOK
  <2>4. manifest' \in Manifests /\ \A k \in FinalKeys : Len(manifest'[k]) <= 2
    BY <1>10, <2>1, WithFileFacts DEF WriteManifest, TypeOK
  <2>5. raced' \in BOOLEAN
    BY <1>10 DEF WriteManifest, TypeOK
  <2> QED BY <1>10, <2>3, <2>4, <2>5 DEF WriteManifest, Fault, TypeOK, ActorState
<1>11. ASSUME NEW a \in Actors, UpdatePartition(a) PROVE TypeOK'
  <2>1. actor[a].key \in FinalKeys
    BY <1>11 DEF UpdatePartition, At, ActorLocals, Stored
  <2>2. actor' \in [Actors -> ActorState]
    BY <1>11, ActorEdits DEF UpdatePartition, Steps
  <2>3. part' \in [Kinds -> [exists: BOOLEAN, path: FinalKeys \cup {None}]]
    BY <1>11, <2>1 DEF UpdatePartition, TypeOK
  <2> QED BY <1>11, <2>2, <2>3 DEF UpdatePartition, Fault, TypeOK, ActorState, history
<1>12. ASSUME NEW a \in Actors, Finish(a) PROVE TypeOK'
  <2>1. actor[a].key \in FinalKeys /\ actor[a].no \in Exports
    BY <1>12 DEF Finish, At, ActorLocals, Stored
  <2>2. actor' \in [Actors -> ActorState]
    BY <1>12, ActorEdits DEF Finish
  <2> QED BY <1>12, <2>1, <2>2 DEF Finish, Fault, TypeOK, ActorState, store
<1>13. CASE DeleteStaging
  <2>1. staged' \in [StagingKeys -> Content]
    BY <1>13 DEF DeleteStaging, TypeOK, Content
  <2> QED BY <1>13, <2>1 DEF DeleteStaging, TypeOK, history
<1> QED
  BY <1>1, <1>2, <1>3, <1>4, <1>5, <1>6, <1>7, <1>8, <1>9, <1>10, <1>11, <1>12, <1>13
     DEF Next, Step

-----------------------------------------------------------------------------
(* What GoTo and Return do to the actors. *)
LEMMA ActorMoves ==
    ASSUME TypeOK, NEW a \in Actors
    PROVE  /\ Return(a) => \A b \in Actors : actor'[b] = IF b = a THEN Idle ELSE actor[b]
           /\ \A step : GoTo(a, step) =>
                 /\ actor'[a].pc = step
                 /\ actor'[a].no = actor[a].no /\ actor'[a].stage = actor[a].stage
                 /\ actor'[a].key = actor[a].key /\ actor'[a].local = actor[a].local
                 /\ \A b \in Actors \ {a} : actor'[b] = actor[b]
           /\ Idle.pc = "off" /\ Idle.local = NoManifest
  BY DEF TypeOK, Return, GoTo, Idle

\* An action that touches no object, no manifest and no recorded path, and
\* starts, returns or goes on to a step that needs no more than the last.
Passes(a) ==
    /\ UNCHANGED <<staged, object, manifest, history>>
    /\ \A k \in Kinds : part'[k].path = part[k].path
    /\ \/ Return(a)
       \/ /\ actor' = [actor EXCEPT ![a] = [Idle EXCEPT !.pc = "version", !.no = exports + 1]]
          /\ exports + 1 \in Exports
       \/ \E step \in {"insert", "check", "upload"} \cup Listed :
             /\ GoTo(a, step) /\ actor[a].pc # "off"
             /\ step \in Listed => actor[a].pc \in Listed

LEMMA PassingActions ==
    ASSUME TypeOK, NEW a \in Actors,
           \/ Start(a) \/ ReadVersion(a) \/ RecordVersion(a) \/ Check(a) \/ ExportFails(a)
           \/ SelectPartition(a) \/ CreatePartition(a) \/ Crash(a)
    PROVE  Passes(a)
<1> USE DEF Passes, Listed, At
<1>0. CASE Start(a)
  BY <1>0 DEF Start, store, TypeOK, Exports
<1>1. CASE ReadVersion(a)
  <2>1. UNCHANGED <<staged, object, manifest, history, part>> /\ actor[a].pc = "version"
    BY <1>1 DEF ReadVersion, store
  <2>2. GoTo(a, "check") \/ GoTo(a, "insert")
    BY <1>1, Zenon DEF ReadVersion
  <2> QED BY <2>1, <2>2
<1>2. CASE RecordVersion(a)
  <2>1. UNCHANGED <<staged, object, manifest, history, part>> /\ actor[a].pc = "insert"
    BY <1>2 DEF RecordVersion
  <2>2. Return(a) \/ GoTo(a, "check")
    BY <1>2, Zenon DEF RecordVersion
  <2> QED BY <2>1, <2>2
<1>3. CASE Check(a)
  <2>1. UNCHANGED <<staged, object, manifest, history>> /\ actor[a].pc = "check"
    BY <1>3 DEF Check
  <2>2. Return(a) \/ GoTo(a, "upload")
    BY <1>3, Zenon DEF Check
  <2>3. \A k \in Kinds : part'[k].path = part[k].path
    BY <1>3 DEF Check, TypeOK
  <2> QED BY <2>1, <2>2, <2>3
<1>4. CASE ExportFails(a) \/ Crash(a)
  BY <1>4 DEF ExportFails, Crash, store
<1>5. CASE SelectPartition(a)
  <2>1. UNCHANGED <<staged, object, manifest, history, part>> /\ actor[a].pc = "select"
    BY <1>5 DEF SelectPartition, store
  <2>2. GoTo(a, "update") \/ GoTo(a, "create") \/ GoTo(a, "finish")
    BY <1>5, Zenon DEF SelectPartition
  <2> QED BY <2>1, <2>2
<1>6. CASE CreatePartition(a)
  <2>1. UNCHANGED <<staged, object, manifest, history>> /\ actor[a].pc = "create"
    BY <1>6 DEF CreatePartition
  <2>2. GoTo(a, "update") \/ GoTo(a, "finish")
    BY <1>6, Zenon DEF CreatePartition
  <2>3. \A k \in Kinds : part'[k].path = part[k].path
    BY <1>6 DEF CreatePartition, TypeOK
  <2> QED BY <2>1, <2>2, <2>3
<1> QED
  BY <1>0, <1>1, <1>2, <1>3, <1>4, <1>5, <1>6

(* Such an action keeps the whole invariant. *)
LEMMA PassesKeeps ==
    ASSUME IInv, TypeOK', NEW a \in Actors, Passes(a)
    PROVE  ActorLocals' /\ Backed' /\ OwnFiles' /\ ListedFiles'
<1>0. TypeOK
  BY DEF IInv
<1>1. UNCHANGED <<staged, object, manifest, completed, collided, raced>>
  BY DEF Passes, history
<1>2. \A b \in Actors :
         /\ actor'[b].pc # "off" => actor'[b].no \in Exports
         /\ actor'[b].local = actor[b].local \/ actor'[b].local = NoManifest
         /\ actor'[b].pc \in {"copy"} \cup Stored =>
               /\ actor'[b].no = actor[b].no /\ actor'[b].stage = actor[b].stage
               /\ actor'[b].key = actor[b].key /\ actor'[b].local = actor[b].local
         /\ actor'[b].pc \in {"copy", "delete", "write"} => actor'[b].pc = actor[b].pc
         /\ actor'[b].pc \in Stored => actor[b].pc \in Stored
         /\ actor'[b].pc \in Listed => actor[b].pc \in Listed
  <2> USE DEF Stored, Listed
  <2>0. \A b \in Actors : actor[b].pc # "off" => actor[b].no \in Exports
    BY DEF IInv, ActorLocals
  <2>1. CASE Return(a)
    BY <1>0, <2>0, <2>1, ActorMoves
  <2>2. CASE \E step \in {"insert", "check", "upload"} \cup Listed :
                /\ GoTo(a, step) /\ actor[a].pc # "off"
                /\ step \in Listed => actor[a].pc \in Listed
    BY <1>0, <2>0, <2>2, ActorMoves
  <2>3. CASE /\ actor' = [actor EXCEPT ![a] = [Idle EXCEPT !.pc = "version", !.no = exports + 1]]
             /\ exports + 1 \in Exports
    <3>1. /\ actor'[a].pc = "version" /\ actor'[a].no = exports + 1 /\ actor'[a].local = NoManifest
          /\ \A b \in Actors \ {a} : actor'[b] = actor[b]
      BY <1>0, <2>3 DEF TypeOK, Idle
    <3> QED BY <2>0, <2>3, <3>1
  <2> QED BY <2>1, <2>2, <2>3 DEF Passes
<1>3. \A k \in FinalKeys : NoManifest[k] = <<>>
  BY DEF NoManifest
<1>4. \A s \in Stamps : <<"task", s>> \in FinalKeys
  BY DEF FinalKeys
<1>5. ActorLocals'
  BY <1>2 DEF IInv, ActorLocals, Stored
<1>6. Backed'
  <2>1. \A k \in Kinds : part'[k].path = part[k].path
    BY DEF Passes
  <2>2. CatalogueBacked'
    BY <1>1, <2>1 DEF IInv, Backed, CatalogueBacked
  <2>3. ASSUME NEW b \in Actors
        PROVE  /\ actor'[b].pc \in Stored => object'[actor'[b].key] # None
               /\ \A k \in FinalKeys : actor'[b].local[k] # <<>> => object'[k] # None
    BY <1>1, <1>2, <1>3 DEF IInv, Backed, Stored
  <2> QED BY <1>1, <2>2, <2>3 DEF IInv, Backed
<1>7. OwnFiles'
  <2> SUFFICES ASSUME ~collided' PROVE OwnFiles'
    BY DEF OwnFiles
  <2>1. OwnBytes(NoManifest, object')
    BY <1>3, <1>4 DEF OwnBytes
  <2>2. ASSUME NEW b \in Actors PROVE OwnBytes(actor'[b].local, object')
    <3>1. OwnBytes(actor[b].local, object)
      BY <1>1 DEF IInv, OwnFiles
    <3>2. actor'[b].local = actor[b].local \/ actor'[b].local = NoManifest
      BY <1>2
    <3> QED BY <1>1, <2>1, <3>1, <3>2 DEF OwnBytes
  <2>3. CompletedIsStored'
    BY <1>1 DEF IInv, OwnFiles, CompletedIsStored
  <2>4. ASSUME NEW b \in Actors
        PROVE  /\ actor'[b].pc \in {"copy", "delete"} => staged'[actor'[b].stage] \in {None, actor'[b].no}
               /\ actor'[b].pc \in Stored /\ b \in Workers => object'[actor'[b].key] = actor'[b].no
    BY <1>1, <1>2 DEF IInv, OwnFiles, Stored
  <2> QED BY <2>2, <2>3, <2>4 DEF OwnFiles
<1>8. ListedFiles'
  <2> SUFFICES ASSUME ~raced' PROVE ListedFiles'
    BY DEF ListedFiles
  <2>1. CompletedIsListed'
    BY <1>1 DEF IInv, ListedFiles, CompletedIsListed
  <2>2. ASSUME NEW b \in Actors
        PROVE  /\ actor'[b].pc = "write" => actor'[b].local = manifest'
               /\ actor'[b].pc \in Listed => manifest'[actor'[b].key] # <<>>
    <3>1. /\ actor[b].pc = "write" => actor[b].local = manifest
          /\ actor[b].pc \in Listed => manifest[actor[b].key] # <<>>
      BY <1>1 DEF IInv, ListedFiles, At
    <3> QED BY <1>1, <1>2, <3>1 DEF Stored, Listed
  <2> QED BY <2>1, <2>2 DEF ListedFiles, At
<1> QED
  BY <1>5, <1>6, <1>7, <1>8

-----------------------------------------------------------------------------
(***************************************************************************)
(* The other actions, one by one.                                          *)
(***************************************************************************)

(* UploadMultipart writes a staging key that nobody else is using, or the two *)
(* collide.                                                                   *)
LEMMA UploadKeeps ==
    ASSUME IInv, NEW a \in Actors, Upload(a)
    PROVE  ActorLocals' /\ Backed' /\ OwnFiles' /\ ListedFiles'
<1>1. PICK s \in Stamps :
         /\ staged' = [staged EXCEPT ![<<Kind(a), s>>] = actor[a].no]
         /\ actor' = [actor EXCEPT ![a].pc = "copy", ![a].stage = <<Kind(a), s>>]
         /\ collided' = (collided \/ \E b \in Actors \ {a} : actor[b].stage = <<Kind(a), s>>)
  BY DEF Upload
<1> DEFINE k == <<Kind(a), s>>
<1>2. k \in StagingKeys /\ actor[a].no \in Exports
  BY DEF Upload, At, IInv, ActorLocals, Kind, Kinds, StagingKeys
<1>3. /\ actor'[a].pc = "copy" /\ actor'[a].stage = k
      /\ actor'[a].no = actor[a].no /\ actor'[a].local = actor[a].local
      /\ \A b \in Actors \ {a} : actor'[b] = actor[b]
  BY <1>1 DEF IInv, TypeOK
<1>4. /\ staged'[k] = actor[a].no
      /\ \A b \in Actors \ {a} : actor[b].stage # k => staged'[actor[b].stage] = staged[actor[b].stage]
  BY <1>1, <1>2 DEF IInv, TypeOK
<1>5. UNCHANGED <<part, object, manifest, completed, raced>>
  BY DEF Upload
<1> HIDE DEF k
<1>6. ~collided' => ~collided /\ \A b \in Actors \ {a} : actor[b].stage # k
  BY <1>1, Zenon DEF k
<1>7. ActorLocals'
  BY <1>2, <1>3 DEF IInv, ActorLocals, Stored
<1>8. Backed'
  BY <1>3, <1>5 DEF IInv, Backed, CatalogueBacked, Stored
<1>9. OwnFiles'
  <2> SUFFICES ASSUME ~collided' PROVE OwnFiles'
    BY DEF OwnFiles
  <2>1. ~collided /\ \A b \in Actors \ {a} : actor[b].stage # k
    BY <1>6
  <2>2. CompletedIsStored'
    BY <1>5, <2>1 DEF IInv, OwnFiles, CompletedIsStored
  <2>3. ASSUME NEW b \in Actors
        PROVE  /\ actor'[b].pc \in {"copy", "delete"} => staged'[actor'[b].stage] \in {None, actor'[b].no}
               /\ actor'[b].pc \in Stored /\ b \in Workers => object'[actor'[b].key] = actor'[b].no
               /\ OwnBytes(actor'[b].local, object')
    <3>1. OwnBytes(actor'[b].local, object')
      <4>1. OwnBytes(actor[b].local, object) /\ actor'[b].local = actor[b].local
        BY <1>3, <2>1 DEF IInv, OwnFiles
      <4> QED BY <1>5, <4>1
    <3> QED BY <1>3, <1>4, <1>5, <2>1, <3>1 DEF IInv, OwnFiles, Stored
  <2> QED BY <2>2, <2>3 DEF OwnFiles
<1>10. ListedFiles'
  BY <1>3, <1>5 DEF IInv, ListedFiles, CompletedIsListed, At, Listed
<1> QED
  BY <1>7, <1>8, <1>9, <1>10

(* CopyObject never removes an object, and replaces a task's only in a *)
(* collision.                                                          *)
LEMMA CopyKeeps ==
    ASSUME IInv, TypeOK', NEW a \in Actors, RenameCopy(a)
    PROVE  ActorLocals' /\ Backed' /\ OwnFiles' /\ ListedFiles'
<1>1. PICK key \in FinalKeys : key[1] = Kind(a) /\ CopyTo(a, key)
  BY DEF RenameCopy
<1>2. UNCHANGED <<part, staged, manifest, completed, raced>> /\ actor[a].pc = "copy"
  BY DEF RenameCopy, At
<1>3. CASE staged[actor[a].stage] = None
  <2>1. Passes(a)
    BY <1>1, <1>2, <1>3 DEF CopyTo, Passes, history
  <2> QED BY <2>1, PassesKeeps
<1>4. CASE staged[actor[a].stage] # None
  <2>1. /\ object' = [object EXCEPT ![key] = staged[actor[a].stage]]
        /\ actor' = [actor EXCEPT ![a].pc = "delete", ![a].key = key]
        /\ collided' = (collided \/ (key[1] = "task" /\ object[key] # None))
    BY <1>1, <1>4 DEF CopyTo
  <2>2. /\ actor'[a].pc = "delete" /\ actor'[a].key = key /\ actor'[a].stage = actor[a].stage
        /\ actor'[a].no = actor[a].no /\ actor'[a].local = actor[a].local
        /\ \A b \in Actors \ {a} : actor'[b] = actor[b]
    BY <2>1 DEF IInv, TypeOK
  <2>3. /\ object'[key] = staged[actor[a].stage]
        /\ \A k \in FinalKeys : k # key => object'[k] = object[k]
    BY <2>1 DEF IInv, TypeOK
  <2>4. \A k \in FinalKeys : object[k] # None => object'[k] # None
    BY <1>4, <2>3
  <2>5. ActorLocals'
    BY <1>1, <1>2, <2>2 DEF IInv, ActorLocals, Stored
  <2>6. Backed'
    <3>1. CatalogueBacked'
      BY <1>2, <2>4 DEF IInv, Backed, CatalogueBacked, TypeOK, Kinds
    <3>2. ASSUME NEW b \in Actors
          PROVE  /\ actor'[b].pc \in Stored => object'[actor'[b].key] # None
                 /\ \A k \in FinalKeys : actor'[b].local[k] # <<>> => object'[k] # None
      BY <1>4, <2>2, <2>3, <2>4 DEF IInv, Backed, ActorLocals
    <3>3. \A c \in completed' : object'[c[2]] # None
      <4>1. \A c \in completed : c[2] \in FinalKeys
        BY DEF IInv, TypeOK
      <4> QED BY <1>2, <2>4, <4>1 DEF IInv, Backed
    <3> QED BY <3>1, <3>2, <3>3 DEF Backed
  <2>7. OwnFiles'
    <3> SUFFICES ASSUME ~collided' PROVE OwnFiles'
      BY DEF OwnFiles
    <3>1. ~collided /\ (key[1] = "task" => object[key] = None)
      BY <2>1, Zenon
    <3>2. \A k \in FinalKeys : k[1] = "task" /\ object[k] # None => object'[k] = object[k]
      BY <2>3, <3>1
    <3>3. \A b \in Workers : Kind(b) = "task" /\ b \in Actors
      BY DEF Kind, Actors
    <3>4. ASSUME NEW m \in Manifests, OwnBytes(m, object),
                 \A k \in FinalKeys : m[k] # <<>> => object[k] # None
          PROVE  OwnBytes(m, object')
      <4> SUFFICES ASSUME NEW s \in Stamps, NEW i \in DOMAIN m[<<"task", s>>]
                   PROVE  m[<<"task", s>>][i] = object'[<<"task", s>>]
        BY DEF OwnBytes
      <4>1. <<"task", s>> \in FinalKeys /\ m[<<"task", s>>] # <<>>
        BY DEF FinalKeys
      <4>2. object'[<<"task", s>>] = object[<<"task", s>>]
        BY <3>2, <3>4, <4>1
      <4> QED BY <3>4, <4>2 DEF OwnBytes
    <3>5. CompletedIsStored'
      <4>1. OwnBytes(manifest, object)
        BY <3>1 DEF IInv, OwnFiles, CompletedIsStored, OwnBytes
      <4>2. manifest \in Manifests /\ \A k \in FinalKeys : manifest[k] # <<>> => object[k] # None
        BY DEF IInv, TypeOK, Backed, CatalogueBacked
      <4>3. OwnBytes(manifest', object')
        BY <1>2, <3>4, <4>1, <4>2
      <4>4. ASSUME NEW c \in completed, c[2][1] = "task" PROVE object'[c[2]] = c[1]
        <5>1. c[2] \in FinalKeys /\ object[c[2]] # None /\ object[c[2]] = c[1]
          BY <3>1, <4>4 DEF IInv, TypeOK, Backed, OwnFiles, CompletedIsStored
        <5> QED BY <3>2, <4>4, <5>1
      <4> QED BY <1>2, <4>3, <4>4 DEF CompletedIsStored, OwnBytes
    <3>6. ASSUME NEW b \in Actors
          PROVE  actor'[b].pc \in {"copy", "delete"} => staged'[actor'[b].stage] \in {None, actor'[b].no}
      BY <1>2, <2>2, <3>1 DEF IInv, OwnFiles
    <3>7. ASSUME NEW b \in Actors, actor'[b].pc \in Stored, b \in Workers
          PROVE  object'[actor'[b].key] = actor'[b].no
      <4>1. CASE b = a
        <5>1. staged[actor[a].stage] = actor[a].no
          BY <1>2, <1>4, <3>1 DEF IInv, OwnFiles
        <5> QED BY <2>2, <2>3, <4>1, <5>1
      <4>2. CASE b # a
        <5>1. /\ actor[b].pc \in Stored /\ actor[b].key \in FinalKeys /\ actor[b].key[1] = "task"
              /\ object[actor[b].key] # None /\ object[actor[b].key] = actor[b].no
          BY <2>2, <3>1, <3>3, <3>7, <4>2 DEF IInv, ActorLocals, Backed, OwnFiles
        <5> QED BY <2>2, <3>2, <4>2, <5>1
      <4> QED BY <4>1, <4>2
    <3>8. ASSUME NEW b \in Actors PROVE OwnBytes(actor'[b].local, object')
      <4>1. actor[b].local \in Manifests /\ OwnBytes(actor[b].local, object)
        BY <3>1 DEF IInv, TypeOK, OwnFiles
      <4>2. \A k \in FinalKeys : actor[b].local[k] # <<>> => object[k] # None
        BY DEF IInv, Backed
      <4>3. actor'[b].local = actor[b].local
        BY <2>2
      <4> QED BY <3>4, <4>1, <4>2, <4>3
    <3> QED BY <3>5, <3>6, <3>7, <3>8 DEF OwnFiles
  <2>8. ListedFiles'
    BY <1>2, <2>2 DEF IInv, ListedFiles, CompletedIsListed, At, Listed
  <2> QED BY <2>5, <2>6, <2>7, <2>8
<1> QED
  BY <1>3, <1>4

(* Rename's DeleteObject removes only the staging object. *)
LEMMA DeleteKeeps ==
    ASSUME IInv, NEW a \in Actors, RenameDelete(a)
    PROVE  ActorLocals' /\ Backed' /\ OwnFiles' /\ ListedFiles'
<1>1. /\ actor[a].pc = "delete" /\ actor'[a].pc = "read"
      /\ actor'[a].no = actor[a].no /\ actor'[a].key = actor[a].key /\ actor'[a].local = actor[a].local
      /\ \A b \in Actors \ {a} : actor'[b] = actor[b]
  BY DEF RenameDelete, At, IInv, TypeOK
<1>2. UNCHANGED <<part, object, manifest, completed, collided, raced>>
  BY DEF RenameDelete, history
<1>3. \A k \in StagingKeys : staged'[k] \in {None, staged[k]}
  BY DEF RenameDelete, IInv, TypeOK
<1>4. ActorLocals'
  BY <1>1 DEF IInv, ActorLocals, Stored
<1>5. Backed'
  BY <1>1, <1>2 DEF IInv, Backed, CatalogueBacked, Stored
<1>6. OwnFiles'
  <2> SUFFICES ASSUME ~collided' PROVE OwnFiles'
    BY DEF OwnFiles
  <2>1. CompletedIsStored'
    BY <1>2 DEF IInv, OwnFiles, CompletedIsStored
  <2>2. ASSUME NEW b \in Actors
        PROVE  /\ actor'[b].pc \in {"copy", "delete"} => staged'[actor'[b].stage] \in {None, actor'[b].no}
               /\ actor'[b].pc \in Stored /\ b \in Workers => object'[actor'[b].key] = actor'[b].no
               /\ OwnBytes(actor'[b].local, object')
    <3>1. /\ actor[b].pc \in {"copy", "delete"} => /\ actor[b].stage \in StagingKeys
                                                   /\ staged[actor[b].stage] \in {None, actor[b].no}
          /\ actor[b].pc \in Stored /\ b \in Workers => object[actor[b].key] = actor[b].no
          /\ OwnBytes(actor[b].local, object)
      BY <1>2 DEF IInv, OwnFiles, ActorLocals
    <3> QED BY <1>1, <1>2, <1>3, <3>1 DEF Stored
  <2> QED BY <2>1, <2>2 DEF OwnFiles
<1>7. ListedFiles'
  BY <1>1, <1>2 DEF IInv, ListedFiles, CompletedIsListed, At, Listed
<1> QED
  BY <1>4, <1>5, <1>6, <1>7

(* The clean-up of a starting process removes only staging objects. *)
LEMMA CleanupKeeps ==
    ASSUME IInv, DeleteStaging
    PROVE  ActorLocals' /\ Backed' /\ OwnFiles' /\ ListedFiles'
<1>1. UNCHANGED <<part, object, manifest, actor, completed, collided, raced>>
  BY DEF DeleteStaging, history
<1>2. \A k \in StagingKeys : staged'[k] \in {None, staged[k]}
  BY DEF DeleteStaging
<1>3. ActorLocals'
  BY <1>1 DEF IInv, ActorLocals
<1>4. Backed'
  BY <1>1 DEF IInv, Backed, CatalogueBacked
<1>5. OwnFiles'
  <2> SUFFICES ASSUME ~collided' PROVE OwnFiles'
    BY DEF OwnFiles
  <2>1. CompletedIsStored'
    BY <1>1 DEF IInv, OwnFiles, CompletedIsStored
  <2>2. ASSUME NEW b \in Actors
        PROVE  /\ actor'[b].pc \in {"copy", "delete"} => staged'[actor'[b].stage] \in {None, actor'[b].no}
               /\ actor'[b].pc \in Stored /\ b \in Workers => object'[actor'[b].key] = actor'[b].no
               /\ OwnBytes(actor'[b].local, object')
    BY <1>1, <1>2 DEF IInv, OwnFiles, ActorLocals
  <2> QED BY <2>1, <2>2 DEF OwnFiles
<1>6. ListedFiles'
  BY <1>1 DEF IInv, ListedFiles, CompletedIsListed, At
<1> QED
  BY <1>3, <1>4, <1>5, <1>6

(* Reading the manifest takes a copy of it, or counts as a failed call. *)
LEMMA ReadKeeps ==
    ASSUME IInv, NEW a \in Actors, ReadManifest(a)
    PROVE  ActorLocals' /\ Backed' /\ OwnFiles' /\ ListedFiles'
<1>0. TypeOK
  BY DEF IInv
<1>1. UNCHANGED <<part, staged, object, manifest, completed, collided>> /\ actor[a].pc = "read"
  BY DEF ReadManifest, store, At
<1>2. /\ actor'[a].pc = "write" /\ actor'[a].no = actor[a].no
      /\ actor'[a].key = actor[a].key
      /\ actor'[a].local = manifest \/ (actor'[a].local = actor[a].local /\ raced')
      /\ \A b \in Actors \ {a} : actor'[b] = actor[b]
  <2>1. CASE actor' = [actor EXCEPT ![a].pc = "write", ![a].local = manifest]
    BY <1>0, <2>1 DEF TypeOK
  <2>2. CASE GoTo(a, "write") /\ raced'
    BY <1>0, <2>2, ActorMoves
  <2> QED BY <2>1, <2>2, Zenon DEF ReadManifest
<1>3. ~raced' => ~raced
  BY Zenon DEF ReadManifest
<1>4. ActorLocals'
  BY <1>1, <1>2 DEF IInv, ActorLocals, Stored
<1>5. Backed'
  <2>1. CatalogueBacked'
    BY <1>1 DEF IInv, Backed, CatalogueBacked
  <2>2. ASSUME NEW b \in Actors
        PROVE  /\ actor'[b].pc \in Stored => object'[actor'[b].key] # None
               /\ \A k \in FinalKeys : actor'[b].local[k] # <<>> => object'[k] # None
    BY <1>1, <1>2 DEF IInv, Backed, CatalogueBacked, Stored
  <2> QED BY <1>1, <2>1, <2>2 DEF IInv, Backed
<1>6. OwnFiles'
  <2> SUFFICES ASSUME ~collided' PROVE OwnFiles'
    BY DEF OwnFiles
  <2>1. CompletedIsStored'
    BY <1>1 DEF IInv, OwnFiles, CompletedIsStored
  <2>2. OwnBytes(manifest, object)
    BY <1>1 DEF IInv, OwnFiles, CompletedIsStored, OwnBytes
  <2>3. ASSUME NEW b \in Actors
        PROVE  /\ actor'[b].pc \in {"copy", "delete"} => staged'[actor'[b].stage] \in {None, actor'[b].no}
               /\ actor'[b].pc \in Stored /\ b \in Workers => object'[actor'[b].key] = actor'[b].no
               /\ OwnBytes(actor'[b].local, object')
    BY <1>1, <1>2, <2>2 DEF IInv, OwnFiles, Stored
  <2> QED BY <2>1, <2>3 DEF OwnFiles
<1>7. ListedFiles'
  <2> SUFFICES ASSUME ~raced' PROVE ListedFiles'
    BY DEF ListedFiles
  <2>1. CompletedIsListed'
    BY <1>1, <1>3 DEF IInv, ListedFiles, CompletedIsListed
  <2>2. ASSUME NEW b \in Actors
        PROVE  /\ actor'[b].pc = "write" => actor'[b].local = manifest'
               /\ actor'[b].pc \in Listed => manifest'[actor'[b].key] # <<>>
    BY <1>1, <1>2, <1>3 DEF IInv, ListedFiles, At, Listed
  <2> QED BY <2>1, <2>2 DEF ListedFiles, At
<1> QED
  BY <1>4, <1>5, <1>6, <1>7

(* Writing it back keeps what the copy listed and adds the export's own file. *)
LEMMA WriteKeeps ==
    ASSUME IInv, NEW a \in Actors, WriteManifest(a)
    PROVE  ActorLocals' /\ Backed' /\ OwnFiles' /\ ListedFiles'
<1> DEFINE old == actor[a].local
           key == actor[a].key
           no  == actor[a].no
           new == WithFile(old, key, no)
<1>1. UNCHANGED <<part, staged, object, completed, collided>> /\ actor[a].pc = "write"
  BY DEF WriteManifest, At
<1>2. /\ actor'[a].pc = "select" /\ actor'[a].no = no
      /\ actor'[a].key = key /\ actor'[a].local = NoManifest
      /\ \A b \in Actors \ {a} : actor'[b] = actor[b]
  BY DEF WriteManifest, IInv, TypeOK
<1>3. /\ old \in Manifests /\ no \in Exports
      /\ key \in FinalKeys /\ key[1] = Kind(a) /\ object[key] # None
      /\ \A k \in FinalKeys : old[k] # <<>> => object[k] # None
  BY <1>1 DEF IInv, TypeOK, ActorLocals, Backed, Stored
<1>4. manifest' = new \/ (manifest' = manifest /\ raced')
  BY Zenon DEF WriteManifest
<1>5. ~raced' => ~raced /\ manifest' = new /\ \A b \in Actors \ {a} : actor[b].pc # "write"
  BY Zenon DEF WriteManifest, At
<1> HIDE DEF new
<1>6. \A k \in FinalKeys :
         /\ new[k] # <<>> <=> old[k] # <<>> \/ k = key
         /\ \A i \in DOMAIN new[k] :
               (old[k] # <<>> /\ new[k][i] = old[k][1]) \/ (k = key /\ new[k][i] = no)
  BY <1>3, WithFileFacts DEF new
<1> HIDE DEF old, key, no
<1>7. \A k \in FinalKeys : NoManifest[k] = <<>>
  BY DEF NoManifest
<1>8. \A s \in Stamps : <<"task", s>> \in FinalKeys
  BY DEF FinalKeys
<1>9. ActorLocals'
  BY <1>1, <1>2, <1>3 DEF IInv, ActorLocals, Stored
<1>10. Backed'
  <2>1. \A k \in FinalKeys : manifest'[k] # <<>> => object'[k] # None
    BY <1>1, <1>3, <1>4, <1>6 DEF IInv, Backed, CatalogueBacked
  <2>2. CatalogueBacked'
    BY <1>1, <2>1 DEF IInv, Backed, CatalogueBacked
  <2>3. ASSUME NEW b \in Actors
        PROVE  /\ actor'[b].pc \in Stored => object'[actor'[b].key] # None
               /\ \A k \in FinalKeys : actor'[b].local[k] # <<>> => object'[k] # None
    BY <1>1, <1>2, <1>3, <1>7 DEF IInv, Backed
  <2> QED BY <1>1, <2>2, <2>3 DEF IInv, Backed
<1>11. OwnFiles'
  <2> SUFFICES ASSUME ~collided' PROVE OwnFiles'
    BY DEF OwnFiles
  <2>1. OwnBytes(old, object) /\ OwnBytes(manifest, object)
    BY <1>1 DEF IInv, OwnFiles, CompletedIsStored, OwnBytes, old
  <2>2. OwnBytes(new, object)
    <3> SUFFICES ASSUME NEW s \in Stamps, NEW i \in DOMAIN new[<<"task", s>>]
                 PROVE  new[<<"task", s>>][i] = object[<<"task", s>>]
      BY DEF OwnBytes
    <3>1. CASE old[<<"task", s>>] # <<>> /\ new[<<"task", s>>][i] = old[<<"task", s>>][1]
      <4>1. old[<<"task", s>>] \in Seq(Exports)
        BY <1>3, <1>8 DEF Manifests
      <4>2. 1 \in DOMAIN old[<<"task", s>>]
        BY <3>1, <4>1
      <4> QED BY <2>1, <3>1, <4>2 DEF OwnBytes
    <3>2. CASE <<"task", s>> = key /\ new[<<"task", s>>][i] = no
      <4>1. key[1] = "task"
        BY <3>2
      <4>2. a \in Workers
        BY <1>3, <4>1 DEF Kind
      <4>3. object[key] = no
        BY <1>1, <4>2 DEF IInv, OwnFiles, Stored, key, no
      <4> QED BY <3>2, <4>3
    <3> QED BY <1>6, <1>8, <3>1, <3>2
  <2>3. OwnBytes(manifest', object')
    BY <1>1, <1>4, <2>1, <2>2
  <2>4. CompletedIsStored'
    BY <1>1, <2>3 DEF IInv, OwnFiles, CompletedIsStored, OwnBytes
  <2>5. OwnBytes(NoManifest, object')
    BY <1>7, <1>8 DEF OwnBytes
  <2>6. ASSUME NEW b \in Actors
        PROVE  /\ actor'[b].pc \in {"copy", "delete"} => staged'[actor'[b].stage] \in {None, actor'[b].no}
               /\ actor'[b].pc \in Stored /\ b \in Workers => object'[actor'[b].key] = actor'[b].no
               /\ OwnBytes(actor'[b].local, object')
    BY <1>1, <1>2, <2>5 DEF IInv, OwnFiles, Stored, key, no
  <2> QED BY <2>4, <2>6 DEF OwnFiles
<1>12. ListedFiles'
  <2> SUFFICES ASSUME ~raced' PROVE ListedFiles'
    BY DEF ListedFiles
  <2>1. ~raced /\ manifest' = new /\ \A b \in Actors \ {a} : actor[b].pc # "write"
    BY <1>5
  <2>2. old = manifest
    BY <1>1, <2>1 DEF IInv, ListedFiles, At, old
  <2>3. \A k \in FinalKeys : manifest[k] # <<>> => manifest'[k] # <<>>
    BY <1>6, <2>1, <2>2
  <2>4. \A c \in completed : c[2] \in FinalKeys
    BY DEF IInv, TypeOK
  <2>5. CompletedIsListed'
    BY <1>1, <2>1, <2>3, <2>4 DEF IInv, ListedFiles, CompletedIsListed
  <2>6. ASSUME NEW b \in Actors
        PROVE  /\ actor'[b].pc # "write"
               /\ actor'[b].pc \in Listed => manifest'[actor'[b].key] # <<>>
    <3>1. CASE b = a
      BY <1>2, <1>3, <1>6, <2>1, <3>1
    <3>2. CASE b # a
      <4>1. actor[b].pc \in Listed => actor[b].key \in FinalKeys /\ manifest[actor[b].key] # <<>>
        BY <2>1 DEF IInv, ListedFiles, ActorLocals, Listed, Stored
      <4> QED BY <1>2, <2>1, <2>3, <3>2, <4>1
    <3> QED BY <3>1, <3>2
  <2> QED BY <2>5, <2>6 DEF ListedFiles, At
<1> QED
  BY <1>9, <1>10, <1>11, <1>12

(* UpdatePartitionSync records the key of a copied file. *)
LEMMA UpdateKeeps ==
    ASSUME IInv, NEW a \in Actors, UpdatePartition(a)
    PROVE  ActorLocals' /\ Backed' /\ OwnFiles' /\ ListedFiles'
<1>0. TypeOK
  BY DEF IInv
<1>1. UNCHANGED <<staged, object, manifest, completed, collided, raced>> /\ actor[a].pc = "update"
  BY DEF UpdatePartition, history, At
<1>2. /\ actor'[a].pc = "finish" /\ actor'[a].no = actor[a].no
      /\ actor'[a].key = actor[a].key /\ actor'[a].local = actor[a].local
      /\ \A b \in Actors \ {a} : actor'[b] = actor[b]
  BY <1>0, ActorMoves DEF UpdatePartition
<1>3. \A k \in Kinds : part'[k].path = part[k].path \/ part'[k].path = actor[a].key
  BY <1>0 DEF UpdatePartition, TypeOK
<1>4. object[actor[a].key] # None
  BY <1>1 DEF IInv, Backed, Stored
<1>5. ActorLocals'
  BY <1>1, <1>2 DEF IInv, ActorLocals, Stored
<1>6. Backed'
  <2>1. CatalogueBacked'
    BY <1>1, <1>3, <1>4 DEF IInv, Backed, CatalogueBacked
  <2> QED BY <1>1, <1>2, <1>4, <2>1 DEF IInv, Backed
<1>7. OwnFiles'
  <2> SUFFICES ASSUME ~collided' PROVE OwnFiles'
    BY DEF OwnFiles
  <2>1. CompletedIsStored'
    BY <1>1 DEF IInv, OwnFiles, CompletedIsStored
  <2>2. ASSUME NEW b \in Actors
        PROVE  /\ actor'[b].pc \in {"copy", "delete"} => staged'[actor'[b].stage] \in {None, actor'[b].no}
               /\ actor'[b].pc \in Stored /\ b \in Workers => object'[actor'[b].key] = actor'[b].no
               /\ OwnBytes(actor'[b].local, object')
    BY <1>1, <1>2 DEF IInv, OwnFiles, Stored
  <2> QED BY <2>1, <2>2 DEF OwnFiles
<1>8. ListedFiles'
  BY <1>1, <1>2 DEF IInv, ListedFiles, CompletedIsListed, At, Listed
<1> QED
  BY <1>5, <1>6, <1>7, <1>8

(* An export completes with a file that is stored and listed. *)
LEMMA FinishKeeps ==
    ASSUME IInv, NEW a \in Actors, Finish(a)
    PROVE  ActorLocals' /\ Backed' /\ OwnFiles' /\ ListedFiles'
<1> DEFINE done == <<actor[a].no, actor[a].key>>
<1>0. TypeOK
  BY DEF IInv
<1>1. UNCHANGED <<part, staged, object, manifest, collided, raced>> /\ actor[a].pc = "finish"
  BY DEF Finish, store, At
<1>2. completed' = completed \cup {done} \/ completed' = completed
  BY DEF Finish
<1>3. \A b \in Actors : actor'[b] = actor[b] \/ (actor'[b].pc = "off" /\ actor'[b].local = NoManifest)
  BY <1>0, ActorMoves DEF Finish
<1>4. /\ done[1] = actor[a].no /\ done[2] = actor[a].key
      /\ actor[a].key[1] = Kind(a) /\ object[actor[a].key] # None
      /\ ~raced => manifest[actor[a].key] # <<>>
      /\ ~collided /\ a \in Workers => object[actor[a].key] = actor[a].no
  BY <1>1 DEF IInv, ActorLocals, Backed, OwnFiles, ListedFiles, Stored, Listed
<1> HIDE DEF done
<1>5. \A k \in FinalKeys : NoManifest[k] = <<>>
  BY DEF NoManifest
<1>6. \A s \in Stamps : <<"task", s>> \in FinalKeys
  BY DEF FinalKeys
<1>7. ActorLocals'
  BY <1>3 DEF IInv, ActorLocals, Stored
<1>8. Backed'
  <2>1. CatalogueBacked'
    BY <1>1 DEF IInv, Backed, CatalogueBacked
  <2>2. ASSUME NEW b \in Actors
        PROVE  /\ actor'[b].pc \in Stored => object'[actor'[b].key] # None
               /\ \A k \in FinalKeys : actor'[b].local[k] # <<>> => object'[k] # None
    BY <1>1, <1>3, <1>5 DEF IInv, Backed, Stored
  <2>3. \A c \in completed' : object'[c[2]] # None
    BY <1>1, <1>2, <1>4 DEF IInv, Backed
  <2> QED BY <2>1, <2>2, <2>3 DEF Backed
<1>9. OwnFiles'
  <2> SUFFICES ASSUME ~collided' PROVE OwnFiles'
    BY DEF OwnFiles
  <2>1. \A c \in completed' : c[2][1] = "task" => object'[c[2]] = c[1]
    <3>1. done[2][1] = "task" => a \in Workers
      BY <1>4 DEF Kind
    <3>2. done[2][1] = "task" => object[done[2]] = done[1]
      BY <1>1, <1>4, <3>1
    <3>3. \A c \in completed : c[2][1] = "task" => object[c[2]] = c[1]
      BY <1>1 DEF IInv, OwnFiles, CompletedIsStored
    <3> QED BY <1>1, <1>2, <3>2, <3>3
  <2>2. CompletedIsStored'
    BY <1>1, <2>1 DEF IInv, OwnFiles, CompletedIsStored
  <2>3. OwnBytes(NoManifest, object')
    BY <1>5, <1>6 DEF OwnBytes
  <2>4. ASSUME NEW b \in Actors
        PROVE  /\ actor'[b].pc \in {"copy", "delete"} => staged'[actor'[b].stage] \in {None, actor'[b].no}
               /\ actor'[b].pc \in Stored /\ b \in Workers => object'[actor'[b].key] = actor'[b].no
               /\ OwnBytes(actor'[b].local, object')
    BY <1>1, <1>3, <2>3 DEF IInv, OwnFiles, Stored
  <2> QED BY <2>2, <2>4 DEF OwnFiles
<1>10. ListedFiles'
  <2> SUFFICES ASSUME ~raced' PROVE ListedFiles'
    BY DEF ListedFiles
  <2>1. CompletedIsListed'
    BY <1>1, <1>2, <1>4 DEF IInv, ListedFiles, CompletedIsListed
  <2>2. ASSUME NEW b \in Actors
        PROVE  /\ actor'[b].pc = "write" => actor'[b].local = manifest'
               /\ actor'[b].pc \in Listed => manifest'[actor'[b].key] # <<>>
    BY <1>1, <1>3 DEF IInv, ListedFiles, At, Listed
  <2> QED BY <2>1, <2>2 DEF ListedFiles, At
<1> QED
  BY <1>7, <1>8, <1>9, <1>10

-----------------------------------------------------------------------------
(* Every step of every actor keeps the invariant. *)
THEOREM ExportInvariant == Spec => []IInv
<1>1. Init => IInv
  <2> SUFFICES ASSUME Init PROVE IInv
    OBVIOUS
  <2>1. /\ NoManifest \in Manifests /\ \A k \in FinalKeys : NoManifest[k] = <<>>
        /\ Idle \in ActorState
    BY DEF NoManifest, Manifests, Idle, ActorState, Steps
  <2>2. \A a \in Actors : actor[a].pc = "off" /\ actor[a].local = NoManifest
    BY DEF Init, Idle
  <2>3. \A s \in Stamps : <<"task", s>> \in FinalKeys
    BY DEF FinalKeys
  <2>4. TypeOK
    <3>1. actor \in [Actors -> ActorState]
      BY <2>1 DEF Init
    <3>2. manifest \in Manifests /\ \A k \in FinalKeys : Len(manifest[k]) <= 2
      BY <2>1 DEF Init
    <3>3. /\ part \in [Kinds -> [exists: BOOLEAN, path: FinalKeys \cup {None}]]
          /\ staged \in [StagingKeys -> Content] /\ object \in [FinalKeys -> Content]
      BY DEF Init, Content
    <3>4. versioned \in BOOLEAN /\ collided \in BOOLEAN /\ raced \in BOOLEAN
      BY Zenon DEF Init
    <3>5. /\ exports \in 0..MaxExports /\ completed \subseteq Exports \X FinalKeys
          /\ faults \in 0..MaxFaults /\ crashes \in 0..MaxCrashes
      BY DEF Init
    <3> QED BY <3>1, <3>2, <3>3, <3>4, <3>5, Zenon DEF TypeOK, ActorState
  <2>5. ActorLocals
    BY <2>2 DEF ActorLocals, Stored
  <2>6. Backed
    BY <2>1, <2>2 DEF Init, Backed, CatalogueBacked, Stored
  <2>7. OwnFiles
    BY <2>1, <2>2, <2>3 DEF Init, OwnFiles, CompletedIsStored, OwnBytes, Stored
  <2>8. ListedFiles
    BY <2>2 DEF Init, ListedFiles, CompletedIsListed, At, Listed
  <2> QED BY <2>4, <2>5, <2>6, <2>7, <2>8 DEF IInv
<1>2. IInv /\ [Next]_vars => IInv'
  <2>1. ASSUME IInv, Next PROVE IInv'
    <3>1. TypeOK'
      BY <2>1, TypeStep DEF IInv
    <3>2. ASSUME NEW a \in Actors, Step(a) \/ Crash(a)
          PROVE  ActorLocals' /\ Backed' /\ OwnFiles' /\ ListedFiles'
      <4>1. CASE \/ Start(a) \/ ReadVersion(a) \/ RecordVersion(a) \/ Check(a) \/ ExportFails(a)
                 \/ SelectPartition(a) \/ CreatePartition(a) \/ Crash(a)
        BY <2>1, <3>1, <4>1, PassingActions, PassesKeeps DEF IInv
      <4>2. CASE Upload(a)
        BY <2>1, <4>2, UploadKeeps
      <4>3. CASE RenameCopy(a)
        BY <2>1, <3>1, <4>3, CopyKeeps
      <4>4. CASE RenameDelete(a)
        BY <2>1, <4>4, DeleteKeeps
      <4>5. CASE ReadManifest(a)
        BY <2>1, <4>5, ReadKeeps
      <4>6. CASE WriteManifest(a)
        BY <2>1, <4>6, WriteKeeps
      <4>7. CASE UpdatePartition(a)
        BY <2>1, <4>7, UpdateKeeps
      <4>8. CASE Finish(a)
        BY <2>1, <4>8, FinishKeeps
      <4> QED BY <3>2, <4>1, <4>2, <4>3, <4>4, <4>5, <4>6, <4>7, <4>8 DEF Step
    <3>3. CASE DeleteStaging
      BY <2>1, <3>1, <3>3, CleanupKeeps DEF IInv
    <3> QED BY <2>1, <3>1, <3>2, <3>3 DEF Next, IInv
  <2>2. ASSUME IInv, UNCHANGED vars PROVE IInv'
    <3>1. UNCHANGED <<versioned, part, staged, object, manifest, actor, exports, completed,
                      collided, raced, faults, crashes>>
      BY <2>2 DEF vars, store, history
    <3>2. TypeOK'
      BY <2>2, <3>1 DEF IInv, TypeOK
    <3>3. ActorLocals' /\ Backed'
      BY <2>2, <3>1 DEF IInv, ActorLocals, Backed, CatalogueBacked
    <3>4. OwnFiles' /\ ListedFiles'
      BY <2>2, <3>1 DEF IInv, OwnFiles, CompletedIsStored, ListedFiles, CompletedIsListed, At
    <3> QED BY <3>2, <3>3, <3>4 DEF IInv
  <2> QED BY <2>1, <2>2
<1> QED
  BY <1>1, <1>2, PTL DEF Spec

(* The types hold in every reachable state, and no path ever has more than an *)
(* old and a new entry in _manifest.json.                                     *)
THEOREM TypeCorrect == Spec => []TypeOK
<1>1. IInv => TypeOK
  BY DEF IInv
<1> QED
  BY <1>1, ExportInvariant, PTL

(* Whatever partitions.exported_path and _manifest.json name is in the object *)
(* store, for any number of overlapping exports, failures, kills and          *)
(* clean-ups.                                                                 *)
THEOREM CatalogueIsBacked == Spec => []CatalogueBacked
<1>1. IInv => CatalogueBacked
  BY DEF IInv, Backed
<1> QED
  BY <1>1, ExportInvariant, PTL

(* Unless the clock gave two exports one key, the file of a completed task    *)
(* holds the bytes that task uploaded, and the manifest has their hash.       *)
THEOREM CompletedTaskKeepsItsFile == Spec => []CompletedIsStored
<1>1. IInv => CompletedIsStored
  BY DEF IInv, OwnFiles, CompletedIsStored
<1> QED
  BY <1>1, ExportInvariant, PTL

(* An entry of the manifest is lost only when two of its read-modify-write    *)
(* cycles overlap or a call on it fails.                                      *)
THEOREM ManifestLosesOnlyInRaces == Spec => []CompletedIsListed
<1>1. IInv => CompletedIsListed
  BY DEF IInv, ListedFiles, CompletedIsListed
<1> QED
  BY <1>1, ExportInvariant, PTL
=============================================================================
