------------------------ MODULE TaskLifecycleProofs ------------------------
(***************************************************************************)
(* Proofs about TaskLifecycle, for every number of workers, tasks, runs    *)
(* and faults, every lease and staleness length, any sharing of worker     *)
(* ids, and with or without overlap.                                       *)
(*                                                                         *)
(* The inductive invariant IInv is TypeOK /\ GenerationsFenced and two     *)
(* small facts.  GenerationsFenced is needed for TerminalStable because    *)
(* UpdateTaskState and RenewLease test only the generation: a settled task *)
(* is safe exactly because nobody carries its current generation any more. *)
(***************************************************************************)
EXTENDS TaskLifecycle, TLAPS

USE CountsAssumption, TimesAssumption

-----------------------------------------------------------------------------
(***************************************************************************)
(* What the statements do to the tables.                                   *)
(***************************************************************************)

(* The rows the store's UPDATEs write are rows. *)
LEMMA RowEdits ==
    ASSUME NEW r \in TaskRow, NEW s \in TaskStates, NEW id \in Ids, NEW n \in Nat,
           NEW l \in 0..LeaseTTL
    PROVE  /\ [r EXCEPT !.state = s, !.wid = id, !.lease = l, !.gen = n] \in TaskRow
           /\ [r EXCEPT !.state = s, !.gen = n, !.lease = l] \in TaskRow
           /\ [r EXCEPT !.lease = l, !.gen = n] \in TaskRow
           /\ [r EXCEPT !.state = s, !.wid = None] \in TaskRow
           /\ [r EXCEPT !.state = s] \in TaskRow
           /\ [r EXCEPT !.lease = l] \in TaskRow
  BY DEF TaskRow

(* Replacing one row of the table tasks leaves a table. *)
LEMMA PutRow ==
    ASSUME NEW f \in [Tasks -> TaskRow], NEW t, NEW r \in TaskRow
    PROVE  [f EXCEPT ![t] = r] \in [Tasks -> TaskRow]
  BY Zenon

(* Every statement of the store leaves well-formed tables. *)
LEMMA StatementTypes ==
    ASSUME TypeOK
    PROVE  /\ \A stale \in SUBSET Runs : AbortStaleRuns(stale) \in [Runs -> RunRow]
           /\ \A stale \in SUBSET Runs : CleanupStaleTasks(stale) \in [Tasks -> TaskRow]
           /\ \A r \in Runs : BeginRun(r) \in [Runs -> RunRow]
           /\ \A r \in Runs \cup {0}, s \in RunStates : CompleteRun(r, s) \in [Runs -> RunRow]
           /\ \A t \in Tasks, r \in Runs \cup {0}, tb \in Tables \cup {None} :
                 CreateTasks(t, r, tb) \in [Tasks -> TaskRow]
           /\ \A t \in Tasks, id \in Ids : ClaimUpdate(t, id) \in [Tasks -> TaskRow]
           /\ \A t \in Tasks : LeaseWritten(t) \in [Tasks -> SUBSET Tasks]
           /\ \A t \in Tasks, s \in TaskStates, g \in Nat :
                 UpdateTaskState(t, s, g) \in [Tasks -> TaskRow]
           /\ \A t \in Tasks, g \in Nat : RenewLease(t, g) \in [Tasks -> TaskRow]
           /\ ResetExpiredLeases \in [Tasks -> TaskRow]
           /\ \A tb : Uploaded(tb) \in [Tasks -> BOOLEAN]
<1>1. \A stale \in SUBSET Runs : AbortStaleRuns(stale) \in [Runs -> RunRow]
  BY DEF AbortStaleRuns, TypeOK, RunRow, RunStates
<1>2. \A stale \in SUBSET Runs : CleanupStaleTasks(stale) \in [Tasks -> TaskRow]
  BY DEF CleanupStaleTasks, TypeOK, TaskRow, TaskStates
<1>3. \A r \in Runs : BeginRun(r) \in [Runs -> RunRow]
  BY DEF BeginRun, TypeOK, RunRow, RunStates
<1>4. \A r \in Runs \cup {0}, s \in RunStates : CompleteRun(r, s) \in [Runs -> RunRow]
  <2> SUFFICES ASSUME NEW r \in Runs \cup {0}, NEW s \in RunStates
               PROVE  CompleteRun(r, s) \in [Runs -> RunRow]
    OBVIOUS
  <2>1. [state |-> s, age |-> 0] \in RunRow
    BY DEF RunRow
  <2> QED
    BY <2>1, Zenon DEF CompleteRun, TypeOK
<1>5. \A t \in Tasks, r \in Runs \cup {0}, tb \in Tables \cup {None} :
         CreateTasks(t, r, tb) \in [Tasks -> TaskRow]
  <2> SUFFICES ASSUME NEW t \in Tasks, NEW r \in Runs \cup {0}, NEW tb \in Tables \cup {None}
               PROVE  CreateTasks(t, r, tb) \in [Tasks -> TaskRow]
    OBVIOUS
  <2> DEFINE row == [state |-> "pending", run |-> r, table |-> tb, wid |-> None,
                     lease |-> 0, gen |-> 0]
  <2>1. row \in TaskRow
    BY DEF TaskRow, TaskStates
  <2> QED
    BY <2>1, PutRow, Zenon DEF CreateTasks, TypeOK
<1>6. \A t \in Tasks, id \in Ids : ClaimUpdate(t, id) \in [Tasks -> TaskRow]
  <2> SUFFICES ASSUME NEW t \in Tasks, NEW id \in Ids
               PROVE  ClaimUpdate(t, id) \in [Tasks -> TaskRow]
    OBVIOUS
  <2> DEFINE row == [task[t] EXCEPT !.state = "assigned", !.wid = id,
                                    !.lease = LeaseTTL, !.gen = task[t].gen + 1]
  <2>1. task[t] \in TaskRow /\ task[t].gen + 1 \in Nat
    BY DEF TypeOK, TaskRow
  <2>2. row \in TaskRow
    <3>1. "assigned" \in TaskStates /\ LeaseTTL \in 0..LeaseTTL
      BY DEF TaskStates
    <3> QED BY <2>1, <3>1, RowEdits, Zenon
  <2>3. ClaimUpdate(t, id) = [task EXCEPT ![t] = row]
    BY DEF ClaimUpdate, TypeOK
  <2> QED
    BY <2>2, <2>3, PutRow, Zenon DEF TypeOK
<1>7. \A t \in Tasks : LeaseWritten(t) \in [Tasks -> SUBSET Tasks]
  BY DEF LeaseWritten, TypeOK
<1>8. \A t \in Tasks, s \in TaskStates, g \in Nat :
         UpdateTaskState(t, s, g) \in [Tasks -> TaskRow]
  <2> SUFFICES ASSUME NEW t \in Tasks, NEW s \in TaskStates, NEW g \in Nat
               PROVE  UpdateTaskState(t, s, g) \in [Tasks -> TaskRow]
    OBVIOUS
  <2> DEFINE row == [task[t] EXCEPT !.state = s, !.gen = g + 1, !.lease = 0]
  <2>1. task[t] \in TaskRow /\ g + 1 \in Nat /\ 0 \in 0..LeaseTTL /\ CliId \in Ids
    BY DEF TypeOK, Ids
  <2>2. row \in TaskRow
    BY <2>1, RowEdits, Zenon
  <2>3. [task EXCEPT ![t].state = s, ![t].gen = g + 1, ![t].lease = 0] = [task EXCEPT ![t] = row]
    BY DEF TypeOK
  <2> QED
    BY <2>2, <2>3, PutRow, Zenon DEF UpdateTaskState, TypeOK
<1>9. \A t \in Tasks, g \in Nat : RenewLease(t, g) \in [Tasks -> TaskRow]
  <2> SUFFICES ASSUME NEW t \in Tasks, NEW g \in Nat
               PROVE  RenewLease(t, g) \in [Tasks -> TaskRow]
    OBVIOUS
  <2> DEFINE row == [task[t] EXCEPT !.lease = LeaseTTL, !.gen = task[t].gen + 1]
  <2>1. task[t] \in TaskRow /\ task[t].gen + 1 \in Nat /\ LeaseTTL \in 0..LeaseTTL
    BY DEF TypeOK, TaskRow
  <2>2. row \in TaskRow
    BY <2>1, RowEdits, Zenon DEF TaskRow
  <2>3. [task EXCEPT ![t].lease = LeaseTTL, ![t].gen = @ + 1] = [task EXCEPT ![t] = row]
    BY DEF TypeOK
  <2> QED
    BY <2>2, <2>3, PutRow, Zenon DEF RenewLease, TypeOK
<1>10. ResetExpiredLeases \in [Tasks -> TaskRow]
  <2>1. ASSUME NEW t \in Tasks PROVE [task[t] EXCEPT !.state = "pending", !.wid = None] \in TaskRow
    <3>1. /\ task[t] \in TaskRow /\ "pending" \in TaskStates /\ CliId \in Ids
          /\ 0 \in Nat /\ 0 \in 0..LeaseTTL
      BY DEF TypeOK, TaskStates, Ids
    <3> QED BY <3>1, RowEdits, Zenon
  <2>2. \A t \in Tasks : task[t] \in TaskRow
    BY DEF TypeOK
  <2> QED BY <2>1, <2>2 DEF ResetExpiredLeases
<1>11. \A tb : Uploaded(tb) \in [Tasks -> BOOLEAN]
  BY DEF Uploaded, TypeOK
<1> QED
  BY <1>1, <1>2, <1>3, <1>4, <1>5, <1>6, <1>7, <1>8, <1>9, <1>10, <1>11

-----------------------------------------------------------------------------
(* The values a process starts, loops and stops with. *)
LEMMA RestingTypes ==
    IdleCo \in CoState /\ OffWk \in WkState /\ LoopWk \in WkState /\ OffCli \in CliState
  BY DEF IdleCo, OffWk, LoopWk, OffCli, CoState, WkState, CliState, CoSteps, WkSteps, CliSteps

(* idleLoops is reset to 0 or stays below the two that end the wait. *)
IdleBelowTwo == co.pc \notin {"stopping", "complete"} => co.idle < 2

(* The initial tables are well formed. *)
LEMMA TypeInit == Init => TypeOK
  BY RestingTypes DEF Init, TypeOK, RunRow, TaskRow, NoTask, RunStates, TaskStates

(* A step either is a fault of the budget or leaves the count alone. *)
LEMMA FaultsCounted ==
    ASSUME Next
    PROVE  Fault \/ UNCHANGED faults
  BY DEF Next, Coordinator, RunOnceOf, SyncTable, RunOnce, CoCleanup, CoBegin, CoBeginFails,
         CoReset, PoolStart, WaitPending, WaitAssigned, WaitCancelled, PoolStopped,
         CoComplete, Cancel, DaemonCrash, WkLoop, WkClaim, WkNoClaim, WkFetch, WkNoFetch,
         WkResolve, WkAbandon, WkExport, WkExportFails, WkFinish, WkReturn, Heartbeat,
         CliStart, CliCleanup, CliBegin, CliCreate, CliClaim, CliFetch, CliError, CliUpload,
         CliUploadFails, CliUpdate, CliComplete, CliCrash, Tick, StatementFails

(* Every action keeps the types; GenerationsFenced says that a worker in the *)
(* middle of a task holds one, IdleBelowTwo that idleLoops can be counted up. *)
LEMMA TypeStep ==
    ASSUME TypeOK, GenerationsFenced, IdleBelowTwo, Next
    PROVE  TypeOK'
<1> USE DEF TypeOK
<1>0. faults' \in 0..MaxFaults
  BY FaultsCounted DEF Fault
<1>1. CASE RunOnce
  <2>1. StaleRuns \in SUBSET Runs
    BY DEF StaleRuns
  <2>2. run' \in [Runs -> RunRow]
    BY <1>1, <2>1, StatementTypes, Zenon DEF RunOnce
  <2>3. co' \in CoState
    <3>1. [IdleCo EXCEPT !.pc = "cleanup", !.stale = StaleRuns] \in CoState
      BY <2>1, RestingTypes DEF CoState, CoSteps
    <3>2. [IdleCo EXCEPT !.pc = "begin"] \in CoState
      BY RestingTypes DEF CoState, CoSteps
    <3> QED
      BY <1>1, <3>1, <3>2, Zenon DEF RunOnce
  <2> QED
    BY <1>0, <1>1, <2>2, <2>3 DEF RunOnce
<1>2. CASE CoCleanup
  BY <1>0, <1>2, StatementTypes, RestingTypes DEF CoCleanup, CoState, CoSteps, RunStates, StaleRuns, InState
<1>3. CASE CoBegin
  <2>1. PICK r \in Runs :
           /\ run' = BeginRun(r)
           /\ co' = [co EXCEPT !.pc = "reset", !.run = r,
                               !.backlog = InState("pending") \cup InState("assigned")]
    BY <1>3 DEF CoBegin
  <2>2. run' \in [Runs -> RunRow]
    BY <2>1, StatementTypes, Zenon
  <2>3. InState("pending") \cup InState("assigned") \in SUBSET Tasks
    BY DEF InState
  <2>4. co' \in CoState
    BY <2>1, <2>3 DEF CoState, CoSteps
  <2> QED
    BY <1>3, <2>2, <2>4 DEF CoBegin
<1>4. CASE CoBeginFails
  BY <1>0, <1>4, StatementTypes, RestingTypes DEF CoBeginFails, CoState, CoSteps, RunStates, StaleRuns, InState
<1>5. CASE CoReset
  BY <1>0, <1>5, StatementTypes, RestingTypes DEF CoReset, CoState, CoSteps, RunStates, StaleRuns, InState
<1>6. CASE PoolStart
  BY <1>0, <1>6, StatementTypes, RestingTypes DEF PoolStart, CoState, CoSteps, RunStates, StaleRuns, InState
<1>7. CASE WaitPending
  BY <1>0, <1>7, StatementTypes, RestingTypes DEF WaitPending, CoState, CoSteps, RunStates, StaleRuns, InState
<1>8. CASE WaitAssigned
  <2>1. PICK quiet : EndRound(quiet)
    BY <1>8 DEF WaitAssigned
  <2> DEFINE idle == IF quiet THEN co.idle + 1 ELSE 0
             pc   == IF idle >= 2 THEN "stopping" ELSE "wait"
  <2>2. co' = [co EXCEPT !.quiet = FALSE, !.idle = idle, !.pc = pc]
    BY <2>1 DEF EndRound
  <2>3. idle \in 0..2
    BY <1>8 DEF WaitAssigned, CoState, IdleBelowTwo
  <2>4. pc \in CoSteps
    BY DEF CoSteps
  <2> HIDE DEF idle, pc
  <2>5. co' \in CoState
    BY <2>2, <2>3, <2>4 DEF CoState
  <2> QED
    BY <1>0, <1>8, <2>5 DEF WaitAssigned
<1>9. CASE WaitCancelled
  BY <1>0, <1>9, StatementTypes, RestingTypes DEF WaitCancelled, CoState, CoSteps, RunStates, StaleRuns, InState
<1>10. CASE PoolStopped
  BY <1>0, <1>10, StatementTypes, RestingTypes DEF PoolStopped, CoState, CoSteps, RunStates, StaleRuns, InState
<1>11. CASE CoComplete
  BY <1>0, <1>11, StatementTypes, RestingTypes DEF CoComplete, CoState, CoSteps, RunStates, StaleRuns, InState
<1>12. CASE Cancel
  <2>1. co' \in CoState
    BY <1>12 DEF Cancel, CoState
  <2> QED
    BY <1>0, <1>12, <2>1 DEF Cancel
<1>13. CASE DaemonCrash
  BY <1>0, <1>13, StatementTypes, RestingTypes DEF DaemonCrash, CoState, CoSteps, RunStates, StaleRuns, InState
<1>14. ASSUME NEW w \in Workers, WkLoop(w) PROVE TypeOK'
  BY <1>0, <1>14, StatementTypes, RestingTypes DEF WkLoop, WkState, WkSteps, TaskStates, GenerationsFenced, Fenced, Holding, Executing, Ids
<1>15. ASSUME NEW w \in Workers, WkClaim(w) PROVE TypeOK'
  <2>1. PICK t \in Tasks : task' = ClaimUpdate(t, WorkerId[w]) /\ older' = LeaseWritten(t)
    BY <1>15 DEF WkClaim
  <2>2. WorkerId[w] \in Ids
    BY DEF Ids
  <2>3. task' \in [Tasks -> TaskRow] /\ older' \in [Tasks -> SUBSET Tasks]
    BY <2>1, <2>2, StatementTypes, Zenon
  <2>4. wk' \in [Workers -> WkState]
    BY <1>15 DEF WkClaim, WkState, WkSteps
  <2> QED
    BY <1>15, <2>3, <2>4 DEF WkClaim
<1>16. ASSUME NEW w \in Workers, WkNoClaim(w) PROVE TypeOK'
  BY <1>0, <1>16, StatementTypes, RestingTypes DEF WkNoClaim, WkState, WkSteps, TaskStates, GenerationsFenced, Fenced, Holding, Executing, Ids
<1>17. ASSUME NEW w \in Workers, WkFetch(w) PROVE TypeOK'
  <2>1. PICK t \in Tasks :
           wk' = [wk EXCEPT ![w] = [LoopWk EXCEPT !.pc = "resolve", !.task = t, !.gen = task[t].gen]]
    BY <1>17 DEF WkFetch
  <2>2. task[t].gen \in Nat
    BY DEF TaskRow
  <2>3. [LoopWk EXCEPT !.pc = "resolve", !.task = t, !.gen = task[t].gen] \in WkState
    BY <2>2, RestingTypes DEF WkState, WkSteps
  <2>4. wk' \in [Workers -> WkState]
    BY <2>1, <2>3, Zenon
  <2> QED
    BY <1>17, <2>4 DEF WkFetch
<1>18. ASSUME NEW w \in Workers, WkNoFetch(w) PROVE TypeOK'
  BY <1>0, <1>18, StatementTypes, RestingTypes DEF WkNoFetch, WkState, WkSteps, TaskStates, GenerationsFenced, Fenced, Holding, Executing, Ids
<1>19. ASSUME NEW w \in Workers, WkResolve(w) PROVE TypeOK'
  <2>1. wk[w].task \in Tasks
    BY <1>19 DEF WkResolve, GenerationsFenced, Fenced, Holding
  <2>2. task[wk[w].task].gen \in Nat
    BY <2>1 DEF TaskRow
  <2>3. wk' \in [Workers -> WkState]
    <3> DEFINE g == task[wk[w].task].gen
    <3>1. g \in Nat /\ wk[w] \in WkState
      BY <2>2
    <3>2. wk' = [wk EXCEPT ![w] = [wk[w] EXCEPT !.pc = "work", !.egen = g]]
      BY <1>19 DEF WkResolve
    <3> HIDE DEF g
    <3>3. [wk[w] EXCEPT !.pc = "work", !.egen = g] \in WkState
      BY <3>1 DEF WkState, WkSteps
    <3> QED
      BY <3>2, <3>3, Zenon
  <2> QED
    BY <1>19, <2>3 DEF WkResolve
<1>20. ASSUME NEW w \in Workers, WkAbandon(w) PROVE TypeOK'
  BY <1>0, <1>20, StatementTypes, RestingTypes DEF WkAbandon, WkState, WkSteps, TaskStates, GenerationsFenced, Fenced, Holding, Executing, Ids
<1>21. ASSUME NEW w \in Workers, WkExport(w) PROVE TypeOK'
  BY <1>0, <1>21, StatementTypes, RestingTypes DEF WkExport, WkState, WkSteps, TaskStates, GenerationsFenced, Fenced, Holding, Executing, Ids
<1>22. ASSUME NEW w \in Workers, WkExportFails(w) PROVE TypeOK'
  BY <1>0, <1>22, StatementTypes, RestingTypes DEF WkExportFails, WkState, WkSteps, TaskStates, GenerationsFenced, Fenced, Holding, Executing, Ids
<1>23. ASSUME NEW w \in Workers, WkFinish(w) PROVE TypeOK'
  <2>1. wk[w].task \in Tasks /\ wk[w].egen \in Nat /\ "completed" \in TaskStates
    BY <1>23 DEF WkFinish, GenerationsFenced, Fenced, Executing, WkState, TaskStates
  <2>2. task' \in [Tasks -> TaskRow]
    <3>1. UpdateTaskState(wk[w].task, "completed", wk[w].egen) \in [Tasks -> TaskRow]
      BY <2>1, StatementTypes, Zenon
    <3> QED
      BY <1>23, <3>1 DEF WkFinish
  <2>3. wk' \in [Workers -> WkState]
    BY <1>23 DEF WkFinish, WkState, WkSteps
  <2> QED
    BY <1>0, <1>23, <2>2, <2>3 DEF WkFinish
<1>24. ASSUME NEW w \in Workers, WkReturn(w) PROVE TypeOK'
  <2> DEFINE s == IF wk[w].pc = "succeeded" THEN "completed" ELSE "failed"
  <2>1. wk[w].task \in Tasks /\ wk[w].gen \in Nat /\ s \in TaskStates
    BY <1>24 DEF WkReturn, GenerationsFenced, Fenced, Holding, WkState, TaskStates
  <2>2. task' \in [Tasks -> TaskRow]
    <3>1. UpdateTaskState(wk[w].task, s, wk[w].gen) \in [Tasks -> TaskRow]
      BY <2>1, StatementTypes, Zenon
    <3> QED
      BY <1>24, <3>1 DEF WkReturn
  <2>3. wk' \in [Workers -> WkState]
    BY <1>24, RestingTypes DEF WkReturn
  <2> QED
    BY <1>0, <1>24, <2>2, <2>3 DEF WkReturn
<1>25. ASSUME NEW w \in Workers, Heartbeat(w) PROVE TypeOK'
  <2>1. wk[w].task \in Tasks /\ wk[w].gen \in Nat
    BY <1>25 DEF Heartbeat, GenerationsFenced, Fenced, WkState
  <2>2. task' \in [Tasks -> TaskRow] /\ older' \in [Tasks -> SUBSET Tasks]
    <3>1. /\ RenewLease(wk[w].task, wk[w].gen) \in [Tasks -> TaskRow]
          /\ LeaseWritten(wk[w].task) \in [Tasks -> SUBSET Tasks]
      BY <2>1, StatementTypes, Zenon
    <3> QED
      BY <1>25, <3>1 DEF Heartbeat
  <2>3. wk' \in [Workers -> WkState]
    <3>1. wk[w] \in WkState
      OBVIOUS
    <3>2. /\ [wk[w] EXCEPT !.due = FALSE] \in WkState
          /\ [wk[w] EXCEPT !.due = FALSE, !.lost = TRUE] \in WkState
      BY <3>1 DEF WkState
    <3>3. \/ wk' = [wk EXCEPT ![w] = [wk[w] EXCEPT !.due = FALSE]]
          \/ wk' = [wk EXCEPT ![w] = [wk[w] EXCEPT !.due = FALSE, !.lost = TRUE]]
      BY <1>25 DEF Heartbeat
    <3> QED
      BY <3>2, <3>3, Zenon
  <2> QED
    BY <1>0, <1>25, <2>2, <2>3 DEF Heartbeat
<1>26. ASSUME NEW tb \in Tables, CliStart(tb) PROVE TypeOK'
  <2>1. StaleRuns \in SUBSET Runs
    BY DEF StaleRuns
  <2>2. run' \in [Runs -> RunRow]
    BY <1>26, <2>1, StatementTypes, Zenon DEF CliStart
  <2>3. cli' \in CliState
    <3>1. /\ [OffCli EXCEPT !.pc = "cleanup", !.stale = StaleRuns, !.table = tb] \in CliState
          /\ [OffCli EXCEPT !.pc = "begin", !.table = tb] \in CliState
      BY <2>1, RestingTypes DEF CliState, CliSteps
    <3> QED
      BY <1>26, <3>1, Zenon DEF CliStart
  <2> QED
    BY <1>0, <1>26, <2>2, <2>3 DEF CliStart
<1>27. CASE CliCleanup
  <2>1. cli.stale \in SUBSET Runs
    BY DEF CliState
  <2>2. CleanupStaleTasks(cli.stale) \in [Tasks -> TaskRow]
    BY <2>1, StatementTypes, Zenon
  <2>3. cli' \in CliState
    BY <1>27 DEF CliCleanup, CliState, CliSteps
  <2> QED
    BY <1>0, <1>27, <2>2, <2>3 DEF CliCleanup
<1>28. CASE CliBegin
  <2>1. PICK r \in Runs : run' = BeginRun(r) /\ cli' = [cli EXCEPT !.pc = "create", !.run = r]
    BY <1>28 DEF CliBegin
  <2>2. run' \in [Runs -> RunRow]
    BY <2>1, StatementTypes, Zenon
  <2>3. cli' \in CliState
    BY <2>1 DEF CliState, CliSteps
  <2> QED
    BY <1>28, <2>2, <2>3 DEF CliBegin
<1>29. CASE CliCreate
  <2>1. PICK t \in Tasks : task' = CreateTasks(t, cli.run, cli.table)
    BY <1>29 DEF CliCreate
  <2>2. cli.run \in Runs \cup {0} /\ cli.table \in Tables \cup {None}
    BY DEF CliState
  <2>3. task' \in [Tasks -> TaskRow]
    BY <2>1, <2>2, StatementTypes, Zenon
  <2>4. cli' \in CliState
    BY <1>29 DEF CliCreate, CliState, CliSteps
  <2> QED
    BY <1>29, <2>3, <2>4 DEF CliCreate
<1>30. CASE CliClaim
  <2>1. PICK t \in Tasks : task' = ClaimUpdate(t, CliId) /\ older' = LeaseWritten(t)
    BY <1>30 DEF CliClaim
  <2>2. CliId \in Ids
    BY DEF Ids
  <2>3. task' \in [Tasks -> TaskRow] /\ older' \in [Tasks -> SUBSET Tasks]
    BY <2>1, <2>2, StatementTypes, Zenon
  <2>4. cli' \in CliState
    BY <1>30 DEF CliClaim, CliState, CliSteps
  <2> QED
    BY <1>30, <2>3, <2>4 DEF CliClaim
<1>31. CASE CliFetch
  <2>1. PICK t \in Tasks :
           cli' = [cli EXCEPT !.pc = "upload", !.task = t, !.gen = task[t].gen]
    BY <1>31 DEF CliFetch
  <2>2. task[t].gen \in Nat
    BY DEF TaskRow
  <2>3. cli' \in CliState
    BY <2>1, <2>2 DEF CliState, CliSteps
  <2> QED
    BY <1>31, <2>3 DEF CliFetch
<1>32. CASE CliError
  BY <1>0, <1>32, StatementTypes, RestingTypes DEF CliError, CliState, CliSteps, TaskStates, RunStates, GenerationsFenced, Fenced, Ids
<1>33. CASE CliUpload
  BY <1>0, <1>33, StatementTypes, RestingTypes DEF CliUpload, CliState, CliSteps, TaskStates, RunStates, GenerationsFenced, Fenced, Ids
<1>34. CASE CliUploadFails
  <2>1. cli.task \in Tasks /\ cli.gen \in Nat /\ "failed" \in TaskStates
    BY <1>34 DEF CliUploadFails, GenerationsFenced, Fenced, CliState, TaskStates
  <2>2. UpdateTaskState(cli.task, "failed", cli.gen) \in [Tasks -> TaskRow]
    BY <2>1, StatementTypes, Zenon
  <2>3. cli' \in CliState
    BY <1>34 DEF CliUploadFails, CliState, CliSteps
  <2> QED
    BY <1>0, <1>34, <2>2, <2>3 DEF CliUploadFails
<1>35. CASE CliUpdate
  <2>1. cli.task \in Tasks /\ cli.gen \in Nat /\ "completed" \in TaskStates
    BY <1>35 DEF CliUpdate, GenerationsFenced, Fenced, CliState, TaskStates
  <2>2. UpdateTaskState(cli.task, "completed", cli.gen) \in [Tasks -> TaskRow]
    BY <2>1, StatementTypes, Zenon
  <2>3. Matches(cli.task, cli.gen) \in BOOLEAN
    BY Zenon DEF Matches
  <2>4. cli' \in CliState
    BY <1>35, <2>3 DEF CliUpdate, CliState, CliSteps
  <2> QED
    BY <1>0, <1>35, <2>2, <2>4 DEF CliUpdate
<1>36. CASE CliComplete
  BY <1>0, <1>36, StatementTypes, RestingTypes DEF CliComplete, CliState, CliSteps, TaskStates, RunStates, GenerationsFenced, Fenced, Ids
<1>37. CASE CliCrash
  BY <1>0, <1>37, StatementTypes, RestingTypes DEF CliCrash, CliState, CliSteps, TaskStates, RunStates, GenerationsFenced, Fenced, Ids
<1>38. CASE Tick
  <2>1. run' \in [Runs -> RunRow]
    BY <1>38 DEF Tick, RunRow
  <2>2. task' \in [Tasks -> TaskRow]
    <3> SUFFICES ASSUME NEW t \in Tasks, task[t].lease > 0
                 PROVE  [task[t] EXCEPT !.lease = @ - 1] \in TaskRow
      BY <1>38 DEF Tick
    <3> DEFINE l == task[t].lease - 1
    <3>1. l \in 0..LeaseTTL
      BY DEF TaskRow
    <3> HIDE DEF l
    <3>2. [task[t] EXCEPT !.lease = l] \in TaskRow
      BY <3>1 DEF TaskRow
    <3> QED
      BY <3>2 DEF l
  <2>3. wk' \in [Workers -> WkState]
    BY <1>38 DEF Tick, WkState
  <2> QED
    BY <1>38, <2>1, <2>2, <2>3 DEF Tick
<1> QED
  BY <1>1, <1>2, <1>3, <1>4, <1>5, <1>6, <1>7, <1>8, <1>9, <1>10, <1>11, <1>12, <1>13, <1>14, <1>15, <1>16, <1>17, <1>18, <1>19, <1>20, <1>21, <1>22, <1>23, <1>24, <1>25, <1>26, <1>27, <1>28, <1>29, <1>30, <1>31, <1>32, <1>33, <1>34, <1>35, <1>36, <1>37, <1>38
     DEF Next, Coordinator, RunOnceOf, SyncTable

-----------------------------------------------------------------------------
(***************************************************************************)
(* How a step may change the table tasks: generations only grow, a task    *)
(* becomes settled only under a new generation, and a settled one stays    *)
(* settled the same way unless it is deleted.                              *)
(***************************************************************************)
Advances(f) ==
    \A t \in Tasks :
        /\ task[t].gen <= f[t].gen
        /\ f[t].state \in Terminal /\ task[t].state \notin Terminal => task[t].gen < f[t].gen
        /\ task[t].state \in Terminal => f[t].state \in {task[t].state, "deleted"}
        /\ f[t].state = "absent" => task[t].state = "absent" /\ f[t].gen = task[t].gen

(* A row that was never inserted carries no generation. *)
FreshRows == \A t \in Tasks : task[t].state = "absent" => task[t].gen = 0

(* Each statement advances the table; for the two that compare generations *)
(* this needs the writer to be fenced.                                     *)
LEMMA StatementsAdvance ==
    ASSUME TypeOK, FreshRows
    PROVE  /\ Advances(task)
           /\ \A stale \in SUBSET Runs : Advances(CleanupStaleTasks(stale))
           /\ \A t \in Tasks : \A r, tb : IsNextTask(t) => Advances(CreateTasks(t, r, tb))
           /\ \A t \in Tasks : \A id : IsOldestPending(t) => Advances(ClaimUpdate(t, id))
           /\ \A t, s, g : s \in Terminal /\ g \in Nat /\ Fenced(t, g)
                            => Advances(UpdateTaskState(t, s, g))
           /\ \A t, g : g \in Nat /\ Fenced(t, g) => Advances(RenewLease(t, g))
           /\ Advances(ResetExpiredLeases)
<1> USE DEF Advances, Terminal
<1>0. \A t \in Tasks : task[t] \in TaskRow /\ task[t].gen \in Nat
  BY DEF TypeOK, TaskRow
<1>1. Advances(task)
  BY <1>0
<1>2. \A stale \in SUBSET Runs : Advances(CleanupStaleTasks(stale))
  BY <1>0 DEF CleanupStaleTasks, TaskRow
<1>3. \A t \in Tasks : \A r, tb : IsNextTask(t) => Advances(CreateTasks(t, r, tb))
  BY <1>0 DEF CreateTasks, IsNextTask, FreshRows, TypeOK
<1>4. \A t \in Tasks : \A id : IsOldestPending(t) => Advances(ClaimUpdate(t, id))
  BY <1>0 DEF ClaimUpdate, IsOldestPending, InState, TypeOK, TaskRow
<1>5. \A t, s, g : s \in Terminal /\ g \in Nat /\ Fenced(t, g)
                    => Advances(UpdateTaskState(t, s, g))
  BY <1>0 DEF UpdateTaskState, Matches, Fenced, TypeOK, TaskRow
<1>6. \A t, g : g \in Nat /\ Fenced(t, g) => Advances(RenewLease(t, g))
  BY <1>0 DEF RenewLease, Matches, Fenced, TypeOK, TaskRow
<1>7. Advances(ResetExpiredLeases)
  BY <1>0 DEF ResetExpiredLeases, TypeOK, TaskRow
<1> QED
  BY <1>1, <1>2, <1>3, <1>4, <1>5, <1>6, <1>7

IInv == TypeOK /\ GenerationsFenced /\ IdleBelowTwo /\ FreshRows

(* Every step of the system advances the table tasks. *)
LEMMA StepAdvances ==
    ASSUME IInv, Next
    PROVE  Advances(task')
<1> USE DEF IInv
<1>1. Advances(task)
  BY StatementsAdvance
<1>2. CASE UNCHANGED task
  BY <1>1, <1>2
<1>3. CASE CoCleanup
  BY <1>1, <1>3, StatementsAdvance DEF CoCleanup, TypeOK, CoState
<1>4. CASE CoReset
  BY <1>1, <1>4, StatementsAdvance DEF CoReset
<1>5. ASSUME NEW w \in Workers, WkClaim(w) PROVE Advances(task')
  BY <1>5, StatementsAdvance DEF WkClaim
<1>6. ASSUME NEW w \in Workers, WkExportFails(w) PROVE Advances(task')
  <2>1. Fenced(wk[w].task, wk[w].egen) /\ wk[w].egen \in Nat
    BY <1>6 DEF WkExportFails, GenerationsFenced, Executing, TypeOK, WkState
  <2> QED
    BY <1>6, <2>1, StatementsAdvance DEF WkExportFails, Terminal
<1>7. ASSUME NEW w \in Workers, WkFinish(w) PROVE Advances(task')
  <2>1. Fenced(wk[w].task, wk[w].egen) /\ wk[w].egen \in Nat
    BY <1>7 DEF WkFinish, GenerationsFenced, Executing, TypeOK, WkState
  <2> QED
    BY <1>1, <1>7, <2>1, StatementsAdvance DEF WkFinish, Terminal
<1>8. ASSUME NEW w \in Workers, WkReturn(w) PROVE Advances(task')
  <2>1. Fenced(wk[w].task, wk[w].gen) /\ wk[w].gen \in Nat
    BY <1>8 DEF WkReturn, GenerationsFenced, Holding, TypeOK, WkState
  <2> QED
    BY <1>1, <1>8, <2>1, StatementsAdvance DEF WkReturn, Terminal
<1>9. ASSUME NEW w \in Workers, Heartbeat(w) PROVE Advances(task')
  <2>1. Fenced(wk[w].task, wk[w].gen) /\ wk[w].gen \in Nat
    BY <1>9 DEF Heartbeat, GenerationsFenced, TypeOK, WkState
  <2> QED
    BY <1>1, <1>9, <2>1, StatementsAdvance DEF Heartbeat
<1>10. CASE CliCleanup
  BY <1>1, <1>10, StatementsAdvance DEF CliCleanup, TypeOK, CliState
<1>11. CASE CliCreate
  BY <1>11, StatementsAdvance DEF CliCreate
<1>12. CASE CliClaim
  BY <1>12, StatementsAdvance DEF CliClaim
<1>13. CASE CliUploadFails
  <2>1. Fenced(cli.task, cli.gen) /\ cli.gen \in Nat
    BY <1>13 DEF CliUploadFails, GenerationsFenced, TypeOK, CliState
  <2> QED
    BY <1>1, <1>13, <2>1, StatementsAdvance DEF CliUploadFails, Terminal
<1>14. CASE CliUpdate
  <2>1. Fenced(cli.task, cli.gen) /\ cli.gen \in Nat
    BY <1>14 DEF CliUpdate, GenerationsFenced, TypeOK, CliState
  <2> QED
    BY <1>1, <1>14, <2>1, StatementsAdvance DEF CliUpdate, Terminal
<1>15. CASE Tick
  BY <1>15 DEF Tick, Advances, Terminal, TypeOK, TaskRow
<1> QED
  BY <1>2, <1>3, <1>4, <1>5, <1>6, <1>7, <1>8, <1>9, <1>10, <1>11, <1>12, <1>13,
     <1>14, <1>15
     DEF Next, Coordinator, RunOnceOf, SyncTable, RunOnce, CoBegin, CoBeginFails,
         PoolStart, WaitPending, WaitAssigned, WaitCancelled, PoolStopped,
         CoComplete, Cancel, DaemonCrash, WkLoop, WkNoClaim, WkFetch, WkNoFetch,
         WkResolve, WkAbandon, WkExport, CliStart, CliBegin, CliFetch, CliError,
         CliUpload, CliComplete, CliCrash

(* A writer that was fenced before a step is fenced after it. *)
LEMMA FencedStays ==
    ASSUME IInv, TypeOK', Advances(task'), NEW t, NEW g \in Nat, Fenced(t, g)
    PROVE  /\ t \in Tasks
           /\ g <= task'[t].gen
           /\ task'[t].state \in Terminal => g < task'[t].gen
  BY DEF IInv, TypeOK, TaskRow, Advances, Fenced

-----------------------------------------------------------------------------
(* A step leaves the locals of v's claim alone, or v lets go of the claim. *)
KeepsClaim(v) ==
    /\ wk'[v].pc \in Holding => /\ wk[v].pc \in Holding
                                /\ wk'[v].task = wk[v].task /\ wk'[v].gen = wk[v].gen
    /\ wk'[v].pc \in Executing => wk[v].pc \in Executing /\ wk'[v].egen = wk[v].egen

(* Only the fetch of a claim gives a worker a task and a generation, and only *)
(* resolveTask gives the executor one; both read them from an assigned row.   *)
LEMMA WorkerClaims ==
    ASSUME TypeOK, Next, NEW v \in Workers
    PROVE  \/ KeepsClaim(v)
           \/ /\ UNCHANGED task
              /\ wk'[v].task \in Tasks
              /\ task[wk'[v].task].state = "assigned" /\ task[wk'[v].task].wid = WorkerId[v]
              /\ wk'[v].pc \notin Executing
              /\ wk'[v].gen = task[wk'[v].task].gen
           \/ /\ UNCHANGED task
              /\ wk[v].pc \in Holding /\ wk'[v].task = wk[v].task /\ wk'[v].gen = wk[v].gen
              /\ task[wk[v].task].state = "assigned"
              /\ wk'[v].egen = task[wk[v].task].gen
<1> USE DEF KeepsClaim, Holding, Executing, TypeOK, WkState
<1>1. CASE UNCHANGED wk
  BY <1>1
<1>2. CASE PoolStart \/ DaemonCrash
  BY <1>2 DEF PoolStart, DaemonCrash, LoopWk, OffWk
<1>3. CASE Tick
  BY <1>3 DEF Tick
<1>4. ASSUME NEW w \in Workers, WkLoop(w) \/ WkClaim(w) \/ WkNoClaim(w) \/ WkNoFetch(w) \/ WkReturn(w)
      PROVE  KeepsClaim(v)
  BY <1>4 DEF WkLoop, WkClaim, WkNoClaim, WkNoFetch, WkReturn, LoopWk, OffWk
<1>5. ASSUME NEW w \in Workers, WkAbandon(w) \/ WkExport(w) \/ WkExportFails(w) \/ WkFinish(w)
      PROVE  KeepsClaim(v)
  BY <1>5 DEF WkAbandon, WkExport, WkExportFails, WkFinish
<1>6. ASSUME NEW w \in Workers, Heartbeat(w)
      PROVE  KeepsClaim(v)
  BY <1>6 DEF Heartbeat
<1>7. ASSUME NEW w \in Workers, WkFetch(w), w # v
      PROVE  KeepsClaim(v)
  BY <1>7 DEF WkFetch
<1>8. ASSUME WkFetch(v)
      PROVE  /\ UNCHANGED task
             /\ wk'[v].task \in Tasks
             /\ task[wk'[v].task].state = "assigned" /\ task[wk'[v].task].wid = WorkerId[v]
             /\ wk'[v].pc \notin Executing
             /\ wk'[v].gen = task[wk'[v].task].gen
  BY <1>8 DEF WkFetch, IsFetched, InState, LoopWk
<1>9. ASSUME NEW w \in Workers, WkResolve(w), w # v
      PROVE  KeepsClaim(v)
  BY <1>9 DEF WkResolve
<1>10. ASSUME WkResolve(v)
       PROVE  /\ UNCHANGED task
              /\ wk[v].pc \in Holding /\ wk'[v].task = wk[v].task /\ wk'[v].gen = wk[v].gen
              /\ task[wk[v].task].state = "assigned"
              /\ wk'[v].egen = task[wk[v].task].gen
  BY <1>10 DEF WkResolve
<1> HIDE DEF KeepsClaim, Holding, Executing, TypeOK, WkState
<1> QED
  BY <1>1, <1>2, <1>3, <1>4, <1>5, <1>6, <1>7, <1>8, <1>9, <1>10
     DEF Next, Coordinator, RunOnceOf, SyncTable, RunOnce, CoCleanup, CoBegin,
         CoBeginFails, CoReset, WaitPending, WaitAssigned, WaitCancelled,
         PoolStopped, CoComplete, Cancel, CliStart, CliCleanup, CliBegin, CliCreate,
         CliClaim, CliFetch, CliError, CliUpload, CliUploadFails, CliUpdate,
         CliComplete, CliCrash

(* The same for SyncTable: only its fetch gives it a task and a generation. *)
LEMMA CliClaims ==
    ASSUME TypeOK, Next, cli'.pc \in {"upload", "update"}
    PROVE  \/ cli.pc \in {"upload", "update"} /\ cli'.task = cli.task /\ cli'.gen = cli.gen
           \/ /\ UNCHANGED task
              /\ cli'.task \in Tasks
              /\ task[cli'.task].state = "assigned" /\ task[cli'.task].wid = CliId
              /\ cli'.gen = task[cli'.task].gen
<1> USE DEF TypeOK, CliState
<1>1. CASE UNCHANGED cli
  BY <1>1
<1>2. ASSUME NEW tb \in Tables, CliStart(tb) PROVE FALSE
  BY <1>2 DEF CliStart, OffCli
<1>3. CASE CliCleanup \/ CliBegin \/ CliCreate \/ CliClaim \/ CliError
  BY <1>3 DEF CliCleanup, CliBegin, CliCreate, CliClaim, CliError
<1>4. CASE CliUploadFails \/ CliUpdate \/ CliComplete \/ CliCrash
  <2>1. CASE CliUploadFails
    BY <2>1 DEF CliUploadFails
  <2>2. CASE CliUpdate
    <3>1. cli'.pc = "complete"
      BY <2>2 DEF CliUpdate
    <3> QED BY <3>1
  <2>3. CASE CliComplete
    BY <2>3 DEF CliComplete, OffCli
  <2>4. CASE CliCrash
    BY <2>4 DEF CliCrash, OffCli
  <2> QED
    BY <1>4, <2>1, <2>2, <2>3, <2>4
<1>5. CASE CliUpload
  BY <1>5 DEF CliUpload
<1>6. CASE CliFetch
  BY <1>6 DEF CliFetch, IsFetched, InState
<1> HIDE DEF TypeOK, CliState
<1> QED
  BY <1>1, <1>2, <1>3, <1>4, <1>5, <1>6
     DEF Next, Coordinator, RunOnceOf, SyncTable, RunOnce, CoCleanup, CoBegin,
         CoBeginFails, CoReset, PoolStart, WaitPending, WaitAssigned, WaitCancelled,
         PoolStopped, CoComplete, Cancel, DaemonCrash, WkLoop, WkClaim, WkNoClaim,
         WkFetch, WkNoFetch, WkResolve, WkAbandon, WkExport, WkExportFails, WkFinish,
         WkReturn, Heartbeat, Tick

(* Every step keeps the fence around settled tasks. *)
LEMMA FencedStep ==
    ASSUME IInv, TypeOK', Next
    PROVE  GenerationsFenced'
<1>1. Advances(task')
  BY StepAdvances
<1>2. ASSUME NEW v \in Workers
      PROVE  /\ wk'[v].pc \in Holding => Fenced(wk[v].task, wk[v].gen)'
             /\ wk'[v].pc \in Executing => Fenced(wk[v].task, wk[v].egen)'
  <2>1. wk[v].gen \in Nat /\ wk[v].egen \in Nat
    BY DEF IInv, TypeOK, WkState
  <2>2. wk[v].pc \in Executing => wk[v].pc \in Holding
    BY DEF Executing, Holding
  <2>3. CASE KeepsClaim(v)
    <3>1. ASSUME wk'[v].pc \in Holding PROVE Fenced(wk[v].task, wk[v].gen)'
      <4>1. Fenced(wk[v].task, wk[v].gen) /\ wk'[v].task = wk[v].task /\ wk'[v].gen = wk[v].gen
        BY <2>3, <3>1 DEF KeepsClaim, IInv, GenerationsFenced
      <4> QED
        BY <1>1, <2>1, <4>1, FencedStays DEF Fenced
    <3>2. ASSUME wk'[v].pc \in Executing PROVE Fenced(wk[v].task, wk[v].egen)'
      <4>1. /\ Fenced(wk[v].task, wk[v].egen)
            /\ wk'[v].task = wk[v].task /\ wk'[v].egen = wk[v].egen
        BY <2>3, <3>2 DEF KeepsClaim, IInv, GenerationsFenced, Holding, Executing
      <4> QED
        BY <1>1, <2>1, <4>1, FencedStays DEF Fenced
    <3> QED
      BY <3>1, <3>2
  <2>4. CASE /\ UNCHANGED task
             /\ wk'[v].task \in Tasks
             /\ task[wk'[v].task].state = "assigned"
             /\ wk'[v].pc \notin Executing
             /\ wk'[v].gen = task[wk'[v].task].gen
    BY <2>4 DEF Fenced, Terminal, IInv, TypeOK, TaskRow
  <2>5. CASE /\ UNCHANGED task
             /\ wk[v].pc \in Holding /\ wk'[v].task = wk[v].task /\ wk'[v].gen = wk[v].gen
             /\ task[wk[v].task].state = "assigned"
             /\ wk'[v].egen = task[wk[v].task].gen
    <3>1. Fenced(wk[v].task, wk[v].gen)
      BY <2>5 DEF IInv, GenerationsFenced
    <3> QED
      BY <2>5, <3>1 DEF Fenced, Terminal, IInv, TypeOK, TaskRow
  <2> QED
    BY <2>3, <2>4, <2>5, WorkerClaims DEF IInv
<1>3. ASSUME cli'.pc \in {"upload", "update"} PROVE Fenced(cli.task, cli.gen)'
  <2>1. CASE cli.pc \in {"upload", "update"} /\ cli'.task = cli.task /\ cli'.gen = cli.gen
    <3>1. Fenced(cli.task, cli.gen) /\ cli.gen \in Nat
      BY <2>1 DEF IInv, GenerationsFenced, TypeOK, CliState
    <3> QED
      BY <1>1, <2>1, <3>1, FencedStays DEF Fenced
  <2>2. CASE /\ UNCHANGED task
             /\ cli'.task \in Tasks
             /\ task[cli'.task].state = "assigned"
             /\ cli'.gen = task[cli'.task].gen
    BY <2>2 DEF Fenced, Terminal, IInv, TypeOK, TaskRow
  <2> QED
    BY <1>3, <2>1, <2>2, CliClaims DEF IInv
<1> QED
  BY <1>2, <1>3 DEF GenerationsFenced

(* Only WaitAssigned counts idleLoops up, and it leaves the loop at two. *)
LEMMA IdleStep ==
    ASSUME TypeOK, IdleBelowTwo, Next
    PROVE  IdleBelowTwo'
<1> USE DEF IdleBelowTwo, TypeOK, CoState
<1>1. CASE UNCHANGED co
  BY <1>1
<1>2. CASE RunOnce \/ CoBeginFails \/ CoComplete \/ DaemonCrash
  <2>1. IdleCo.idle = 0 /\ IdleCo \in CoState
    BY RestingTypes DEF IdleCo
  <2>2. CASE RunOnce
    <3>1. /\ [IdleCo EXCEPT !.pc = "cleanup", !.stale = StaleRuns].idle = 0
          /\ [IdleCo EXCEPT !.pc = "begin"].idle = 0
      BY <2>1
    <3>2. co'.idle = 0
      BY <2>2, <3>1, Zenon DEF RunOnce
    <3> QED
      BY <3>2
  <2>3. CASE CoBeginFails \/ CoComplete \/ DaemonCrash
    BY <2>1, <2>3 DEF CoBeginFails, CoComplete, DaemonCrash
  <2> QED
    BY <1>2, <2>2, <2>3
<1>3. CASE CoCleanup \/ CoBegin \/ CoReset \/ PoolStart
  <2>1. CASE CoCleanup
    BY <2>1 DEF CoCleanup
  <2>2. CASE CoBegin
    BY <2>2 DEF CoBegin
  <2>3. CASE CoReset
    BY <2>3 DEF CoReset
  <2>4. CASE PoolStart
    BY <2>4 DEF PoolStart
  <2> QED
    BY <1>3, <2>1, <2>2, <2>3, <2>4
<1>4. CASE WaitPending \/ WaitCancelled \/ PoolStopped \/ Cancel
  BY <1>4 DEF WaitPending, WaitCancelled, PoolStopped, Cancel
<1>5. CASE WaitAssigned
  <2>1. PICK quiet : EndRound(quiet)
    BY <1>5 DEF WaitAssigned
  <2> DEFINE idle == IF quiet THEN co.idle + 1 ELSE 0
  <2>2. co' = [co EXCEPT !.quiet = FALSE, !.idle = idle,
                         !.pc = IF idle >= 2 THEN "stopping" ELSE "wait"]
    BY <2>1 DEF EndRound
  <2>3. idle \in Nat
    OBVIOUS
  <2> HIDE DEF idle
  <2> QED
    BY <2>2, <2>3
<1> HIDE DEF IdleBelowTwo, TypeOK, CoState
<1> QED
  BY <1>1, <1>2, <1>3, <1>4, <1>5
     DEF Next, Coordinator, RunOnceOf, SyncTable, WkLoop, WkClaim, WkNoClaim, WkFetch, WkNoFetch,
         WkResolve, WkAbandon, WkExport, WkExportFails, WkFinish, WkReturn, Heartbeat,
         CliStart, CliCleanup, CliBegin, CliCreate, CliClaim, CliFetch, CliError,
         CliUpload, CliUploadFails, CliUpdate, CliComplete, CliCrash, Tick

(* No step gives a generation to a row that is not there. *)
LEMMA FreshStep ==
    ASSUME IInv, Next
    PROVE  FreshRows'
  BY StepAdvances DEF IInv, FreshRows, Advances

-----------------------------------------------------------------------------
(* The inductive invariant holds initially and is kept by every step. *)
THEOREM Inductive == Spec => []IInv
<1>1. Init => IInv
  <2> SUFFICES ASSUME Init PROVE IInv
    OBVIOUS
  <2>1. TypeOK
    BY TypeInit
  <2>2. GenerationsFenced
    BY DEF Init, GenerationsFenced, Holding, Executing, OffWk, OffCli
  <2>3. IdleBelowTwo
    BY DEF Init, IdleBelowTwo, IdleCo
  <2>4. FreshRows
    BY DEF Init, FreshRows, NoTask
  <2> QED
    BY <2>1, <2>2, <2>3, <2>4 DEF IInv
<1>2. IInv /\ [Next]_vars => IInv'
  <2>1. CASE Next
    <3> SUFFICES ASSUME IInv PROVE IInv'
      BY <2>1
    <3>1. TypeOK'
      BY <2>1, TypeStep DEF IInv
    <3> QED
      BY <2>1, <3>1, FencedStep, IdleStep, FreshStep DEF IInv
  <2>2. CASE UNCHANGED vars
    BY <2>2 DEF vars, IInv, TypeOK, GenerationsFenced, Fenced, IdleBelowTwo, FreshRows
  <2> QED
    BY <2>1, <2>2
<1> QED
  BY <1>1, <1>2, PTL DEF Spec

(* Every table row and every process's locals keep their types. *)
THEOREM TypeCorrect == Spec => []TypeOK
  BY Inductive, PTL DEF IInv

(* Fencing holds for any number of processes, tasks and crashes, even when *)
(* workers and SyncTable share worker ids and claim the same row.          *)
THEOREM Fencing == Spec => []GenerationsFenced
  BY Inductive, PTL DEF IInv

(* UpdateTaskState, RenewLease, ClaimTask and ResetExpiredLeases never change *)
(* a completed or failed task; only CleanupStaleTasks can remove it.          *)
THEOREM SettledStays == Spec => TerminalStable
<1>1. IInv /\ [Next]_vars =>
         [\A t \in Tasks : task[t].state \in Terminal =>
             task'[t].state \in {task[t].state, "deleted"}]_vars
  BY StepAdvances DEF Advances
<1> QED
  BY <1>1, Inductive, PTL DEF Spec, TerminalStable
=============================================================================
