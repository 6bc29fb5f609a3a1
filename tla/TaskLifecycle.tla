---------------------------- MODULE TaskLifecycle ----------------------------
(***************************************************************************)
(* The life of an export task in the SQLite state store, and the three     *)
(* kinds of process that drive it:                                         *)
(*                                                                         *)
(*   - `bqcubbit sync` with a configured table (Orchestrator.SyncTable):   *)
(*     the only code that creates tasks; it claims and settles one too;    *)
(*   - `bqcubbit serve`: Coordinator.RunOnce, which recovers stale runs    *)
(*     and expired leases, starts the worker pool and waits for it;        *)
(*   - the pool's workers, each with a heartbeat goroutine per task.       *)
(*                                                                         *)
(* One SQL statement is one step: SQLite serialises them, and nothing      *)
(* spans two statements except CreateTasks' transaction.  A statement may  *)
(* fail (SQLITE_BUSY, say), and fails for certain once its owner's context *)
(* is cancelled.                                                           *)
(*                                                                         *)
(* Time: one Tick is one heartbeat period (10 minutes).  A lease is kept   *)
(* as the ticks it has left and a run's age saturates at StaleAfter, so no *)
(* clock value is part of the state; each is kept only while some          *)
(* statement can read it (an assigned row's lease, a running run's age).   *)
(***************************************************************************)
EXTENDS Naturals, FiniteSets

CONSTANTS
    Workers,     \* the pool's workers: pool.minWorkers goroutines
    WorkerId,    \* the worker_id each of them writes: "worker-0", ...
    CliId,       \* the worker_id SyncTable writes: the literal "worker-0"
    Tables,      \* tables an operator may configure for `bqcubbit sync`
    None,        \* SQL NULL
    NumTasks,    \* bound: task rows ever created
    NumRuns,     \* bound: sync_runs rows ever created
    LeaseTTL,    \* ticks in a lease: 30 minutes
    StaleAfter,  \* ticks after which a running run is stale: 24 hours
    MaxFaults,   \* bound: crashes, cancellations and failing statements
    Overlap      \* may a `bqcubbit sync` run while the daemon is in RunOnce

ASSUME CountsAssumption ==
    NumTasks \in Nat /\ NumRuns \in Nat /\ MaxFaults \in Nat /\ Overlap \in BOOLEAN
ASSUME TimesAssumption == LeaseTTL \in Nat \ {0} /\ StaleAfter \in Nat \ {0}
ASSUME NoneAssumption == None \notin Tables

Tasks == 1..NumTasks
Runs  == 1..NumRuns
Ids   == {WorkerId[w] : w \in Workers} \cup {CliId}

VARIABLES
    run,      \* table sync_runs: the row of each run id
    task,     \* table tasks: the row of each task, numbered by created_at
    older,    \* per task, the tasks whose lease_expires_at was written before
    co,       \* the coordinator: where RunOnce is, its context, its locals
    wk,       \* the workers: where runOnce is, its locals, its heartbeat
    cli,      \* the `bqcubbit sync` process: where SyncTable is, its locals
    exported, \* history: has the task's table been uploaded since CreateTasks
    faults    \* history: crashes, cancellations, failed statements so far

vars == <<run, task, older, co, wk, cli, exported, faults>>

RunStates  == {"absent", "running", "completed", "failed", "aborted"}
TaskStates == {"absent", "pending", "assigned", "completed", "failed", "deleted"}
Terminal   == {"completed", "failed"}

CoSteps  == {"idle", "cleanup", "begin", "reset", "start", "wait", "assigned",
             "stopping", "complete"}
WkSteps  == {"off", "loop", "claim", "fetch", "resolve", "work", "finish",
             "succeeded", "failed"}
CliSteps == {"off", "cleanup", "begin", "create", "claim", "fetch", "upload",
             "update", "complete"}

\* runOnce holds a claimed task from the fetch until its final update
Holding   == {"resolve", "work", "finish", "succeeded", "failed"}
\* ... and inside ExecuteTask also the generation resolveTask read
Executing == {"work", "finish"}

RunRow   == [state: RunStates, age: 0..StaleAfter]
TaskRow  == [state: TaskStates, run: Runs \cup {0}, table: Tables \cup {None},
             wid: Ids \cup {None}, lease: 0..LeaseTTL, gen: Nat]
CoState  == [pc: CoSteps, live: BOOLEAN, run: Runs \cup {0}, stale: SUBSET Runs,
             idle: 0..2, quiet: BOOLEAN, backlog: SUBSET Tasks]
WkState  == [pc: WkSteps, task: Tasks \cup {0}, gen: Nat, egen: Nat,
             due: BOOLEAN, lost: BOOLEAN]
CliState == [pc: CliSteps, stale: SUBSET Runs, run: Runs \cup {0},
             table: Tables \cup {None}, task: Tasks \cup {0}, gen: Nat, ok: BOOLEAN]

(* Every table row and every process's locals have their types; in particular *)
(* idleLoops never passes the two that end waitForCompletion.                 *)
TypeOK ==
    /\ run \in [Runs -> RunRow]
    /\ task \in [Tasks -> TaskRow]
    /\ older \in [Tasks -> SUBSET Tasks]
    /\ co \in CoState
    /\ wk \in [Workers -> WkState]
    /\ cli \in CliState
    /\ exported \in [Tasks -> BOOLEAN]
    /\ faults \in 0..MaxFaults

NoTask   == [state |-> "absent", run |-> 0, table |-> None, wid |-> None,
             lease |-> 0, gen |-> 0]
IdleCo   == [pc |-> "idle", live |-> TRUE, run |-> 0, stale |-> {},
             idle |-> 0, quiet |-> FALSE, backlog |-> {}]
OffWk    == [pc |-> "off", task |-> 0, gen |-> 0, egen |-> 0,
             due |-> FALSE, lost |-> FALSE]
LoopWk   == [pc |-> "loop", task |-> 0, gen |-> 0, egen |-> 0,
             due |-> FALSE, lost |-> FALSE]
OffCli   == [pc |-> "off", stale |-> {}, run |-> 0, table |-> None,
             task |-> 0, gen |-> 0, ok |-> FALSE]

Init ==
    /\ run = [r \in Runs |-> [state |-> "absent", age |-> 0]]
    /\ task = [t \in Tasks |-> NoTask]
    /\ older = [t \in Tasks |-> {}]
    /\ co = IdleCo
    /\ wk = [w \in Workers |-> OffWk]
    /\ cli = OffCli
    /\ exported = [t \in Tasks |-> FALSE]
    /\ faults = 0

-----------------------------------------------------------------------------
(***************************************************************************)
(* The state store's statements.  Each is the rows it selects and the      *)
(* value it gives the table.                                               *)
(***************************************************************************)

Fault == faults < MaxFaults /\ faults' = faults + 1

\* A statement returns an error: its context is cancelled, or the store fails.
StatementFails(live) == \/ ~live /\ UNCHANGED faults
                        \/ live /\ Fault

InState(s) == {t \in Tasks : task[t].state = s}

StaleRuns == {r \in Runs : run[r].state = "running" /\ run[r].age = StaleAfter}

AbortStaleRuns(stale) ==
    [r \in Runs |-> IF r \in stale THEN [state |-> "aborted", age |-> 0] ELSE run[r]]

\* Every task of the aborted runs goes, whatever its state and its lease.
CleanupStaleTasks(stale) ==
    [t \in Tasks |-> IF task[t].run \in stale /\ task[t].state # "absent"
                     THEN [task[t] EXCEPT !.state = "deleted"]
                     ELSE task[t]]

\* The autoincrement id of the next row, if the bound leaves one.
IsNextRun(r) == run[r].state = "absent" /\ \A q \in 1..(r-1) : run[q].state # "absent"

BeginRun(r) == [run EXCEPT ![r] = [state |-> "running", age |-> 0]]

\* No guard on the state: an aborted run can still become completed.
CompleteRun(r, s) == [run EXCEPT ![r] = [state |-> s, age |-> 0]]

IsNextTask(t) == task[t].state = "absent" /\ \A u \in 1..(t-1) : task[u].state # "absent"

CreateTasks(t, r, tb) ==
    [task EXCEPT ![t] = [state |-> "pending", run |-> r, table |-> tb, wid |-> None,
                         lease |-> 0, gen |-> 0]]

MutOldestStrict(t) ==
    t \in InState("pending") /\ \A u \in InState("pending") : t < u

IsOldestPending(t) ==
    t \in InState("pending") /\ \A u \in InState("pending") : t <= u

ClaimUpdate(t, id) ==
    [task EXCEPT ![t].state = "assigned", ![t].wid = id,
                 ![t].lease = LeaseTTL, ![t].gen = @ + 1]

\* Claiming and renewing write a lease_expires_at later than every other one.
LeaseWritten(t) ==
    [u \in Tasks |-> IF u = t THEN Tasks \ {t} ELSE older[u] \ {t}]

MutFetchAnyWorker(t, id) ==
    /\ t \in InState("assigned")
    /\ \A u \in InState("assigned") \ {t} : u \in older[t]

\* ... WHERE worker_id=? AND state='assigned' ORDER BY lease_expires_at DESC
IsFetched(t, id) ==
    /\ t \in InState("assigned") /\ task[t].wid = id
    /\ \A u \in InState("assigned") \ {t} : task[u].wid = id => u \in older[t]

MutMatchesAnyGeneration(t, g) == task[t].state \notin {"absent", "deleted"}

\* ... WHERE id=? AND lease_generation=?
Matches(t, g) == task[t].state \notin {"absent", "deleted"} /\ task[t].gen = g

MutUpdateKeepsGeneration(t, s, g) ==
    IF Matches(t, g) THEN [task EXCEPT ![t].state = s, ![t].lease = 0] ELSE task

UpdateTaskState(t, s, g) ==
    IF Matches(t, g)
    THEN [task EXCEPT ![t].state = s, ![t].gen = g + 1, ![t].lease = 0] ELSE task

\* The generation moves on, the state is neither checked nor changed.
RenewLease(t, g) ==
    IF Matches(t, g) THEN [task EXCEPT ![t].lease = LeaseTTL, ![t].gen = @ + 1] ELSE task

MutResetAnyState ==
    [t \in Tasks |-> IF task[t].state # "absent" /\ task[t].state # "deleted" /\ task[t].lease = 0
                     THEN [task[t] EXCEPT !.state = "pending", !.wid = None]
                     ELSE task[t]]

\* The generation is left alone.
ResetExpiredLeases ==
    [t \in Tasks |-> IF task[t].state = "assigned" /\ task[t].lease = 0
                     THEN [task[t] EXCEPT !.state = "pending", !.wid = None]
                     ELSE task[t]]

-----------------------------------------------------------------------------
(***************************************************************************)
(* Coordinator.RunOnce.                                                    *)
(***************************************************************************)

\* The running flag, then AbortStaleRuns.
RunOnce ==
    /\ co.pc = "idle"
    /\ Overlap \/ cli.pc = "off"
    /\ \E r \in Runs : run[r].state = "absent"
    /\ \/ /\ run' = AbortStaleRuns(StaleRuns)
          /\ co' = [IdleCo EXCEPT !.pc = "cleanup", !.stale = StaleRuns]
          /\ UNCHANGED faults
       \/ /\ Fault /\ UNCHANGED run
          /\ co' = [IdleCo EXCEPT !.pc = "begin"]
    /\ UNCHANGED <<task, older, wk, cli, exported>>

CoCleanup ==
    /\ co.pc = "cleanup"
    /\ \/ co.live /\ task' = CleanupStaleTasks(co.stale) /\ UNCHANGED faults
       \/ StatementFails(co.live) /\ UNCHANGED task
    /\ co' = [co EXCEPT !.pc = "begin", !.stale = {}]
    /\ UNCHANGED <<run, older, wk, cli, exported>>

CoBegin ==
    /\ co.pc = "begin" /\ co.live
    /\ \E r \in Runs :
          /\ IsNextRun(r)
          /\ run' = BeginRun(r)
          /\ co' = [co EXCEPT !.pc = "reset", !.run = r,
                              !.backlog = InState("pending") \cup InState("assigned")]
    /\ UNCHANGED <<task, older, wk, cli, exported, faults>>

\* BeginRun fails: RunOnce returns the error.
CoBeginFails ==
    /\ co.pc = "begin"
    /\ co' = IdleCo
    /\ UNCHANGED <<run, task, older, wk, cli, exported, faults>>

\* The only place leases are reset.
CoReset ==
    /\ co.pc = "reset"
    /\ \/ co.live /\ task' = ResetExpiredLeases /\ UNCHANGED faults
       \/ StatementFails(co.live) /\ UNCHANGED task
    /\ co' = [co EXCEPT !.pc = "start"]
    /\ UNCHANGED <<run, older, wk, cli, exported>>

PoolStart ==
    /\ co.pc = "start"
    /\ wk' = [w \in Workers |-> LoopWk]
    /\ co' = [co EXCEPT !.pc = "wait"]
    /\ UNCHANGED <<run, task, older, cli, exported, faults>>

\* waitForCompletion, one round of the ticker: the pending list, then the
\* assigned list.  The error of a failed listing is dropped and its list empty.
WaitPending ==
    /\ co.pc = "wait"
    /\ \/ /\ co.live /\ UNCHANGED faults
          /\ co' = [co EXCEPT !.pc = "assigned", !.quiet = (InState("pending") = {})]
       \/ /\ StatementFails(co.live)
          /\ co' = [co EXCEPT !.pc = "assigned", !.quiet = TRUE]
    /\ UNCHANGED <<run, task, older, wk, cli, exported>>

MutRoundThird(quiet) ==
    LET idle == IF quiet THEN co.idle + 1 ELSE 0
    IN  co' = [co EXCEPT !.quiet = FALSE, !.idle = idle,
                         !.pc = IF idle > 2 THEN "stopping" ELSE "wait"]

\* The round's end: the second quiet one in a row ends the wait.
EndRound(quiet) ==
    LET idle == IF quiet THEN co.idle + 1 ELSE 0
    IN  co' = [co EXCEPT !.quiet = FALSE, !.idle = idle,
                         !.pc = IF idle >= 2 THEN "stopping" ELSE "wait"]

MutWaitPendingOnly ==
    /\ co.pc = "assigned"
    /\ EndRound(co.quiet)
    /\ UNCHANGED <<run, task, older, wk, cli, exported, faults>>

WaitAssigned ==
    /\ co.pc = "assigned"
    /\ \/ co.live /\ UNCHANGED faults /\ EndRound(co.quiet /\ InState("assigned") = {})
       \/ StatementFails(co.live) /\ EndRound(co.quiet)
    /\ UNCHANGED <<run, task, older, wk, cli, exported>>

WaitCancelled ==
    /\ co.pc = "wait" /\ ~co.live
    /\ co' = [co EXCEPT !.pc = "stopping"]
    /\ UNCHANGED <<run, task, older, wk, cli, exported, faults>>

\* pool.Stop has closed every stopCh; wg.Wait.
PoolStopped ==
    /\ co.pc = "stopping"
    /\ \A w \in Workers : wk[w].pc = "off"
    /\ co' = [co EXCEPT !.pc = "complete"]
    /\ UNCHANGED <<run, task, older, wk, cli, exported, faults>>

\* CompleteRun runs under runCtx: after a cancellation nothing is recorded.
CoComplete ==
    /\ co.pc = "complete"
    /\ \/ co.live /\ run' = CompleteRun(co.run, "completed") /\ UNCHANGED faults
       \/ StatementFails(co.live) /\ UNCHANGED run
    /\ co' = IdleCo
    /\ UNCHANGED <<task, older, wk, cli, exported>>

\* Coordinator.Cancel, or SIGTERM cancelling the parent context.
Cancel ==
    /\ co.pc # "idle" /\ co.live
    /\ co' = [co EXCEPT !.live = FALSE]
    /\ Fault
    /\ UNCHANGED <<run, task, older, wk, cli, exported>>

\* The daemon process dies; the next RunOnce is the restarted one's.
DaemonCrash ==
    /\ co.pc # "idle"
    /\ co' = IdleCo
    /\ wk' = [w \in Workers |-> OffWk]
    /\ Fault
    /\ UNCHANGED <<run, task, older, cli, exported>>

-----------------------------------------------------------------------------
(***************************************************************************)
(* Worker.Start, Worker.runOnce, TaskExecutor.ExecuteTask.                 *)
(***************************************************************************)

Stopped == co.pc = "stopping"
\* taskCtx: cancelled with runCtx, or by the task's own heartbeat
Alive(w) == co.live /\ ~wk[w].lost

\* The uploaded object holds the table's rows: every live task of it is served.
Uploaded(tb) ==
    [t \in Tasks |-> exported[t] \/ (task[t].table = tb /\ task[t].state # "absent")]

MutLoopForever(w) ==
    /\ wk[w].pc = "loop"
    /\ wk' = [wk EXCEPT ![w] = [LoopWk EXCEPT !.pc = "claim"]]
    /\ UNCHANGED <<run, task, older, co, cli, exported, faults>>

WkLoop(w) ==
    /\ wk[w].pc = "loop"
    /\ wk' = [wk EXCEPT ![w] = IF Stopped \/ ~co.live THEN OffWk
                                                      ELSE [LoopWk EXCEPT !.pc = "claim"]]
    /\ UNCHANGED <<run, task, older, co, cli, exported, faults>>

\* ClaimTask's UPDATE.
WkClaim(w) ==
    /\ wk[w].pc = "claim" /\ co.live
    /\ \E t \in Tasks :
          /\ IsOldestPending(t)
          /\ task' = ClaimUpdate(t, WorkerId[w])
          /\ older' = LeaseWritten(t)
    /\ wk' = [wk EXCEPT ![w].pc = "fetch"]
    /\ UNCHANGED <<run, co, cli, exported, faults>>

\* No pending task, or the statement failed: wait five seconds and loop.
WkNoClaim(w) ==
    /\ wk[w].pc = "claim"
    /\ \/ InState("pending") = {} /\ UNCHANGED faults
       \/ StatementFails(co.live)
    /\ wk' = [wk EXCEPT ![w] = LoopWk]
    /\ UNCHANGED <<run, task, older, co, cli, exported>>

\* ClaimTask's SELECT of the row it takes to be the one it updated.
WkFetch(w) ==
    /\ wk[w].pc = "fetch" /\ co.live
    /\ \E t \in Tasks :
          /\ IsFetched(t, WorkerId[w])
          /\ wk' = [wk EXCEPT ![w] = [LoopWk EXCEPT !.pc = "resolve", !.task = t,
                                                    !.gen = task[t].gen]]
    /\ UNCHANGED <<run, task, older, co, cli, exported, faults>>

\* The SELECT finds nothing or fails: the updated row stays assigned.
WkNoFetch(w) ==
    /\ wk[w].pc = "fetch"
    /\ \/ (\A t \in Tasks : ~IsFetched(t, WorkerId[w])) /\ UNCHANGED faults
       \/ StatementFails(co.live)
    /\ wk' = [wk EXCEPT ![w] = LoopWk]
    /\ UNCHANGED <<run, task, older, co, cli, exported>>

\* resolveTask reads the row, and its generation, again.
WkResolve(w) ==
    /\ wk[w].pc = "resolve" /\ Alive(w)
    /\ task[wk[w].task].state = "assigned"
    /\ wk' = [wk EXCEPT ![w].pc = "work", ![w].egen = task[wk[w].task].gen]
    /\ UNCHANGED <<run, task, older, co, cli, exported, faults>>

\* ExecuteTask returns an error before it has written the task's row: the row
\* is not assigned, the context is cancelled, a read or the rate limiter fails.
WkAbandon(w) ==
    /\ wk[w].pc \in {"resolve", "work"}
    /\ wk' = [wk EXCEPT ![w].pc = "failed"]
    /\ UNCHANGED <<run, task, older, co, cli, exported, faults>>

\* Upload, rename, manifest and partition state all done.
WkExport(w) ==
    /\ wk[w].pc = "work" /\ Alive(w)
    /\ exported' = Uploaded(task[wk[w].task].table)
    /\ wk' = [wk EXCEPT ![w].pc = "finish"]
    /\ UNCHANGED <<run, task, older, co, cli, faults>>

\* The upload, the parquet writer or the rename fails: the row is marked.
WkExportFails(w) ==
    /\ wk[w].pc = "work" /\ Alive(w)
    /\ task' = UpdateTaskState(wk[w].task, "failed", wk[w].egen)
    /\ wk' = [wk EXCEPT ![w].pc = "failed"]
    /\ UNCHANGED <<run, older, co, cli, exported, faults>>

\* ExecuteTask's last statement; a generation mismatch is an error too.
WkFinish(w) ==
    /\ wk[w].pc = "finish"
    /\ \/ /\ Alive(w) /\ Matches(wk[w].task, wk[w].egen)
          /\ task' = UpdateTaskState(wk[w].task, "completed", wk[w].egen)
          /\ wk' = [wk EXCEPT ![w].pc = "succeeded"]
          /\ UNCHANGED faults
       \/ /\ \/ ~Matches(wk[w].task, wk[w].egen) /\ UNCHANGED faults
             \/ StatementFails(Alive(w))
          /\ wk' = [wk EXCEPT ![w].pc = "failed"]
          /\ UNCHANGED task
    /\ UNCHANGED <<run, older, co, cli, exported>>

MutReturnIgnoresError(w) ==
    /\ wk[w].pc \in {"succeeded", "failed"}
    /\ task' = IF co.live THEN UpdateTaskState(wk[w].task, "completed", wk[w].gen) ELSE task
    /\ wk' = [wk EXCEPT ![w] = LoopWk]
    /\ UNCHANGED <<run, older, co, cli, exported, faults>>

\* runOnce's own update, under runCtx and the generation of the claim.
WkReturn(w) ==
    /\ wk[w].pc \in {"succeeded", "failed"}
    /\ \/ /\ co.live /\ UNCHANGED faults
          /\ LET s == IF wk[w].pc = "succeeded" THEN "completed" ELSE "failed"
             IN  task' = UpdateTaskState(wk[w].task, s, wk[w].gen)
       \/ StatementFails(co.live) /\ UNCHANGED task
    /\ wk' = [wk EXCEPT ![w] = LoopWk]
    /\ UNCHANGED <<run, older, co, cli, exported>>

\* Worker.heartbeat.  task.LeaseGeneration is never set to the renewed one.
Heartbeat(w) ==
    /\ wk[w].pc \in Holding /\ wk[w].due /\ Alive(w)
    /\ \/ /\ Matches(wk[w].task, wk[w].gen)
          /\ task' = RenewLease(wk[w].task, wk[w].gen)
          /\ older' = LeaseWritten(wk[w].task)
          /\ wk' = [wk EXCEPT ![w].due = FALSE]
          /\ UNCHANGED faults
       \/ /\ \/ ~Matches(wk[w].task, wk[w].gen) /\ UNCHANGED faults
             \/ Fault
          /\ wk' = [wk EXCEPT ![w].due = FALSE, ![w].lost = TRUE]
          /\ UNCHANGED <<task, older>>
    /\ UNCHANGED <<run, co, cli, exported>>

-----------------------------------------------------------------------------
(***************************************************************************)
(* `bqcubbit sync` with sync.table set: main.runSync, then SyncTable.  Its *)
(* context is never cancelled and it has no heartbeat.                     *)
(***************************************************************************)

CliStart(tb) ==
    /\ cli.pc = "off"
    /\ Overlap \/ co.pc = "idle"
    /\ \E r \in Runs : run[r].state = "absent"
    /\ \E t \in Tasks : task[t].state = "absent"
    /\ \/ /\ run' = AbortStaleRuns(StaleRuns)
          /\ cli' = [OffCli EXCEPT !.pc = "cleanup", !.stale = StaleRuns, !.table = tb]
          /\ UNCHANGED faults
       \/ /\ Fault /\ UNCHANGED run
          /\ cli' = [OffCli EXCEPT !.pc = "begin", !.table = tb]
    /\ UNCHANGED <<task, older, co, wk, exported>>

CliCleanup ==
    /\ cli.pc = "cleanup"
    /\ \/ task' = CleanupStaleTasks(cli.stale) /\ UNCHANGED faults
       \/ Fault /\ UNCHANGED task
    /\ cli' = [cli EXCEPT !.pc = "begin", !.stale = {}]
    /\ UNCHANGED <<run, older, co, wk, exported>>

CliBegin ==
    /\ cli.pc = "begin"
    /\ \E r \in Runs :
          /\ IsNextRun(r)
          /\ run' = BeginRun(r)
          /\ cli' = [cli EXCEPT !.pc = "create", !.run = r]
    /\ UNCHANGED <<task, older, co, wk, exported, faults>>

CliCreate ==
    /\ cli.pc = "create"
    /\ \E t \in Tasks :
          /\ IsNextTask(t)
          /\ task' = CreateTasks(t, cli.run, cli.table)
    /\ cli' = [cli EXCEPT !.pc = "claim"]
    /\ UNCHANGED <<run, older, co, wk, exported, faults>>

CliClaim ==
    /\ cli.pc = "claim"
    /\ \E t \in Tasks :
          /\ IsOldestPending(t)
          /\ task' = ClaimUpdate(t, CliId)
          /\ older' = LeaseWritten(t)
    /\ cli' = [cli EXCEPT !.pc = "fetch"]
    /\ UNCHANGED <<run, co, wk, exported, faults>>

CliFetch ==
    /\ cli.pc = "fetch"
    /\ \E t \in Tasks :
          /\ IsFetched(t, CliId)
          /\ cli' = [cli EXCEPT !.pc = "upload", !.task = t, !.gen = task[t].gen]
    /\ UNCHANGED <<run, task, older, co, wk, exported, faults>>

\* A table, schema or read error before the task exists, a failing CreateTasks,
\* a claim that fails or finds nothing, a SELECT that does: the run is failed.
CliError ==
    /\ \/ cli.pc \in {"create", "claim"} /\ UNCHANGED faults
       \/ cli.pc = "fetch" /\ (\A t \in Tasks : ~IsFetched(t, CliId)) /\ UNCHANGED faults
       \/ cli.pc = "fetch" /\ Fault
    /\ cli' = [cli EXCEPT !.pc = "complete"]
    /\ UNCHANGED <<run, task, older, co, wk, exported>>

\* The table of the configuration is uploaded, whichever task was claimed.
CliUpload ==
    /\ cli.pc = "upload"
    /\ exported' = Uploaded(cli.table)
    /\ cli' = [cli EXCEPT !.pc = "update"]
    /\ UNCHANGED <<run, task, older, co, wk, faults>>

CliUploadFails ==
    /\ cli.pc = "upload"
    /\ \/ task' = UpdateTaskState(cli.task, "failed", cli.gen) /\ UNCHANGED faults
       \/ Fault /\ UNCHANGED task
    /\ cli' = [cli EXCEPT !.pc = "complete"]
    /\ UNCHANGED <<run, older, co, wk, exported>>

\* A generation mismatch is an error: the run is failed and no manifest written.
CliUpdate ==
    /\ cli.pc = "update"
    /\ \/ /\ task' = UpdateTaskState(cli.task, "completed", cli.gen) /\ UNCHANGED faults
          /\ cli' = [cli EXCEPT !.pc = "complete", !.ok = Matches(cli.task, cli.gen)]
       \/ /\ Fault /\ UNCHANGED task
          /\ cli' = [cli EXCEPT !.pc = "complete"]
    /\ UNCHANGED <<run, older, co, wk, exported>>

CliComplete ==
    /\ cli.pc = "complete"
    /\ \/ /\ run' = CompleteRun(cli.run, IF cli.ok THEN "completed" ELSE "failed")
          /\ UNCHANGED faults
       \/ Fault /\ UNCHANGED run
    /\ cli' = OffCli
    /\ UNCHANGED <<task, older, co, wk, exported>>

\* The process is killed, or BeginRun fails and it exits.
CliCrash ==
    /\ cli.pc # "off"
    /\ cli' = OffCli
    /\ Fault
    /\ UNCHANGED <<run, task, older, co, wk, exported>>

-----------------------------------------------------------------------------
\* Ten minutes pass: leases run down, runs age, heartbeat tickers fire.
Tick ==
    /\ task' = [t \in Tasks |->
                  IF task[t].state = "assigned" /\ task[t].lease > 0
                  THEN [task[t] EXCEPT !.lease = @ - 1] ELSE task[t]]
    /\ run' = [r \in Runs |->
                 IF run[r].state = "running" /\ run[r].age < StaleAfter
                 THEN [run[r] EXCEPT !.age = @ + 1] ELSE run[r]]
    /\ wk' = [w \in Workers |->
                [wk[w] EXCEPT !.due = @ \/ (wk[w].pc \in Holding /\ ~wk[w].lost)]]
    /\ UNCHANGED <<older, co, cli, exported, faults>>

Coordinator ==
    \/ CoCleanup \/ CoBegin \/ CoBeginFails \/ CoReset \/ PoolStart
    \/ WaitPending \/ WaitAssigned \/ WaitCancelled \/ PoolStopped \/ CoComplete

RunOnceOf(w) ==
    \/ WkLoop(w) \/ WkClaim(w) \/ WkNoClaim(w) \/ WkFetch(w) \/ WkNoFetch(w)
    \/ WkResolve(w) \/ WkAbandon(w) \/ WkExport(w) \/ WkExportFails(w)
    \/ WkFinish(w) \/ WkReturn(w)

SyncTable ==
    \/ CliCleanup \/ CliBegin \/ CliCreate \/ CliClaim \/ CliFetch \/ CliError
    \/ CliUpload \/ CliUploadFails \/ CliUpdate \/ CliComplete

Next ==
    \/ RunOnce \/ Coordinator \/ Cancel \/ DaemonCrash
    \/ \E w \in Workers : RunOnceOf(w) \/ Heartbeat(w)
    \/ \E tb \in Tables : CliStart(tb)
    \/ SyncTable \/ CliCrash
    \/ Tick

Spec == Init /\ [][Next]_vars

(***************************************************************************)
(* Goroutines are scheduled, statements return, tickers fire and cron      *)
(* starts another RunOnce: weak fairness of each.  Nothing makes a crash,  *)
(* a Cancel or an operator's `bqcubbit sync` happen.                       *)
(***************************************************************************)
Fairness ==
    /\ WF_vars(RunOnce) /\ WF_vars(Coordinator) /\ WF_vars(Tick)
    /\ WF_vars(SyncTable)
    /\ \A w \in Workers : WF_vars(RunOnceOf(w)) /\ WF_vars(Heartbeat(w))

FairSpec == Spec /\ Fairness
-----------------------------------------------------------------------------
(***************************************************************************)
(* Properties.                                                             *)
(***************************************************************************)

(* Fencing: the generation a worker or SyncTable carries for a task is never *)
(* ahead of the row's, and is behind it once the task is completed or failed. *)
(* UpdateTaskState and RenewLease check the generation and nothing else, so   *)
(* this is all that keeps a late writer out.                                  *)
Fenced(t, g) ==
    /\ t \in Tasks
    /\ g <= task[t].gen
    /\ task[t].state \in Terminal => g < task[t].gen

GenerationsFenced ==
    /\ \A w \in Workers :
          /\ wk[w].pc \in Holding => Fenced(wk[w].task, wk[w].gen)
          /\ wk[w].pc \in Executing => Fenced(wk[w].task, wk[w].egen)
    /\ cli.pc \in {"upload", "update"} => Fenced(cli.task, cli.gen)

(* No step turns a completed or failed task into anything else, short of       *)
(* CleanupStaleTasks deleting its row: not a second UpdateTaskState from the   *)
(* worker after the executor's, not a late heartbeat, not a lease reset.       *)
TerminalStable ==
    [][\A t \in Tasks : task[t].state \in Terminal =>
          task'[t].state \in {task[t].state, "deleted"}]_vars

(* ClaimTask hands a task to one claimant: no two of the workers and SyncTable *)
(* hold the same task under the row's current generation.                      *)
Claims ==
    {<<w, wk[w].task, wk[w].gen>> : w \in {v \in Workers : wk[v].pc \in Holding}}
    \cup (IF cli.pc \in {"upload", "update"} THEN {<<CliId, cli.task, cli.gen>>} ELSE {})

ExclusiveClaim ==
    \A c, d \in Claims : c # d => c[2] # d[2] \/ c[3] # d[3]

(* A task is recorded completed only when its table was uploaded after the     *)
(* task was created, whoever marked it and however often it changed hands.     *)
CompletedIsExported ==
    \A t \in InState("completed") : exported[t]

(* When RunOnce records its run completed, every task that was waiting or      *)
(* assigned when the run began has been settled (or deleted as stale): two     *)
(* list queries that are not one snapshot, seen empty twice, are enough.       *)
BacklogDrained ==
    [][\A r \in Runs :
          run[r].state # "completed" /\ run'[r].state = "completed" /\ co.run = r =>
             \A t \in co.backlog : task[t].state \in Terminal \cup {"deleted"}]_vars

(* After Cancel (or SIGTERM) RunOnce comes back: the wait ends, every worker   *)
(* leaves its task and its loop, and the running flag is cleared.              *)
CancelReturns == (co.pc # "idle" /\ ~co.live) ~> (co.pc = "idle")

(* While RunOnce waits, a pending task does not stay pending.                  *)
PendingIsClaimed ==
    \A t \in Tasks :
        (co.pc = "wait" /\ task[t].state = "pending") ~>
            (task[t].state # "pending" \/ co.pc = "idle")

(* While RunOnce waits, a task whose lease has expired does not stay assigned: *)
(* it is put back to pending for another worker, or settled.                   *)
ExpiredLeaseIsReset ==
    \A t \in Tasks :
        (co.pc = "wait" /\ task[t].state = "assigned" /\ task[t].lease = 0) ~>
            (task[t].state # "assigned" \/ co.pc = "idle")

-----------------------------------------------------------------------------
(***************************************************************************)
(* Refinement: a claimed row is a held task of the queue.                  *)
(***************************************************************************)
QueueStatus ==
    [t \in Tasks |-> IF task[t].state = "assigned" THEN "held" ELSE task[t].state]

Queue == INSTANCE TaskQueue WITH status <- QueueStatus

(* The tasks table, driven by a coordinator, its workers and SyncTable in      *)
(* turn, is a queue: every statement of every process, failing, late or run    *)
(* under a lost lease, is one of its operations or changes no task's status.   *)
ImplementsTaskQueue == Queue!Spec
=============================================================================
