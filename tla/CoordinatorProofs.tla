------------------------- MODULE CoordinatorProofs -------------------------
(***************************************************************************)
(* That RunOnce does not record its run completed over tasks it was        *)
(* started for, for any number of workers, tasks and runs, and also while  *)
(* a `bqcubbit sync` works on the same tables.                             *)
(*                                                                         *)
(* waitForCompletion's two list queries are no snapshot, and an error of   *)
(* either leaves its list empty.  An invariant about the round in progress *)
(* alone is not inductive: what a quiet round means depends on whether its *)
(* queries failed, which is forgotten at the end of the round.  So the     *)
(* invariant counts: each quiet round either saw the backlog drained, and  *)
(* then it stays so, or used up a failure.                                 *)
(***************************************************************************)
EXTENDS TaskLifecycleProofs

\* RunOnce is in waitForCompletion or past it.
Waited == {"wait", "assigned", "stopping", "complete"}

\* The backlog is never a row that is not there.
BacklogKnown == \A t \in co.backlog : task[t].state # "absent"

Settled(t) == task[t].state \in Terminal \cup {"deleted"}

Drained == \A t \in co.backlog : Settled(t)

\* The quiet rounds counted so far, or the one begun, saw no backlog or an error.
RoundsCounted ==
    /\ co.pc \notin Waited => co.idle = 0
    /\ co.live /\ co.pc \in Waited => Drained \/ co.idle <= faults
    /\ co.live /\ co.pc = "assigned" /\ co.quiet =>
          \/ \A t \in co.backlog : task[t].state # "pending"
          \/ co.idle + 1 <= faults
    /\ co.live /\ co.pc \in {"stopping", "complete"} => co.idle = 2

\* The daemon and SyncTable never write the same run.
RunsApart ==
    /\ co.run # 0 => run[co.run].state # "absent"
    /\ cli.run # 0 => run[cli.run].state # "absent" /\ cli.run # co.run

CInv == BacklogKnown /\ RoundsCounted /\ RunsApart

-----------------------------------------------------------------------------
(***************************************************************************)
(* What a step does to the rows of a backlog: outside ResetExpiredLeases   *)
(* no row goes back.                                                       *)
(***************************************************************************)
Descends(f) ==
    \A t \in Tasks : task[t].state # "absent" =>
        /\ f[t].state # "absent"
        /\ task[t].state # "pending" => f[t].state # "pending"
        /\ Settled(t) => f[t].state \in Terminal \cup {"deleted"}

(* No statement but the reset makes a row pending again or revives it. *)
LEMMA StatementsDescend ==
    ASSUME TypeOK
    PROVE  /\ Descends(task)
           /\ \A stale : Descends(CleanupStaleTasks(stale))
           /\ \A t \in Tasks : \A r, tb : IsNextTask(t) => Descends(CreateTasks(t, r, tb))
           /\ \A t \in Tasks : \A id : IsOldestPending(t) => Descends(ClaimUpdate(t, id))
           /\ \A t, g : \A s \in Terminal : Descends(UpdateTaskState(t, s, g))
           /\ \A t, g : Descends(RenewLease(t, g))
<1> USE DEF Descends, Settled, Terminal
<1>0. \A t \in Tasks : task[t] \in TaskRow
  BY DEF TypeOK
<1>1. Descends(task)
  OBVIOUS
<1>2. \A stale : Descends(CleanupStaleTasks(stale))
  BY <1>0 DEF CleanupStaleTasks, TaskRow
<1>3. \A t \in Tasks : \A r, tb : IsNextTask(t) => Descends(CreateTasks(t, r, tb))
  BY <1>0 DEF CreateTasks, IsNextTask, TypeOK
<1>4. \A t \in Tasks : \A id : IsOldestPending(t) => Descends(ClaimUpdate(t, id))
  BY <1>0 DEF ClaimUpdate, IsOldestPending, InState, TypeOK, TaskRow
<1>5. \A t, g : \A s \in Terminal : Descends(UpdateTaskState(t, s, g))
  BY <1>0 DEF UpdateTaskState, TypeOK, TaskRow
<1>6. \A t, g : Descends(RenewLease(t, g))
  BY <1>0 DEF RenewLease, TypeOK, TaskRow
<1> QED
  BY <1>1, <1>2, <1>3, <1>4, <1>5, <1>6

(* Past ResetExpiredLeases no process, in step or late, sends a row back. *)
LEMMA StepDescends ==
    ASSUME TypeOK, Next, co.pc # "reset"
    PROVE  Descends(task')
<1>1. CASE UNCHANGED task
  BY <1>1, StatementsDescend
<1>2. CASE CoCleanup \/ CliCleanup
  BY <1>2, StatementsDescend DEF CoCleanup, CliCleanup
<1>3. ASSUME NEW w \in Workers,
             WkClaim(w) \/ WkExportFails(w) \/ WkFinish(w) \/ WkReturn(w) \/ Heartbeat(w)
      PROVE  Descends(task')
  <2>1. CASE WkClaim(w)
    BY <2>1, StatementsDescend DEF WkClaim
  <2>2. CASE WkExportFails(w) \/ WkFinish(w) \/ WkReturn(w)
    BY <2>2, StatementsDescend DEF WkExportFails, WkFinish, WkReturn, Terminal
  <2>3. CASE Heartbeat(w)
    BY <2>3, StatementsDescend DEF Heartbeat
  <2> QED BY <1>3, <2>1, <2>2, <2>3
<1>4. CASE CliCreate \/ CliClaim
  BY <1>4, StatementsDescend DEF CliCreate, CliClaim
<1>5. CASE CliUploadFails \/ CliUpdate
  BY <1>5, StatementsDescend DEF CliUploadFails, CliUpdate, Terminal
<1>6. CASE Tick
  BY <1>6 DEF Tick, Descends, Settled, Terminal, TypeOK, TaskRow
<1> QED
  BY <1>1, <1>2, <1>3, <1>4, <1>5, <1>6
     DEF Next, Coordinator, RunOnceOf, SyncTable, RunOnce, CoBegin, CoBeginFails, CoReset,
         PoolStart, WaitPending, WaitAssigned, WaitCancelled, PoolStopped,
         CoComplete, Cancel, DaemonCrash, WkLoop, WkNoClaim, WkFetch, WkNoFetch,
         WkResolve, WkAbandon, WkExport, CliStart, CliBegin, CliFetch, CliError,
         CliUpload, CliComplete, CliCrash

(* The steps that are not the coordinator's leave it alone. *)
LEMMA OthersKeepCo ==
    ASSUME Next
    PROVE  \/ UNCHANGED co
           \/ RunOnce \/ CoBeginFails \/ CoComplete \/ DaemonCrash
           \/ CoCleanup \/ CoBegin \/ CoReset \/ PoolStart
           \/ WaitPending \/ WaitAssigned \/ WaitCancelled \/ PoolStopped \/ Cancel
  BY DEF Next, Coordinator, RunOnceOf, SyncTable, WkLoop, WkClaim, WkNoClaim, WkFetch,
         WkNoFetch, WkResolve, WkAbandon, WkExport, WkExportFails, WkFinish, WkReturn,
         Heartbeat, CliStart, CliCleanup, CliBegin, CliCreate, CliClaim, CliFetch, CliError,
         CliUpload, CliUploadFails, CliUpdate, CliComplete, CliCrash, Tick

(* What RunOnce starts from, and goes back to. *)
LEMMA Resting ==
    ASSUME TypeOK, RunOnce \/ CoBeginFails \/ CoComplete \/ DaemonCrash
    PROVE  co'.idle = 0 /\ co'.run = 0 /\ co'.backlog = {} /\ co'.pc \notin Waited
<1>1. IdleCo \in CoState /\ IdleCo.idle = 0 /\ IdleCo.run = 0 /\ IdleCo.backlog = {}
      /\ IdleCo.pc \notin Waited
  BY RestingTypes DEF IdleCo, Waited
<1>2. CASE RunOnce
  <2>1. /\ [IdleCo EXCEPT !.pc = "cleanup", !.stale = StaleRuns].idle = 0
        /\ [IdleCo EXCEPT !.pc = "cleanup", !.stale = StaleRuns].run = 0
        /\ [IdleCo EXCEPT !.pc = "cleanup", !.stale = StaleRuns].backlog = {}
        /\ [IdleCo EXCEPT !.pc = "cleanup", !.stale = StaleRuns].pc = "cleanup"
    BY <1>1 DEF CoState
  <2>2. /\ [IdleCo EXCEPT !.pc = "begin"].idle = 0
        /\ [IdleCo EXCEPT !.pc = "begin"].run = 0
        /\ [IdleCo EXCEPT !.pc = "begin"].backlog = {}
        /\ [IdleCo EXCEPT !.pc = "begin"].pc = "begin"
    BY <1>1 DEF CoState
  <2> QED BY <1>2, <2>1, <2>2 DEF RunOnce, Waited
<1>3. CASE CoBeginFails \/ CoComplete \/ DaemonCrash
  BY <1>1, <1>3 DEF CoBeginFails, CoComplete, DaemonCrash
<1> QED BY <1>2, <1>3

(* The backlog is taken from rows that are there, and rows stay. *)
LEMMA BacklogStep ==
    ASSUME IInv, BacklogKnown, Next
    PROVE  BacklogKnown'
<1>0. co.backlog \in SUBSET Tasks /\ co \in CoState
  BY DEF IInv, TypeOK, CoState
<1>1. \A t \in Tasks : task[t].state # "absent" => task'[t].state # "absent"
  BY StepAdvances DEF Advances
<1>2. CASE co'.backlog = co.backlog
  BY <1>0, <1>1, <1>2 DEF BacklogKnown
<1>3. CASE co'.backlog = {}
  BY <1>3 DEF BacklogKnown
<1>4. CASE CoBegin
  <2>1. co'.backlog = InState("pending") \cup InState("assigned")
    BY <1>0, <1>4 DEF CoBegin, CoState
  <2>2. \A t \in co'.backlog : t \in Tasks /\ task[t].state # "absent"
    BY <2>1 DEF InState
  <2> QED BY <1>1, <2>2 DEF BacklogKnown
<1>5. CASE RunOnce \/ CoBeginFails \/ CoComplete \/ DaemonCrash
  BY <1>3, <1>5, Resting DEF IInv
<1>6. CASE CoCleanup \/ CoReset \/ PoolStart \/ WaitPending \/ WaitAssigned \/ WaitCancelled
           \/ PoolStopped \/ Cancel
  <2>1. co'.backlog = co.backlog
    BY <1>0, <1>6 DEF CoState, CoCleanup, CoReset, PoolStart, WaitPending, WaitAssigned,
                      EndRound, WaitCancelled, PoolStopped, Cancel
  <2> QED BY <1>2, <2>1
<1> QED
  BY <1>2, <1>4, <1>5, <1>6, OthersKeepCo

-----------------------------------------------------------------------------
(* A drained backlog stays drained, and one without pending rows stays so. *)
LEMMA DrainedStays ==
    ASSUME IInv, BacklogKnown, Next, co.pc # "reset", co'.backlog = co.backlog
    PROVE  /\ Drained => Drained'
           /\ (\A t \in co.backlog : task[t].state # "pending")
                 => \A t \in co'.backlog : task'[t].state # "pending"
<1>1. co.backlog \in SUBSET Tasks
  BY DEF IInv, TypeOK, CoState
<1>2. Descends(task')
  BY StepDescends DEF IInv
<1> QED
  BY <1>1, <1>2 DEF BacklogKnown, Drained, Settled, Descends

(* A round whose queries both succeed and find nothing has seen the backlog   *)
(* drained: rows only leave pending between the two, and only leave assigned *)
(* after.  Any other quiet round has a failed query, and faults counts it.    *)
LEMMA RoundsStep ==
    ASSUME IInv, BacklogKnown, RoundsCounted, Next
    PROVE  RoundsCounted'
<1>0. /\ co \in CoState /\ co.idle \in 0..2 /\ co.backlog \in SUBSET Tasks
      /\ faults \in Nat /\ faults' \in Nat /\ faults <= faults'
  BY FaultsCounted DEF IInv, TypeOK, CoState, Fault
<1>1. CASE UNCHANGED co
  <2>1. CASE co.pc \notin Waited
    BY <1>1, <2>1 DEF RoundsCounted, Waited
  <2>2. CASE co.pc \in Waited
    <3>1. co.pc # "reset" /\ co'.backlog = co.backlog
      BY <1>1, <2>2 DEF Waited
    <3> QED BY <1>0, <1>1, <2>2, <3>1, DrainedStays DEF RoundsCounted
  <2> QED BY <2>1, <2>2
<1>2. CASE RunOnce \/ CoBeginFails \/ CoComplete \/ DaemonCrash
  BY <1>2, Resting DEF RoundsCounted, IInv, Waited
<1>3. CASE CoCleanup \/ CoBegin \/ CoReset
  <2>1. co.pc \in {"cleanup", "begin", "reset"} /\ co'.idle = co.idle
        /\ co'.pc \in {"begin", "reset", "start"}
    BY <1>0, <1>3 DEF CoState, CoCleanup, CoBegin, CoReset
  <2> QED BY <2>1 DEF RoundsCounted, Waited
<1>4. CASE PoolStart
  <2>1. co.pc = "start" /\ co'.pc = "wait" /\ co'.idle = co.idle
    BY <1>0, <1>4 DEF CoState, PoolStart
  <2> QED BY <1>0, <2>1 DEF RoundsCounted, Waited
<1>5. CASE WaitPending
  <2>1. /\ co.pc = "wait" /\ co'.pc = "assigned" /\ co'.idle = co.idle
        /\ co'.live = co.live /\ co'.backlog = co.backlog /\ UNCHANGED task
    BY <1>0, <1>5 DEF CoState, WaitPending
  <2>2. co.live => \/ co'.quiet = (InState("pending") = {})
                   \/ faults' = faults + 1
    BY <1>0, <1>5 DEF CoState, WaitPending, StatementFails, Fault
  <2>3. Drained' <=> Drained
    BY <2>1 DEF Drained, Settled
  <2>4. co.live => Drained \/ co.idle <= faults
    BY <2>1 DEF RoundsCounted, Waited
  <2>5. ASSUME co'.live, co'.quiet
        PROVE  \/ \A t \in co'.backlog : task'[t].state # "pending"
               \/ co'.idle + 1 <= faults'
    <3>1. CASE co'.quiet = (InState("pending") = {})
      BY <1>0, <2>1, <2>5, <3>1 DEF InState
    <3>2. CASE faults' = faults + 1
      BY <1>0, <2>1, <2>4, <2>5, <3>2 DEF Drained, Settled, Terminal
    <3> QED BY <2>1, <2>2, <2>5, <3>1, <3>2
  <2> QED BY <1>0, <2>1, <2>3, <2>4, <2>5 DEF RoundsCounted, Waited
<1>6. CASE WaitAssigned
  <2> DEFINE idle(q) == IF q THEN co.idle + 1 ELSE 0
  <2>1. PICK q \in BOOLEAN :
           /\ EndRound(q)
           /\ \/ q = (co.quiet /\ InState("assigned") = {})
              \/ q = co.quiet /\ (co.live => faults' = faults + 1)
    BY <1>0, <1>6 DEF CoState, WaitAssigned, StatementFails, Fault
  <2>2. co.pc = "assigned" /\ UNCHANGED task /\ co.idle < 2
    BY <1>6 DEF WaitAssigned, IInv, IdleBelowTwo
  <2>3. /\ co'.idle = idle(q) /\ co'.live = co.live /\ co'.backlog = co.backlog
        /\ co'.pc = IF idle(q) >= 2 THEN "stopping" ELSE "wait"
    BY <1>0, <2>1 DEF CoState, EndRound
  <2>4. Drained' <=> Drained
    BY <2>2, <2>3 DEF Drained, Settled
  <2>5. co'.pc \in {"stopping", "wait"} /\ (co'.pc = "stopping" => co'.idle = 2)
    BY <1>0, <2>2, <2>3
  <2>6. ASSUME co.live PROVE Drained \/ co'.idle <= faults'
    <3>1. CASE ~q
      BY <1>0, <2>3, <3>1
    <3>2. CASE q /\ q = (co.quiet /\ InState("assigned") = {})
      <4>1. co.quiet /\ InState("assigned") = {}
        BY <3>2
      <4>2. \/ \A t \in co.backlog : task[t].state # "pending"
            \/ co.idle + 1 <= faults
        BY <2>2, <2>6, <4>1 DEF RoundsCounted
      <4>3. (\A t \in co.backlog : task[t].state # "pending") => Drained
        BY <1>0, <4>1 DEF Drained, Settled, Terminal, BacklogKnown, InState, IInv, TypeOK,
                          TaskRow, TaskStates
      <4> QED BY <1>0, <2>3, <3>2, <4>2, <4>3
    <3>3. CASE q /\ faults' = faults + 1
      <4>1. Drained \/ co.idle <= faults
        BY <2>2, <2>6 DEF RoundsCounted, Waited
      <4> QED BY <1>0, <2>3, <3>3, <4>1
    <3> QED BY <2>1, <2>6, <3>1, <3>2, <3>3
  <2> HIDE DEF idle
  <2> QED BY <2>3, <2>4, <2>5, <2>6 DEF RoundsCounted, Waited
<1>7. CASE WaitCancelled \/ Cancel
  <2>1. ~co'.live /\ co'.idle = co.idle /\ (co.pc \in Waited <=> co'.pc \in Waited)
    BY <1>0, <1>7 DEF CoState, WaitCancelled, Cancel, Waited
  <2> QED BY <2>1 DEF RoundsCounted
<1>8. CASE PoolStopped
  <2>1. /\ co.pc = "stopping" /\ co'.pc = "complete" /\ co'.idle = co.idle
        /\ co'.live = co.live /\ co'.backlog = co.backlog /\ UNCHANGED <<task, faults>>
    BY <1>0, <1>8 DEF CoState, PoolStopped
  <2> QED BY <2>1 DEF RoundsCounted, Waited, Drained, Settled
<1> QED
  BY <1>1, <1>2, <1>3, <1>4, <1>5, <1>6, <1>7, <1>8, OthersKeepCo

(* BeginRun gives each caller a row of its own, which is never taken away. *)
LEMMA RunsApartStep ==
    ASSUME TypeOK, RunsApart, Next
    PROVE  RunsApart'
<1>0. co \in CoState /\ cli \in CliState /\ run \in [Runs -> RunRow] /\ 0 \notin Runs
  BY DEF TypeOK, Runs
<1>1. \A r \in Runs : run[r].state # "absent" => run'[r].state # "absent"
  <2>1. CASE UNCHANGED run
    BY <2>1
  <2>2. CASE RunOnce \/ \E tb \in Tables : CliStart(tb)
    <3>1. run' \in {run, AbortStaleRuns(StaleRuns)}
      BY <2>2 DEF RunOnce, CliStart
    <3> QED BY <3>1 DEF AbortStaleRuns
  <2>3. CASE CoBegin \/ CliBegin
    <3>1. PICK q \in Runs : run' = BeginRun(q)
      BY <2>3 DEF CoBegin, CliBegin
    <3> QED BY <1>0, <3>1 DEF BeginRun
  <2>4. CASE CoComplete \/ CliComplete
    BY <1>0, <2>4 DEF CoComplete, CliComplete, CompleteRun
  <2>5. CASE Tick
    BY <1>0, <2>5 DEF Tick, RunRow
  <2> QED
    BY <2>1, <2>2, <2>3, <2>4, <2>5
       DEF Next, Coordinator, RunOnceOf, SyncTable, CoCleanup, CoBeginFails, CoReset,
           PoolStart, WaitPending, WaitAssigned, WaitCancelled, PoolStopped, Cancel,
           DaemonCrash, WkLoop, WkClaim, WkNoClaim, WkFetch, WkNoFetch, WkResolve, WkAbandon,
           WkExport, WkExportFails, WkFinish, WkReturn, Heartbeat, CliCleanup, CliCreate,
           CliClaim, CliFetch, CliError, CliUpload, CliUploadFails, CliUpdate, CliCrash
<1>2. co.run \in Runs \cup {0} /\ cli.run \in Runs \cup {0}
  BY <1>0 DEF CoState, CliState
<1>3. CASE CoBegin
  <2>1. PICK r \in Runs : run[r].state = "absent" /\ co'.run = r /\ UNCHANGED cli
                          /\ run'[r].state = "running"
    BY <1>0, <1>3 DEF CoBegin, IsNextRun, BeginRun, CoState
  <2> QED BY <1>0, <1>1, <1>2, <2>1 DEF RunsApart
<1>4. CASE CliBegin
  <2>1. PICK r \in Runs : run[r].state = "absent" /\ cli'.run = r /\ UNCHANGED co
                          /\ run'[r].state = "running"
    BY <1>0, <1>4 DEF CliBegin, IsNextRun, BeginRun, CliState
  <2> QED BY <1>0, <1>1, <1>2, <2>1 DEF RunsApart
<1>5. ASSUME ~CoBegin PROVE co'.run \in {0, co.run}
  <2>1. CASE CoCleanup \/ CoReset \/ PoolStart \/ WaitPending \/ WaitAssigned \/ WaitCancelled
             \/ PoolStopped \/ Cancel
    BY <1>0, <2>1 DEF CoState, CoCleanup, CoReset, PoolStart, WaitPending, WaitAssigned,
                      EndRound, WaitCancelled, PoolStopped, Cancel
  <2> QED BY <1>5, <2>1, OthersKeepCo, Resting
<1>6. ASSUME ~CliBegin PROVE cli'.run \in {0, cli.run}
  <2>0. OffCli \in CliState /\ OffCli.run = 0
    BY RestingTypes DEF OffCli
  <2>1. CASE UNCHANGED cli
    BY <2>1
  <2>2. ASSUME NEW tb \in Tables, CliStart(tb) PROVE cli'.run = 0
    <3>1. /\ [OffCli EXCEPT !.pc = "cleanup", !.stale = StaleRuns, !.table = tb].run = 0
          /\ [OffCli EXCEPT !.pc = "begin", !.table = tb].run = 0
      BY <2>0 DEF CliState
    <3> QED BY <2>2, <3>1 DEF CliStart
  <2>3. CASE CliComplete \/ CliCrash
    BY <2>0, <2>3 DEF CliComplete, CliCrash
  <2>4. CASE CliCleanup \/ CliCreate \/ CliClaim \/ CliFetch \/ CliError \/ CliUpload
             \/ CliUploadFails \/ CliUpdate
    BY <1>0, <2>4 DEF CliState, CliCleanup, CliCreate, CliClaim, CliFetch, CliError, CliUpload,
                      CliUploadFails, CliUpdate
  <2> QED
    BY <1>6, <2>1, <2>2, <2>3, <2>4
       DEF Next, Coordinator, RunOnceOf, SyncTable, RunOnce, CoCleanup, CoBegin, CoBeginFails,
           CoReset, PoolStart, WaitPending, WaitAssigned, WaitCancelled, PoolStopped,
           CoComplete, Cancel, DaemonCrash, WkLoop, WkClaim, WkNoClaim, WkFetch, WkNoFetch,
           WkResolve, WkAbandon, WkExport, WkExportFails, WkFinish, WkReturn, Heartbeat, Tick
<1>7. CASE ~CoBegin /\ ~CliBegin
  BY <1>1, <1>2, <1>5, <1>6, <1>7 DEF RunsApart
<1> QED BY <1>3, <1>4, <1>7

-----------------------------------------------------------------------------
(* The inductive invariant of waitForCompletion. *)
THEOREM RoundsInductive == Spec => []CInv
<1>1. Init => CInv
  BY DEF Init, CInv, BacklogKnown, RoundsCounted, RunsApart, IdleCo, OffCli, Waited
<1>2. IInv /\ CInv /\ [Next]_vars => CInv'
  <2>1. IInv /\ CInv /\ Next => CInv'
    BY BacklogStep, RoundsStep, RunsApartStep DEF CInv, IInv
  <2>2. CInv /\ UNCHANGED vars => CInv'
    BY DEF CInv, BacklogKnown, RoundsCounted, Drained, Settled, RunsApart, vars
  <2> QED BY <2>1, <2>2
<1> QED
  BY <1>1, <1>2, Inductive, PTL DEF Spec

\* BacklogDrained, where fewer than two statements have failed since the start.
DrainedUnlessTwoFail ==
    [][\A r \in Runs :
          /\ run[r].state # "completed" /\ run'[r].state = "completed" /\ co.run = r
          /\ faults < 2
          => \A t \in co.backlog : task[t].state \in Terminal \cup {"deleted"}]_vars

(* RunOnce's step to completed finds the backlog drained unless two queries *)
(* have failed, whatever else happens and whoever else writes the tables.   *)
LEMMA CompletedDrained ==
    ASSUME IInv, CInv, Next, faults < 2, NEW r \in Runs, run[r].state # "completed",
           run'[r].state = "completed", co.run = r
    PROVE  Drained
<1>0. run \in [Runs -> RunRow] /\ 0 \notin Runs /\ faults \in Nat /\ co.idle \in 0..2
  BY DEF IInv, TypeOK, Runs, CoState
<1>1. run' # run
  OBVIOUS
<1>2. ~RunOnce /\ ~CoBegin /\ ~CliBegin /\ ~Tick /\ ~\E tb \in Tables : CliStart(tb)
  <2>1. ~RunOnce /\ ~\E tb \in Tables : CliStart(tb)
    <3>1. run' \notin {run, AbortStaleRuns(StaleRuns)}
      BY <1>1 DEF AbortStaleRuns
    <3> QED BY <3>1 DEF RunOnce, CliStart
  <2>2. ~CoBegin /\ ~CliBegin
    <3>1. \A q \in Runs : run' # BeginRun(q)
      BY <1>0 DEF BeginRun
    <3> QED BY <3>1 DEF CoBegin, CliBegin
  <2>3. ~Tick
    BY <1>0 DEF Tick, RunRow
  <2> QED BY <2>1, <2>2, <2>3
<1>3. CASE CliComplete
  <2>1. cli.run = r
    BY <1>0, <1>3 DEF CliComplete, CompleteRun
  <2> QED BY <1>0, <2>1 DEF CInv, RunsApart
<1>4. CASE CoComplete
  <2>1. co.live /\ co.pc = "complete"
    BY <1>1, <1>4 DEF CoComplete
  <2> QED BY <1>0, <2>1 DEF CInv, RoundsCounted, Waited
<1> QED
  BY <1>1, <1>2, <1>3, <1>4
     DEF Next, Coordinator, RunOnceOf, SyncTable, CoCleanup, CoBeginFails, CoReset,
         PoolStart, WaitPending, WaitAssigned, WaitCancelled, PoolStopped, Cancel,
         DaemonCrash, WkLoop, WkClaim, WkNoClaim, WkFetch, WkNoFetch, WkResolve, WkAbandon,
         WkExport, WkExportFails, WkFinish, WkReturn, Heartbeat, CliCleanup, CliCreate,
         CliClaim, CliFetch, CliError, CliUpload, CliUploadFails, CliUpdate, CliCrash

(* However many statements may fail: a run that RunOnce records completed      *)
(* before a second one has failed leaves none of its backlog unsettled, with   *)
(* or without a `bqcubbit sync` beside it.                                     *)
THEOREM DrainedUnlessPollsFail == Spec => DrainedUnlessTwoFail
<1>1. IInv /\ CInv /\ [Next]_vars =>
         [\A r \in Runs :
             /\ run[r].state # "completed" /\ run'[r].state = "completed" /\ co.run = r
             /\ faults < 2
             => \A t \in co.backlog : task[t].state \in Terminal \cup {"deleted"}]_vars
  BY CompletedDrained DEF Drained, Settled
<1> QED
  BY <1>1, Inductive, RoundsInductive, PTL DEF Spec, DrainedUnlessTwoFail

(* With at most one fault, which is what the runs allow, BacklogDrained holds: *)
(* a single failing list query does not make RunOnce abandon its backlog.      *)
THEOREM OneFaultDrains ==
    ASSUME MaxFaults <= 1
    PROVE  Spec => BacklogDrained
<1>1. IInv /\ CInv /\ [Next]_vars =>
         [\A r \in Runs :
             run[r].state # "completed" /\ run'[r].state = "completed" /\ co.run = r =>
                \A t \in co.backlog : task[t].state \in Terminal \cup {"deleted"}]_vars
  <2>1. IInv => faults < 2
    BY CountsAssumption DEF IInv, TypeOK
  <2> QED BY <2>1, CompletedDrained DEF Drained, Settled
<1> QED
  BY <1>1, Inductive, RoundsInductive, PTL DEF Spec, BacklogDrained
=============================================================================
