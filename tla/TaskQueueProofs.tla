-------------------------- MODULE TaskQueueProofs --------------------------
(***************************************************************************)
(* That the table tasks is a queue, for any number of workers, tasks, runs *)
(* and faults, while no `bqcubbit sync` runs beside the daemon's RunOnce.  *)
(*                                                                         *)
(* What makes it one is that leases are reset only where nobody holds a    *)
(* task: a row that is held is never pending, so whoever still matches its *)
(* generation settles an assigned one.  With overlap the invariant is      *)
(* false: SyncTable keeps its generation while RunOnce puts its row back.  *)
(***************************************************************************)
EXTENDS TaskLifecycleProofs

\* The daemon or SyncTable, and workers only between pool.Start and pool.Stop.
OneAtATime ==
    /\ co.pc = "idle" \/ cli.pc = "off"
    /\ co.pc \notin {"wait", "assigned", "stopping"} => \A w \in Workers : wk[w].pc = "off"

\* The row of a task somebody holds: not up for a claim, and his while assigned.
HeldRow(t, id) ==
    /\ task[t].state \notin {"absent", "pending"}
    /\ task[t].state = "assigned" => task[t].wid = id

HeldRows ==
    /\ \A w \in Workers : wk[w].pc \in Holding => HeldRow(wk[w].task, WorkerId[w])
    /\ cli.pc \in {"upload", "update"} => HeldRow(cli.task, CliId)

QInv == IInv /\ OneAtATime /\ HeldRows

-----------------------------------------------------------------------------
(***************************************************************************)
(* What a step does to the states and the owners of the rows.              *)
(***************************************************************************)
MovesTo(f, ts, to) ==
    \A t \in Tasks :
        /\ f[t].state = IF t \in ts THEN to ELSE task[t].state
        /\ t \notin ts => f[t].wid = task[t].wid

Creates(f) == \E t \in InState("absent") :
    (\A u \in InState("absent") : t <= u) /\ MovesTo(f, {t}, "pending")
Hands(f)   == \E t \in InState("pending") :
    (\A u \in InState("pending") : t <= u) /\ MovesTo(f, {t}, "assigned")
Settles(f) == \E t \in InState("assigned"), s \in Terminal : MovesTo(f, {t}, s)
Resets(f)  == \E ts \in SUBSET InState("assigned") : MovesTo(f, ts, "pending")
Deletes(f) == \E ts \in SUBSET (Tasks \ InState("absent")) : MovesTo(f, ts, "deleted")
Keeps(f)   == MovesTo(f, {}, "pending")

(* Each statement of the store is one operation of the queue; UpdateTaskState *)
(* only if a row that matches the generation is assigned.                     *)
LEMMA StatementsMove ==
    ASSUME TypeOK
    PROVE  /\ Keeps(task)
           /\ \A stale : Deletes(CleanupStaleTasks(stale))
           /\ \A t \in Tasks : \A r, tb : IsNextTask(t) => Creates(CreateTasks(t, r, tb))
           /\ \A t \in Tasks : \A id : IsOldestPending(t) => Hands(ClaimUpdate(t, id))
           /\ \A t \in Tasks, s \in Terminal : \A g :
                 (Matches(t, g) => task[t].state = "assigned") =>
                     Settles(UpdateTaskState(t, s, g)) \/ Keeps(UpdateTaskState(t, s, g))
           /\ \A t \in Tasks : \A g : Keeps(RenewLease(t, g))
           /\ Resets(ResetExpiredLeases)
<1> USE DEF MovesTo, InState
<1>0. \A t \in Tasks : task[t] \in TaskRow
  BY DEF TypeOK
<1>1. Keeps(task)
  BY DEF Keeps
<1>2. ASSUME NEW stale PROVE Deletes(CleanupStaleTasks(stale))
  <2> DEFINE ts == {t \in Tasks : task[t].run \in stale /\ task[t].state # "absent"}
  <2>1. ts \in SUBSET (Tasks \ InState("absent")) /\ MovesTo(CleanupStaleTasks(stale), ts, "deleted")
    BY <1>0 DEF CleanupStaleTasks, TaskRow
  <2> QED BY <2>1 DEF Deletes
<1>3. ASSUME NEW t \in Tasks, NEW r, NEW tb, IsNextTask(t) PROVE Creates(CreateTasks(t, r, tb))
  <2>1. t \in InState("absent") /\ \A u \in InState("absent") : t <= u
    BY <1>3 DEF IsNextTask, Tasks
  <2>2. MovesTo(CreateTasks(t, r, tb), {t}, "pending")
    BY DEF CreateTasks, TypeOK
  <2> QED BY <2>1, <2>2 DEF Creates
<1>4. ASSUME NEW t \in Tasks, NEW id, IsOldestPending(t) PROVE Hands(ClaimUpdate(t, id))
  <2>1. MovesTo(ClaimUpdate(t, id), {t}, "assigned")
    BY <1>0 DEF ClaimUpdate, TypeOK, TaskRow
  <2> QED BY <1>4, <2>1 DEF Hands, IsOldestPending
<1>5. ASSUME NEW t \in Tasks, NEW s \in Terminal, NEW g,
             Matches(t, g) => task[t].state = "assigned"
      PROVE  Settles(UpdateTaskState(t, s, g)) \/ Keeps(UpdateTaskState(t, s, g))
  <2>1. CASE Matches(t, g)
    <3>1. MovesTo(UpdateTaskState(t, s, g), {t}, s)
      BY <1>0, <2>1 DEF UpdateTaskState, TypeOK, TaskRow
    <3> QED BY <1>5, <2>1, <3>1 DEF Settles
  <2>2. CASE ~Matches(t, g)
    BY <1>1, <2>2 DEF UpdateTaskState
  <2> QED BY <2>1, <2>2
<1>6. ASSUME NEW t \in Tasks, NEW g PROVE Keeps(RenewLease(t, g))
  BY <1>0 DEF RenewLease, Keeps, TypeOK, TaskRow
<1>7. Resets(ResetExpiredLeases)
  <2> DEFINE ts == {t \in Tasks : task[t].state = "assigned" /\ task[t].lease = 0}
  <2>1. ts \in SUBSET InState("assigned") /\ MovesTo(ResetExpiredLeases, ts, "pending")
    BY <1>0 DEF ResetExpiredLeases, TaskRow
  <2> QED BY <2>1 DEF Resets
<1> QED
  BY <1>1, <1>2, <1>3, <1>4, <1>5, <1>6, <1>7

(* A writer whose generation matches writes an assigned row. *)
LEMMA MatchIsAssigned ==
    ASSUME QInv, NEW t, NEW g, NEW id, Fenced(t, g), HeldRow(t, id), Matches(t, g)
    PROVE  task[t].state = "assigned"
  BY DEF QInv, IInv, TypeOK, TaskRow, TaskStates, Fenced, HeldRow, Matches, Terminal

(* Every step is one operation of the queue, and leases are reset only while *)
(* RunOnce has no workers yet.                                               *)
LEMMA TableStep ==
    ASSUME QInv, Next
    PROVE  \/ Keeps(task') \/ Creates(task') \/ Hands(task') \/ Settles(task') \/ Deletes(task')
           \/ co.pc = "reset" /\ Resets(task')
<1> USE DEF QInv, IInv
<1>1. CASE UNCHANGED task
  BY <1>1, StatementsMove
<1>2. CASE CoCleanup \/ CliCleanup
  BY <1>2, StatementsMove DEF CoCleanup, CliCleanup
<1>3. CASE CoReset
  BY <1>3, StatementsMove DEF CoReset
<1>4. ASSUME NEW w \in Workers, WkClaim(w) PROVE Hands(task')
  BY <1>4, StatementsMove DEF WkClaim
<1>5. ASSUME NEW w \in Workers, WkExportFails(w) \/ WkFinish(w)
      PROVE  Keeps(task') \/ Settles(task')
  <2>1. wk[w].pc \in Holding /\ wk[w].pc \in Executing
    BY <1>5 DEF WkExportFails, WkFinish, Holding, Executing
  <2>2. Fenced(wk[w].task, wk[w].egen) /\ HeldRow(wk[w].task, WorkerId[w])
    BY <2>1 DEF GenerationsFenced, HeldRows
  <2>3. wk[w].task \in Tasks /\ (Matches(wk[w].task, wk[w].egen) => task[wk[w].task].state = "assigned")
    BY <2>2, MatchIsAssigned DEF Fenced
  <2> QED
    BY <1>5, <2>3, StatementsMove DEF WkExportFails, WkFinish, Terminal
<1>6. ASSUME NEW w \in Workers, WkReturn(w) PROVE Keeps(task') \/ Settles(task')
  <2>1. wk[w].pc \in Holding
    BY <1>6 DEF WkReturn, Holding
  <2>2. Fenced(wk[w].task, wk[w].gen) /\ HeldRow(wk[w].task, WorkerId[w])
    BY <2>1 DEF GenerationsFenced, HeldRows
  <2>3. wk[w].task \in Tasks /\ (Matches(wk[w].task, wk[w].gen) => task[wk[w].task].state = "assigned")
    BY <2>2, MatchIsAssigned DEF Fenced
  <2> QED
    BY <1>6, <2>3, StatementsMove DEF WkReturn, Terminal
<1>7. ASSUME NEW w \in Workers, Heartbeat(w) PROVE Keeps(task')
  <2>1. wk[w].task \in Tasks
    BY <1>7 DEF Heartbeat, GenerationsFenced, Fenced
  <2> QED
    BY <1>7, <2>1, StatementsMove DEF Heartbeat
<1>8. CASE CliCreate
  BY <1>8, StatementsMove DEF CliCreate
<1>9. CASE CliClaim
  BY <1>9, StatementsMove DEF CliClaim
<1>10. CASE CliUploadFails \/ CliUpdate
  <2>1. Fenced(cli.task, cli.gen) /\ HeldRow(cli.task, CliId)
    BY <1>10 DEF CliUploadFails, CliUpdate, GenerationsFenced, HeldRows
  <2>2. cli.task \in Tasks /\ (Matches(cli.task, cli.gen) => task[cli.task].state = "assigned")
    BY <2>1, MatchIsAssigned DEF Fenced
  <2> QED
    BY <1>10, <2>2, StatementsMove DEF CliUploadFails, CliUpdate, Terminal
<1>11. CASE Tick
  BY <1>11 DEF Tick, Keeps, MovesTo, TypeOK, TaskRow
<1> QED
  BY <1>1, <1>2, <1>3, <1>4, <1>5, <1>6, <1>7, <1>8, <1>9, <1>10, <1>11
     DEF Next, Coordinator, RunOnceOf, SyncTable, RunOnce, CoBegin, CoBeginFails,
         PoolStart, WaitPending, WaitAssigned, WaitCancelled, PoolStopped,
         CoComplete, Cancel, DaemonCrash, WkLoop, WkNoClaim, WkFetch, WkNoFetch,
         WkResolve, WkAbandon, WkExport, CliStart, CliBegin, CliFetch, CliError,
         CliUpload, CliComplete, CliCrash

-----------------------------------------------------------------------------
(* RunOnce and SyncTable wait for each other, and PoolStopped for the workers. *)
LEMMA OneAtATimeStep ==
    ASSUME ~Overlap, TypeOK, OneAtATime, Next
    PROVE  OneAtATime'
<1> USE DEF OneAtATime, TypeOK, CoState, WkState, CliState
<1>1. CASE UNCHANGED <<co, wk, cli>>
  BY <1>1
<1>2. CASE RunOnce
  <2>1. UNCHANGED <<wk, cli>> /\ co.pc = "idle" /\ cli.pc = "off"
    BY <1>2 DEF RunOnce
  <2>2. co'.pc \in {"cleanup", "begin"}
    <3>1. IdleCo \in CoState
      BY RestingTypes
    <3>2. /\ [IdleCo EXCEPT !.pc = "cleanup", !.stale = StaleRuns].pc = "cleanup"
          /\ [IdleCo EXCEPT !.pc = "begin"].pc = "begin"
      BY <3>1
    <3> QED BY <1>2, <3>2 DEF RunOnce
  <2> QED BY <2>1, <2>2
<1>3. CASE CoCleanup \/ CoBegin \/ CoBeginFails \/ CoReset
  <2>1. UNCHANGED <<wk, cli>> /\ co.pc \in {"cleanup", "begin", "reset"}
    BY <1>3 DEF CoCleanup, CoBegin, CoBeginFails, CoReset
  <2> QED BY <2>1
<1>4. CASE PoolStart
  <2>1. UNCHANGED cli /\ co.pc = "start" /\ co'.pc = "wait"
    BY <1>4 DEF PoolStart
  <2> QED BY <2>1
<1>5. CASE WaitPending \/ WaitAssigned \/ WaitCancelled
  <2>1. UNCHANGED <<wk, cli>> /\ co.pc \in {"wait", "assigned"}
    BY <1>5 DEF WaitPending, WaitAssigned, WaitCancelled
  <2>2. co'.pc \in {"wait", "assigned", "stopping"}
    BY <1>5 DEF WaitPending, WaitAssigned, WaitCancelled, EndRound
  <2> QED BY <2>1, <2>2
<1>6. CASE PoolStopped \/ CoComplete
  <2>1. UNCHANGED <<wk, cli>> /\ co.pc \in {"stopping", "complete"}
    BY <1>6 DEF PoolStopped, CoComplete
  <2>2. \A w \in Workers : wk[w].pc = "off"
    BY <1>6 DEF PoolStopped, CoComplete
  <2> QED BY <2>1, <2>2
<1>7. CASE Cancel
  BY <1>7 DEF Cancel
<1>8. CASE DaemonCrash
  BY <1>8 DEF DaemonCrash, IdleCo, OffWk
<1>9. ASSUME NEW w \in Workers, RunOnceOf(w) \/ Heartbeat(w) PROVE OneAtATime'
  <2>1. UNCHANGED <<co, cli>> /\ wk[w].pc # "off"
    BY <1>9 DEF RunOnceOf, WkLoop, WkClaim, WkNoClaim, WkFetch, WkNoFetch, WkResolve, WkAbandon,
                WkExport, WkExportFails, WkFinish, WkReturn, Heartbeat, Holding
  <2> QED BY <2>1
<1>10. ASSUME NEW tb \in Tables, CliStart(tb) PROVE OneAtATime'
  BY <1>10 DEF CliStart
<1>11. CASE SyncTable \/ CliCrash
  <2>1. UNCHANGED <<co, wk>> /\ cli.pc # "off"
    BY <1>11 DEF SyncTable, CliCleanup, CliBegin, CliCreate, CliClaim, CliFetch, CliError, CliUpload,
                 CliUploadFails, CliUpdate, CliComplete, CliCrash
  <2> QED BY <2>1
<1>12. CASE Tick
  BY <1>12 DEF Tick
<1> QED
  BY <1>1, <1>2, <1>3, <1>4, <1>5, <1>6, <1>7, <1>8, <1>9, <1>10, <1>11, <1>12
     DEF Next, Coordinator

(* A held row is not claimed, created or reset under its holder. *)
LEMMA HeldRowStays ==
    ASSUME QInv, Next, co.pc # "reset", NEW t \in Tasks, NEW id, HeldRow(t, id)
    PROVE  HeldRow(t, id)'
<1> SUFFICES /\ task'[t].state \notin {"absent", "pending"}
             /\ task'[t].state = "assigned" => task'[t].wid = id
  BY DEF HeldRow
<1> USE DEF HeldRow, MovesTo, InState, Terminal
<1>1. CASE Keeps(task')
  BY <1>1 DEF Keeps
<1>2. CASE Creates(task')
  BY <1>2 DEF Creates
<1>3. CASE Hands(task')
  BY <1>3 DEF Hands
<1>4. CASE Settles(task')
  BY <1>4 DEF Settles
<1>5. CASE Deletes(task')
  BY <1>5 DEF Deletes
<1> QED
  BY <1>1, <1>2, <1>3, <1>4, <1>5, TableStep

(* Whoever holds a task fetched its row assigned to him, and no reset has *)
(* happened since: RunOnce resets before it starts the workers.           *)
LEMMA HeldRowsStep ==
    ASSUME QInv, Next
    PROVE  HeldRows'
<1>1. ASSUME NEW v \in Workers, wk'[v].pc \in Holding PROVE HeldRow(wk[v].task, WorkerId[v])'
  <2>1. CASE /\ wk[v].pc \in Holding /\ wk'[v].task = wk[v].task
    <3>1. wk[v].pc # "off" /\ wk[v].task \in Tasks /\ HeldRow(wk[v].task, WorkerId[v])
      BY <2>1 DEF QInv, HeldRows, IInv, GenerationsFenced, Fenced, Holding
    <3>2. co.pc # "reset"
      BY <3>1 DEF QInv, OneAtATime
    <3> QED BY <2>1, <3>1, <3>2, HeldRowStays DEF HeldRow
  <2>2. CASE /\ UNCHANGED task /\ wk'[v].task \in Tasks
             /\ task[wk'[v].task].state = "assigned" /\ task[wk'[v].task].wid = WorkerId[v]
    BY <2>2 DEF HeldRow
  <2> QED BY <1>1, <2>1, <2>2, WorkerClaims DEF QInv, IInv, KeepsClaim
<1>2. ASSUME cli'.pc \in {"upload", "update"} PROVE HeldRow(cli.task, CliId)'
  <2>1. CASE cli.pc \in {"upload", "update"} /\ cli'.task = cli.task
    <3>1. cli.pc # "off" /\ cli.task \in Tasks /\ HeldRow(cli.task, CliId)
      BY <2>1 DEF QInv, HeldRows, IInv, GenerationsFenced, Fenced
    <3>2. co.pc # "reset"
      BY <3>1 DEF QInv, OneAtATime
    <3> QED BY <2>1, <3>1, <3>2, HeldRowStays DEF HeldRow
  <2>2. CASE /\ UNCHANGED task /\ cli'.task \in Tasks
             /\ task[cli'.task].state = "assigned" /\ task[cli'.task].wid = CliId
    BY <2>2 DEF HeldRow
  <2> QED BY <1>2, <2>1, <2>2, CliClaims DEF QInv, IInv
<1> QED
  BY <1>1, <1>2 DEF HeldRows

(* Without overlap QInv is an invariant: a task that is held is not pending. *)
THEOREM HeldRowsInvariant ==
    ASSUME ~Overlap
    PROVE  Spec => []QInv
<1>1. Init => OneAtATime /\ HeldRows
  BY DEF Init, OneAtATime, HeldRows, Holding, OffWk, OffCli, IdleCo
<1>2. IInv' /\ QInv /\ [Next]_vars => QInv'
  <2>1. IInv' /\ QInv /\ Next => QInv'
    BY OneAtATimeStep, HeldRowsStep DEF QInv, IInv
  <2>2. IInv' /\ QInv /\ UNCHANGED vars => QInv'
    BY DEF QInv, OneAtATime, HeldRows, HeldRow, vars
  <2> QED BY <2>1, <2>2
<1>3. IInv /\ OneAtATime /\ HeldRows => QInv
  BY DEF QInv
<1> QED
  BY <1>1, <1>2, <1>3, Inductive, PTL DEF Spec

-----------------------------------------------------------------------------
(* Without overlap the tasks table is a queue: whatever fails, is cancelled,   *)
(* crashes or comes late, every step is one of the queue's operations on the   *)
(* rows' states, or changes none.                                              *)
THEOREM QueueRefinement ==
    ASSUME ~Overlap
    PROVE  Spec => ImplementsTaskQueue
<1>1. Init => Queue!Init
  BY DEF Init, NoTask, Queue!Init, QueueStatus, Queue!Tasks, Tasks
<1>2. QInv /\ QInv' /\ [Next]_vars => [Queue!Next]_QueueStatus
  <2> SUFFICES ASSUME QInv, QInv', [Next]_vars PROVE [Queue!Next]_QueueStatus
    OBVIOUS
  <2>0. Queue!Tasks = Tasks
    BY DEF Queue!Tasks, Tasks
  <2>1. CASE UNCHANGED vars
    BY <2>1 DEF vars, QueueStatus
  <2>2. CASE Next
    <3>1. /\ Queue!With("absent") = InState("absent")
          /\ Queue!With("pending") = InState("pending")
          /\ Queue!With("held") = InState("assigned")
      BY <2>0 DEF Queue!With, QueueStatus, InState, QInv, IInv, TypeOK, TaskRow, TaskStates
    <3>2. ASSUME NEW ts \in SUBSET Tasks, NEW to, to # "assigned", MovesTo(task', ts, to)
          PROVE  Queue!Move(ts, to)
      BY <2>0, <3>2 DEF Queue!Move, QueueStatus, MovesTo
    <3>3. CASE Keeps(task')
      BY <3>3 DEF Keeps, MovesTo, QueueStatus
    <3>4. CASE Creates(task')
      <4>1. Queue!Create
        BY <3>1, <3>2, <3>4 DEF Creates, Queue!Create, InState
      <4> QED BY <4>1 DEF Queue!Next
    <3>5. CASE Hands(task')
      <4>1. PICK t \in InState("pending") :
               (\A u \in InState("pending") : t <= u) /\ MovesTo(task', {t}, "assigned")
        BY <3>5 DEF Hands
      <4>2. Queue!Move({t}, "held")
        BY <2>0, <4>1 DEF Queue!Move, QueueStatus, MovesTo
      <4>3. Queue!Claim
        BY <3>1, <4>1, <4>2 DEF Queue!Claim
      <4> QED BY <4>3 DEF Queue!Next
    <3>6. CASE Settles(task')
      <4>1. Queue!Settle
        BY <3>1, <3>2, <3>6 DEF Settles, Queue!Settle, InState, Terminal
      <4> QED BY <4>1 DEF Queue!Next
    <3>7. CASE Resets(task')
      <4>1. PICK ts \in SUBSET InState("assigned") : MovesTo(task', ts, "pending")
        BY <3>7 DEF Resets
      <4>2. Queue!Move(ts, "pending")
        BY <3>2, <4>1 DEF InState
      <4>3. Queue!Release
        BY <3>1, <4>1, <4>2 DEF Queue!Release
      <4> QED BY <4>3 DEF Queue!Next
    <3>8. CASE Deletes(task')
      <4>1. PICK ts \in SUBSET (Tasks \ InState("absent")) : MovesTo(task', ts, "deleted")
        BY <3>8 DEF Deletes
      <4>2. Queue!Move(ts, "deleted")
        BY <3>2, <4>1
      <4>3. Queue!Drop
        BY <2>0, <3>1, <4>1, <4>2 DEF Queue!Drop
      <4> QED BY <4>3 DEF Queue!Next
    <3> QED
      BY <2>2, <3>3, <3>4, <3>5, <3>6, <3>7, <3>8, TableStep
  <2> QED BY <2>1, <2>2
<1> QED
  BY <1>1, <1>2, HeldRowsInvariant, PTL DEF Spec, ImplementsTaskQueue, Queue!Spec

-----------------------------------------------------------------------------
(***************************************************************************)
(* Who holds what.                                                         *)
(***************************************************************************)

\* Pool.Start numbers its workers.
DistinctIds == \A v, w \in Workers : WorkerId[v] = WorkerId[w] => v = w

ClaimsApart ==
    \A v, w \in Workers :
        v # w /\ wk[v].pc \in Holding /\ wk[w].pc \in Holding =>
            wk[v].task # wk[w].task \/ wk[v].gen # wk[w].gen

(* A fetch finds a row of the worker's own id, which no other worker holds. *)
LEMMA ClaimsApartStep ==
    ASSUME DistinctIds, QInv, ClaimsApart, Next
    PROVE  ClaimsApart'
<1> SUFFICES ASSUME NEW v \in Workers, NEW w \in Workers, v # w,
                    wk'[v].pc \in Holding, wk'[w].pc \in Holding,
                    wk'[v].task = wk'[w].task, wk'[v].gen = wk'[w].gen
             PROVE  FALSE
  BY DEF ClaimsApart
<1> DEFINE Held(u)    == wk[u].pc \in Holding /\ wk'[u].task = wk[u].task /\ wk'[u].gen = wk[u].gen
           Fetched(u) == /\ task[wk'[u].task].state = "assigned"
                         /\ task[wk'[u].task].wid = WorkerId[u]
<1>1. /\ Held(v) \/ Fetched(v)
      /\ Held(w) \/ Fetched(w)
  BY WorkerClaims DEF QInv, IInv, KeepsClaim
<1>2. ~(Held(v) /\ Held(w))
  BY DEF ClaimsApart
<1>3. ~(Fetched(v) /\ Fetched(w))
  BY DEF DistinctIds
<1>4. \A u \in Workers : Held(u) => HeldRow(wk'[u].task, WorkerId[u])
  BY DEF QInv, HeldRows
<1> QED
  BY <1>1, <1>2, <1>3, <1>4 DEF HeldRow, DistinctIds

(* Without overlap, and with worker ids as the pool gives them, ClaimTask's    *)
(* UPDATE and SELECT hand a task to one claimant, although they are not one    *)
(* transaction and SyncTable writes the id of the pool's first worker.         *)
THEOREM ClaimsAreExclusive ==
    ASSUME ~Overlap, DistinctIds
    PROVE  Spec => []ExclusiveClaim
<1>1. Init => ClaimsApart
  BY DEF Init, ClaimsApart, Holding, OffWk
<1>2. QInv /\ ClaimsApart /\ [Next]_vars => ClaimsApart'
  <2>1. QInv /\ ClaimsApart /\ Next => ClaimsApart'
    BY ClaimsApartStep
  <2>2. ClaimsApart /\ UNCHANGED vars => ClaimsApart'
    BY DEF ClaimsApart, vars
  <2> QED BY <2>1, <2>2
<1>3. QInv /\ ClaimsApart => ExclusiveClaim
  <2> SUFFICES ASSUME QInv, ClaimsApart, NEW c \in Claims, NEW d \in Claims, c # d,
                      c[2] = d[2], c[3] = d[3]
               PROVE  FALSE
    BY DEF ExclusiveClaim
  <2>1. CASE cli.pc \in {"upload", "update"}
    <3>1. \A w \in Workers : wk[w].pc \notin Holding
      BY <2>1 DEF QInv, OneAtATime, Holding
    <3> QED BY <2>1, <3>1 DEF Claims
  <2>2. CASE cli.pc \notin {"upload", "update"}
    <3>1. PICK v \in Workers : wk[v].pc \in Holding /\ c = <<v, wk[v].task, wk[v].gen>>
      BY <2>2 DEF Claims
    <3>2. PICK w \in Workers : wk[w].pc \in Holding /\ d = <<w, wk[w].task, wk[w].gen>>
      BY <2>2 DEF Claims
    <3> QED BY <3>1, <3>2 DEF ClaimsApart
  <2> QED BY <2>1, <2>2
<1> QED
  BY <1>1, <1>2, <1>3, HeldRowsInvariant, PTL DEF Spec

-----------------------------------------------------------------------------
(***************************************************************************)
(* What is completed has been exported, with and without overlap, as long  *)
(* as every `bqcubbit sync` is configured for the same table.              *)
(***************************************************************************)
OneTable == \A a, b \in Tables : a = b

\* Rows and SyncTable's locals name a configured table.
TablesKnown ==
    /\ \A t \in Tasks : task[t].state # "absent" => task[t].table \in Tables
    /\ cli.pc # "off" => cli.table \in Tables

\* A task somebody holds was created; past the upload it is exported.
Served ==
    /\ \A w \in Workers :
          /\ wk[w].pc \in Holding => task[wk[w].task].state # "absent"
          /\ wk[w].pc \in {"finish", "succeeded"} => exported[wk[w].task]
    /\ cli.pc \in {"upload", "update"} => task[cli.task].state # "absent"
    /\ cli.pc = "update" => exported[cli.task]

XInv == TablesKnown /\ Served /\ CompletedIsExported

\* The tasks that somebody is about to mark completed.
Done ==
    {wk[w].task : w \in {v \in Workers : wk[v].pc \in {"finish", "succeeded"}}}
    \cup (IF cli.pc = "update" THEN {cli.task} ELSE {})

\* The rows keep their tables, and only the tasks in done become completed.
Changes(f, done) ==
    \A t \in Tasks :
        /\ f[t].table = task[t].table
        /\ f[t].state # "absent" => task[t].state # "absent"
        /\ f[t].state = "completed" => task[t].state = "completed" \/ t \in done

(* Every statement but the INSERT keeps the rows' tables, and only            *)
(* UpdateTaskState completes a task.                                          *)
LEMMA StatementsChange ==
    ASSUME TypeOK, NEW done
    PROVE  /\ Changes(task, done)
           /\ \A stale : Changes(CleanupStaleTasks(stale), done)
           /\ \A t \in Tasks : \A id : IsOldestPending(t) => Changes(ClaimUpdate(t, id), done)
           /\ \A t \in Tasks, s \in Terminal : \A g :
                 (s = "completed" => t \in done) => Changes(UpdateTaskState(t, s, g), done)
           /\ \A t \in Tasks : \A g : Changes(RenewLease(t, g), done)
           /\ Changes(ResetExpiredLeases, done)
<1> USE DEF Changes, Terminal
<1>0. \A t \in Tasks : task[t] \in TaskRow
  BY DEF TypeOK
<1>1. Changes(task, done)
  OBVIOUS
<1>2. \A stale : Changes(CleanupStaleTasks(stale), done)
  BY <1>0 DEF CleanupStaleTasks, TaskRow
<1>3. \A t \in Tasks : \A id : IsOldestPending(t) => Changes(ClaimUpdate(t, id), done)
  BY <1>0 DEF ClaimUpdate, IsOldestPending, InState, TypeOK, TaskRow
<1>4. \A t \in Tasks, s \in Terminal : \A g :
         (s = "completed" => t \in done) => Changes(UpdateTaskState(t, s, g), done)
  BY <1>0 DEF UpdateTaskState, Matches, TypeOK, TaskRow
<1>5. \A t \in Tasks : \A g : Changes(RenewLease(t, g), done)
  BY <1>0 DEF RenewLease, TypeOK, TaskRow
<1>6. Changes(ResetExpiredLeases, done)
  BY <1>0 DEF ResetExpiredLeases, TaskRow
<1> QED
  BY <1>1, <1>2, <1>3, <1>4, <1>5, <1>6

(* A task is completed by a worker past its upload, or by SyncTable past its. *)
LEMMA StepChanges ==
    ASSUME IInv, Next, ~CliCreate
    PROVE  Changes(task', Done)
<1> USE DEF IInv
<1>1. CASE UNCHANGED task
  BY <1>1, StatementsChange
<1>2. CASE CoCleanup \/ CliCleanup
  BY <1>2, StatementsChange DEF CoCleanup, CliCleanup
<1>3. CASE CoReset
  BY <1>3, StatementsChange DEF CoReset
<1>4. ASSUME NEW w \in Workers, WkClaim(w) PROVE Changes(task', Done)
  BY <1>4, StatementsChange DEF WkClaim
<1>5. ASSUME NEW w \in Workers, WkExportFails(w) \/ WkFinish(w) \/ WkReturn(w)
      PROVE  Changes(task', Done)
  <2>1. wk[w].task \in Tasks
    BY <1>5 DEF WkExportFails, WkFinish, WkReturn, GenerationsFenced, Fenced, Holding
  <2>2. wk[w].pc \in {"finish", "succeeded"} => wk[w].task \in Done
    BY DEF Done
  <2>3. CASE WkExportFails(w)
    BY <2>1, <2>3, StatementsChange DEF WkExportFails, Terminal
  <2>4. CASE WkFinish(w)
    BY <2>1, <2>2, <2>4, StatementsChange DEF WkFinish, Terminal
  <2>5. CASE WkReturn(w)
    BY <2>1, <2>2, <2>5, StatementsChange DEF WkReturn, Terminal
  <2> QED
    BY <1>5, <2>3, <2>4, <2>5
<1>6. ASSUME NEW w \in Workers, Heartbeat(w) PROVE Changes(task', Done)
  <2>1. wk[w].task \in Tasks
    BY <1>6 DEF Heartbeat, GenerationsFenced, Fenced
  <2> QED
    BY <1>6, <2>1, StatementsChange DEF Heartbeat
<1>7. CASE CliClaim
  BY <1>7, StatementsChange DEF CliClaim
<1>8. CASE CliUploadFails \/ CliUpdate
  <2>1. cli.task \in Tasks
    BY <1>8 DEF CliUploadFails, CliUpdate, GenerationsFenced, Fenced
  <2>2. cli.pc = "update" => cli.task \in Done
    BY DEF Done
  <2> QED
    BY <1>8, <2>1, <2>2, StatementsChange DEF CliUploadFails, CliUpdate, Terminal
<1>9. CASE Tick
  BY <1>9 DEF Tick, Changes, TypeOK, TaskRow
<1> QED
  BY <1>1, <1>2, <1>3, <1>4, <1>5, <1>6, <1>7, <1>8, <1>9
     DEF Next, Coordinator, RunOnceOf, SyncTable, RunOnce, CoBegin, CoBeginFails,
         PoolStart, WaitPending, WaitAssigned, WaitCancelled, PoolStopped,
         CoComplete, Cancel, DaemonCrash, WkLoop, WkNoClaim, WkFetch, WkNoFetch,
         WkResolve, WkAbandon, WkExport, CliStart, CliBegin, CliFetch, CliError,
         CliUpload, CliComplete, CliCrash

(* SyncTable keeps the table it was started for, and creates tasks of it. *)
LEMMA TablesKnownStep ==
    ASSUME IInv, TablesKnown, Next
    PROVE  TablesKnown'
<1>1. \A t \in Tasks : task'[t].state # "absent" => task'[t].table \in Tables
  <2>1. CASE CliCreate
    BY <2>1 DEF CliCreate, CreateTasks, TablesKnown, IInv, TypeOK
  <2>2. CASE ~CliCreate
    BY <2>2, StepChanges DEF Changes, TablesKnown
  <2> QED BY <2>1, <2>2
<1>2. cli'.pc # "off" => cli'.table \in Tables
  <2> USE DEF TablesKnown, IInv, TypeOK, CliState
  <2>1. CASE UNCHANGED cli
    BY <2>1
  <2>2. ASSUME NEW tb \in Tables, CliStart(tb) PROVE cli'.table \in Tables
    <3>1. OffCli \in CliState
      BY RestingTypes
    <3>2. cli'.table = tb
      BY <2>2, <3>1 DEF CliStart
    <3> QED BY <3>2
  <2>3. CASE CliCleanup \/ CliBegin \/ CliCreate \/ CliClaim \/ CliFetch \/ CliError
    BY <2>3 DEF CliCleanup, CliBegin, CliCreate, CliClaim, CliFetch, CliError
  <2>4. CASE CliUpload \/ CliUploadFails
    BY <2>4 DEF CliUpload, CliUploadFails
  <2>5. CASE CliUpdate
    <3>1. cli'.table = cli.table /\ cli.pc = "update"
      BY <2>5 DEF CliUpdate
    <3> QED BY <3>1
  <2>6. CASE CliComplete \/ CliCrash
    BY <2>6 DEF CliComplete, CliCrash, OffCli
  <2> HIDE DEF TablesKnown, IInv, TypeOK, CliState
  <2> QED
    BY <2>1, <2>2, <2>3, <2>4, <2>5, <2>6
       DEF Next, Coordinator, RunOnceOf, SyncTable, RunOnce, CoCleanup, CoBegin,
           CoBeginFails, CoReset, PoolStart, WaitPending, WaitAssigned, WaitCancelled,
           PoolStopped, CoComplete, Cancel, DaemonCrash, WkLoop, WkClaim, WkNoClaim,
           WkFetch, WkNoFetch, WkResolve, WkAbandon, WkExport, WkExportFails, WkFinish,
           WkReturn, Heartbeat, Tick
<1> QED
  BY <1>1, <1>2 DEF TablesKnown

(* What has been uploaded stays uploaded. *)
LEMMA ExportedStays ==
    ASSUME IInv, Next, NEW t \in Tasks, exported[t]
    PROVE  exported'[t]
<1>1. \A tb : Uploaded(tb)[t]
  BY DEF Uploaded
<1> QED
  BY <1>1
     DEF Next, Coordinator, RunOnceOf, SyncTable, RunOnce, CoCleanup, CoBegin,
         CoBeginFails, CoReset, PoolStart, WaitPending, WaitAssigned, WaitCancelled,
         PoolStopped, CoComplete, Cancel, DaemonCrash, WkLoop, WkClaim, WkNoClaim,
         WkFetch, WkNoFetch, WkResolve, WkAbandon, WkExport, WkExportFails, WkFinish,
         WkReturn, Heartbeat, Tick, CliStart, CliCleanup, CliBegin, CliCreate, CliClaim,
         CliFetch, CliError, CliUpload, CliUploadFails, CliUpdate, CliComplete, CliCrash

(* A worker gets past the upload by its own upload of the task's table. *)
LEMMA WorkerServes ==
    ASSUME IInv, Served, Next, NEW v \in Workers, wk'[v].pc \in {"finish", "succeeded"}
    PROVE  exported'[wk'[v].task]
<1> USE DEF IInv, TypeOK, WkState
<1>1. CASE wk[v].pc \in {"finish", "succeeded"} /\ wk'[v].task = wk[v].task
  <2>1. wk[v].task \in Tasks /\ exported[wk[v].task]
    BY <1>1 DEF Served, GenerationsFenced, Fenced, Holding
  <2> QED BY <1>1, <2>1, ExportedStays
<1>2. CASE WkExport(v)
  <2>1. /\ wk[v].pc \in Holding /\ wk'[v].task = wk[v].task
        /\ exported' = Uploaded(task[wk[v].task].table)
    BY <1>2 DEF WkExport, Holding
  <2>2. wk[v].task \in Tasks /\ task[wk[v].task].state # "absent"
    BY <2>1 DEF Served, GenerationsFenced, Fenced
  <2> QED BY <2>1, <2>2 DEF Uploaded
<1>3. CASE UNCHANGED wk
  BY <1>1, <1>3
<1>4. ASSUME PoolStart \/ DaemonCrash PROVE FALSE
  BY <1>4 DEF PoolStart, DaemonCrash, LoopWk, OffWk
<1>5. CASE Tick
  <2>1. wk'[v].pc = wk[v].pc /\ wk'[v].task = wk[v].task
    BY <1>5 DEF Tick
  <2> QED BY <1>1, <2>1
<1>6. ASSUME NEW w \in Workers,
             WkLoop(w) \/ WkClaim(w) \/ WkNoClaim(w) \/ WkFetch(w) \/ WkNoFetch(w) \/ WkReturn(w)
      PROVE  wk[v].pc \in {"finish", "succeeded"} /\ wk'[v].task = wk[v].task
  <2>1. w # v => UNCHANGED wk[v]
    BY <1>6 DEF WkLoop, WkClaim, WkNoClaim, WkFetch, WkNoFetch, WkReturn
  <2>2. w = v => wk'[v].pc \in {"off", "loop", "claim", "fetch", "resolve"}
    <3>1. WkLoop(w) \/ WkNoClaim(w) \/ WkNoFetch(w) \/ WkReturn(w) => wk'[w].pc \in {"off", "loop", "claim"}
      BY DEF WkLoop, WkNoClaim, WkNoFetch, WkReturn, LoopWk, OffWk
    <3>2. WkClaim(w) => wk'[w].pc = "fetch"
      BY DEF WkClaim
    <3>3. WkFetch(w) => wk'[w].pc = "resolve"
      BY DEF WkFetch, LoopWk
    <3> QED BY <1>6, <3>1, <3>2, <3>3
  <2> QED
    BY <2>1, <2>2
<1>7. ASSUME NEW w \in Workers,
             \/ WkResolve(w) \/ WkAbandon(w) \/ WkExportFails(w) \/ WkFinish(w) \/ Heartbeat(w)
             \/ WkExport(w) /\ w # v
      PROVE  wk[v].pc \in {"finish", "succeeded"} /\ wk'[v].task = wk[v].task
  <2>1. CASE WkResolve(w) \/ WkAbandon(w) \/ WkExportFails(w)
    BY <2>1 DEF WkResolve, WkAbandon, WkExportFails
  <2>2. CASE WkFinish(w)
    BY <2>2 DEF WkFinish
  <2>3. CASE Heartbeat(w)
    <3>1. wk'[v].pc = wk[v].pc /\ wk'[v].task = wk[v].task
      BY <2>3 DEF Heartbeat
    <3> QED BY <3>1
  <2>4. CASE WkExport(w) /\ w # v
    BY <2>4 DEF WkExport
  <2> QED
    BY <1>7, <2>1, <2>2, <2>3, <2>4
<1> HIDE DEF IInv, TypeOK, WkState
<1> QED
  BY <1>1, <1>2, <1>3, <1>4, <1>5, <1>6, <1>7
     DEF Next, Coordinator, RunOnceOf, SyncTable, RunOnce, CoCleanup, CoBegin,
         CoBeginFails, CoReset, WaitPending, WaitAssigned, WaitCancelled,
         PoolStopped, CoComplete, Cancel, CliStart, CliCleanup, CliBegin, CliCreate,
         CliClaim, CliFetch, CliError, CliUpload, CliUploadFails, CliUpdate,
         CliComplete, CliCrash

(* SyncTable gets past its upload by uploading its table, which with one table *)
(* is that of whichever task it has claimed.                                   *)
LEMMA CliServes ==
    ASSUME OneTable, IInv, TablesKnown, Served, Next, cli'.pc = "update"
    PROVE  exported'[cli'.task]
<1> USE DEF IInv, TypeOK, CliState
<1>1. CASE UNCHANGED cli
  <2>1. cli.task \in Tasks /\ exported[cli.task]
    BY <1>1 DEF Served, GenerationsFenced, Fenced
  <2> QED BY <1>1, <2>1, ExportedStays
<1>2. CASE CliUpload
  <2>1. cli.pc = "upload" /\ cli'.task = cli.task /\ exported' = Uploaded(cli.table)
    BY <1>2 DEF CliUpload
  <2>2. cli.task \in Tasks /\ task[cli.task].state # "absent"
    BY <2>1 DEF Served, GenerationsFenced, Fenced
  <2>3. task[cli.task].table = cli.table
    BY <2>1, <2>2 DEF OneTable, TablesKnown
  <2> QED BY <2>1, <2>2, <2>3 DEF Uploaded
<1>3. ASSUME NEW tb \in Tables, CliStart(tb) PROVE FALSE
  BY <1>3 DEF CliStart, OffCli
<1>4. ASSUME CliCleanup \/ CliBegin \/ CliCreate \/ CliClaim \/ CliFetch \/ CliError PROVE FALSE
  BY <1>4 DEF CliCleanup, CliBegin, CliCreate, CliClaim, CliFetch, CliError
<1>5. ASSUME CliUploadFails \/ CliUpdate PROVE FALSE
  <2>1. cli'.pc = "complete"
    BY <1>5 DEF CliUploadFails, CliUpdate
  <2> QED BY <2>1
<1>6. ASSUME CliComplete \/ CliCrash PROVE FALSE
  BY <1>6 DEF CliComplete, CliCrash, OffCli
<1> HIDE DEF IInv, TypeOK, CliState
<1> QED
  BY <1>1, <1>2, <1>3, <1>4, <1>5, <1>6
     DEF Next, Coordinator, RunOnceOf, SyncTable, RunOnce, CoCleanup, CoBegin,
         CoBeginFails, CoReset, PoolStart, WaitPending, WaitAssigned, WaitCancelled,
         PoolStopped, CoComplete, Cancel, DaemonCrash, WkLoop, WkClaim, WkNoClaim,
         WkFetch, WkNoFetch, WkResolve, WkAbandon, WkExport, WkExportFails, WkFinish,
         WkReturn, Heartbeat, Tick

(* XInv is kept by every step. *)
LEMMA ServedStep ==
    ASSUME OneTable, IInv, XInv, Next
    PROVE  XInv'
<1> USE DEF XInv
<1>1. TablesKnown'
  BY TablesKnownStep
<1>2. \A t \in Tasks : task'[t].state = "absent" => task[t].state = "absent"
  BY StepAdvances DEF Advances
<1>3. Served'
  <2>1. ASSUME NEW v \in Workers, wk'[v].pc \in Holding PROVE task'[wk'[v].task].state # "absent"
    <3>1. wk'[v].task \in Tasks /\ task[wk'[v].task].state # "absent"
      BY <2>1, WorkerClaims DEF IInv, KeepsClaim, Served, GenerationsFenced, Fenced
    <3> QED BY <1>2, <3>1
  <2>2. ASSUME cli'.pc \in {"upload", "update"} PROVE task'[cli'.task].state # "absent"
    <3>1. cli'.task \in Tasks /\ task[cli'.task].state # "absent"
      BY <2>2, CliClaims DEF IInv, Served, GenerationsFenced, Fenced
    <3> QED BY <1>2, <3>1
  <2> QED BY <2>1, <2>2, WorkerServes, CliServes DEF Served
<1>4. CompletedIsExported'
  <2> SUFFICES ASSUME NEW t \in Tasks, task'[t].state = "completed" PROVE exported'[t]
    BY DEF CompletedIsExported, InState
  <2>1. exported[t]
    <3>1. task[t].state = "completed" => exported[t]
      BY DEF CompletedIsExported, InState
    <3>2. t \in Done => exported[t]
      BY DEF Done, Served
    <3>3. CASE CliCreate
      <4>1. task[t].state = "completed"
        BY <3>3 DEF CliCreate, CreateTasks, IInv, TypeOK
      <4> QED BY <3>1, <4>1
    <3>4. CASE ~CliCreate
      BY <3>1, <3>2, <3>4, StepChanges DEF Changes
    <3> QED BY <3>3, <3>4
  <2> QED BY <2>1, ExportedStays
<1> QED
  BY <1>1, <1>3, <1>4

(* No task is recorded completed whose table was not uploaded after it was     *)
(* created, with or without overlap and however often it changed hands, as     *)
(* long as only one table is ever configured for `bqcubbit sync`.              *)
THEOREM CompletionIsEarned ==
    ASSUME OneTable
    PROVE  Spec => []CompletedIsExported
<1>1. Init => XInv
  BY DEF Init, XInv, TablesKnown, Served, CompletedIsExported, InState, NoTask, OffWk, OffCli, Holding
<1>2. IInv /\ XInv /\ [Next]_vars => XInv'
  <2>1. IInv /\ XInv /\ Next => XInv'
    BY ServedStep
  <2>2. XInv /\ UNCHANGED vars => XInv'
    BY DEF XInv, TablesKnown, Served, CompletedIsExported, InState, vars
  <2> QED BY <2>1, <2>2
<1>3. XInv => CompletedIsExported
  BY DEF XInv
<1> QED
  BY <1>1, <1>2, <1>3, Inductive, PTL DEF Spec
=============================================================================
