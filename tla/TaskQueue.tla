------------------------------ MODULE TaskQueue ------------------------------
(***************************************************************************)
(* What the state store's tasks table promises the coordinator, its        *)
(* workers and SyncTable: a queue.  Tasks are numbered as they are         *)
(* created; the oldest pending one is handed out; a held one is settled    *)
(* once, or goes back to pending when its lease has run out; a settled one *)
(* stays as it is until the rows of its run are deleted.  Leases, worker   *)
(* ids, generations and the processes themselves are left out.             *)
(***************************************************************************)
EXTENDS Naturals

CONSTANT NumTasks

Tasks == 1..NumTasks

VARIABLE status  \* per task: absent, pending, held, completed, failed, deleted

With(s) == {t \in Tasks : status[t] = s}
\* The tasks of ts, all in the state given, move to another one.
Move(ts, to) == status' = [t \in Tasks |-> IF t \in ts THEN to ELSE status[t]]

Init == status = [t \in Tasks |-> "absent"]

Create ==
    \E t \in With("absent") : (\A u \in With("absent") : t <= u) /\ Move({t}, "pending")

Claim ==
    \E t \in With("pending") : (\A u \in With("pending") : t <= u) /\ Move({t}, "held")

Settle == \E t \in With("held"), result \in {"completed", "failed"} : Move({t}, result)

Release == \E ts \in SUBSET With("held") : Move(ts, "pending")

Drop == \E ts \in SUBSET (Tasks \ With("absent")) : Move(ts, "deleted")

Next == Create \/ Claim \/ Settle \/ Release \/ Drop

Spec == Init /\ [][Next]_status
=============================================================================
