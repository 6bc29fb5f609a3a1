-------------------------- MODULE MCTaskLifecycle --------------------------
(* Small instances of TaskLifecycle: the pool's first worker writes the same *)
(* worker_id as SyncTable, as in the code.                                   *)
EXTENDS TaskLifecycle, TLC

CONSTANTS w0, w1

OneWorkerId == w0 :> "worker-0"
TwoWorkerIds == w0 :> "worker-0" @@ w1 :> "worker-1"
=============================================================================
