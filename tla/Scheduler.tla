------------------------------ MODULE Scheduler ------------------------------
(***************************************************************************)
(* `bqcubbit serve`: the cron scheduler, its overlap policy and the job    *)
(* lock in SQLite, for several daemons on one state store.                 *)
(*                                                                         *)
(* Cron starts a goroutine per trigger, so a daemon can have several       *)
(* runSync calls in flight.  RunOnce is a black box here that may return   *)
(* at any moment (TaskLifecycle is its inside); a cancelled one returns    *)
(* sooner or later, not within the five seconds that runSync sleeps.       *)
(*                                                                         *)
(* The lock row has no owner column.  The model remembers whose INSERT     *)
(* wrote it, to say what a release removes; no guard reads that.           *)
(***************************************************************************)
EXTENDS Naturals

CONSTANTS
    Daemons,   \* `bqcubbit serve` processes on one state store
    Slots,     \* bound: runSync calls in flight in one daemon
    None,      \* no row in job_locks
    Policy,    \* scheduler.overlap_policy
    LockTTL,   \* ticks until the lock is expired: two hours
    Expires,   \* does datetime(acquired_at, ...) give a time, or NULL
    MaxStops   \* bound: daemons stopped or killed

Jobs == Daemons \X Slots
Restarts == "cancel_and_restart"

ASSUME PolicyAssumption == Policy \in {"skip", "queue", Restarts}
ASSUME BoundsAssumption == LockTTL \in Nat /\ MaxStops \in Nat /\ Expires \in BOOLEAN
ASSUME NoJobAssumption == None \notin Jobs

VARIABLES
    lock,    \* table job_locks: the job whose row is there, or None
    age,     \* ticks since acquired_at, up to one past the TTL
    mode,    \* where each daemon's runServe is
    flag,    \* each coordinator's running flag
    pc,      \* where each runSync is
    stops    \* history: daemons stopped so far

vars == <<lock, age, mode, flag, pc, stops>>

Modes == {"down", "initial", "cron"}
Steps == {"off", "expire", "insert", "cancel", "run", "running", "release"}

(* The lock row, the daemons and their jobs have their types. *)
TypeOK ==
    /\ lock \in Jobs \cup {None} /\ age \in 0..(LockTTL + 1)
    /\ mode \in [Daemons -> Modes] /\ flag \in [Daemons -> BOOLEAN]
    /\ pc \in [Jobs -> Steps]
    /\ stops \in 0..MaxStops

Init ==
    /\ lock = None /\ age = 0
    /\ mode = [d \in Daemons |-> "down"] /\ flag = [d \in Daemons |-> FALSE]
    /\ pc = [j \in Jobs |-> "off"]
    /\ stops = 0

GoTo(j, step) == pc' = [pc EXCEPT ![j] = step]

-----------------------------------------------------------------------------
(* runServe: the initial sync calls RunOnce without the lock. *)
ServeInitial(d) ==
    /\ mode[d] = "down"
    /\ mode' = [mode EXCEPT ![d] = "initial"]
    /\ flag' = [flag EXCEPT ![d] = TRUE]
    /\ UNCHANGED <<lock, age, pc, stops>>

\* The initial RunOnce has returned, then Scheduler.Start.
InitialDone(d) ==
    /\ mode[d] = "initial"
    /\ mode' = [mode EXCEPT ![d] = "cron"]
    /\ flag' = [flag EXCEPT ![d] = FALSE]
    /\ UNCHANGED <<lock, age, pc, stops>>

\* initial_sync_mode is not full_refresh: straight to Scheduler.Start.
ServeCron(d) ==
    /\ mode[d] = "down"
    /\ mode' = [mode EXCEPT ![d] = "cron"]
    /\ UNCHANGED <<lock, age, flag, pc, stops>>

\* SIGTERM or a crash.  Start returns without waiting for the jobs, and a
\* deferred ReleaseJobLock has a cancelled context: the row stays.
Stop(d) ==
    /\ mode[d] # "down" /\ stops < MaxStops
    /\ stops' = stops + 1
    /\ mode' = [mode EXCEPT ![d] = "down"]
    /\ flag' = [flag EXCEPT ![d] = FALSE]
    /\ pc' = [j \in Jobs |-> IF j[1] = d THEN "off" ELSE pc[j]]
    /\ UNCHANGED <<lock, age>>

-----------------------------------------------------------------------------
(* Scheduler.runSync. *)
Trigger(j) ==
    /\ mode[j[1]] = "cron" /\ pc[j] = "off"
    /\ GoTo(j, "expire")
    /\ UNCHANGED <<lock, age, mode, flag, stops>>

\* AcquireJobLock's DELETE of an expired row.  Its error is ignored.
AcquireExpire(j) ==
    /\ pc[j] = "expire"
    /\ lock' = lock \/ (Expires /\ age > LockTTL /\ lock' = None)
    /\ GoTo(j, "insert")
    /\ UNCHANGED <<age, mode, flag, stops>>

MutInsertIgnoresRows(j) ==
    /\ pc[j] = "insert"
    /\ lock' = IF lock = None THEN j ELSE lock
    /\ GoTo(j, "run")
    /\ UNCHANGED <<age, mode, flag, stops>>

\* AcquireJobLock's INSERT OR IGNORE: a row was written.
AcquireInsert(j) ==
    /\ pc[j] = "insert" /\ lock = None
    /\ lock' = j /\ age' = 0
    /\ GoTo(j, "run")
    /\ UNCHANGED <<mode, flag, stops>>

MutHeldFallsThrough(j) ==
    /\ pc[j] = "insert" /\ lock # None
    /\ GoTo(j, IF Policy = Restarts THEN "cancel" ELSE "release")
    /\ UNCHANGED <<lock, age, mode, flag, stops>>

\* The row was there: "skip" and "queue" both return, the trigger is dropped.
LockHeld(j) ==
    /\ pc[j] = "insert" /\ lock # None
    /\ GoTo(j, IF Policy = Restarts THEN "cancel" ELSE "off")
    /\ UNCHANGED <<lock, age, mode, flag, stops>>

\* A statement of AcquireJobLock fails: runSync returns the error.
AcquireFails(j) ==
    /\ pc[j] = "insert"
    /\ GoTo(j, "off")
    /\ UNCHANGED <<lock, age, mode, flag, stops>>

\* This daemon's Cancel, five seconds of sleep, and on as if acquired.
CancelPrevious(j) ==
    /\ pc[j] = "cancel"
    /\ GoTo(j, "run")
    /\ UNCHANGED <<lock, age, mode, flag, stops>>

MutRunOnceNoFlag(j) ==
    /\ pc[j] = "run"
    /\ flag' = [flag EXCEPT ![j[1]] = TRUE]
    /\ GoTo(j, "running")
    /\ UNCHANGED <<lock, age, mode, stops>>

RunOnce(j) ==
    /\ pc[j] = "run" /\ ~flag[j[1]]
    /\ flag' = [flag EXCEPT ![j[1]] = TRUE]
    /\ GoTo(j, "running")
    /\ UNCHANGED <<lock, age, mode, stops>>

\* "sync run already in progress"
RunOnceRefused(j) ==
    /\ pc[j] = "run" /\ flag[j[1]]
    /\ GoTo(j, "release")
    /\ UNCHANGED <<lock, age, mode, flag, stops>>

MutReturnsFlagSet(j) ==
    /\ pc[j] = "running"
    /\ GoTo(j, "release")
    /\ UNCHANGED <<lock, age, mode, flag, stops>>

RunOnceReturns(j) ==
    /\ pc[j] = "running"
    /\ flag' = [flag EXCEPT ![j[1]] = FALSE]
    /\ GoTo(j, "release")
    /\ UNCHANGED <<lock, age, mode, stops>>

\* The deferred ReleaseJobLock: DELETE ... WHERE lock_name=?, whoever's row.
ReleaseJobLock(j) ==
    /\ pc[j] = "release"
    /\ lock' = None
    /\ GoTo(j, "off")
    /\ UNCHANGED <<age, mode, flag, stops>>

\* ... and when it fails, its error is dropped.
ReleaseFails(j) ==
    /\ pc[j] = "release"
    /\ GoTo(j, "off")
    /\ UNCHANGED <<lock, age, mode, flag, stops>>

Tick ==
    /\ lock # None /\ age <= LockTTL
    /\ age' = age + 1
    /\ UNCHANGED <<lock, mode, flag, pc, stops>>

RunSync(j) ==
    \/ Trigger(j) \/ AcquireExpire(j) \/ AcquireInsert(j) \/ LockHeld(j) \/ AcquireFails(j)
    \/ CancelPrevious(j) \/ RunOnce(j) \/ RunOnceRefused(j) \/ RunOnceReturns(j)
    \/ ReleaseJobLock(j) \/ ReleaseFails(j)

Next ==
    \/ \E d \in Daemons : ServeInitial(d) \/ InitialDone(d) \/ ServeCron(d) \/ Stop(d)
    \/ \E j \in Jobs : RunSync(j)
    \/ Tick

Spec == Init /\ [][Next]_vars

-----------------------------------------------------------------------------
(* Overlap prevention: of all the runSync calls of all the daemons on one      *)
(* state store, at most one is inside RunOnce.                                 *)
RunsExclusive ==
    \A i, j \in Jobs : pc[i] = "running" /\ pc[j] = "running" => i = j

(* ReleaseJobLock deletes the row by name: it never deletes a row that another *)
(* runSync wrote.                                                              *)
OwnerReleases ==
    [][\A j \in Jobs : pc[j] = "release" /\ pc'[j] = "off" /\ lock' # lock => lock = j]_vars

(* The coordinator's running flag is set exactly while a RunOnce of its daemon *)
(* is in progress, the initial one or a scheduled one, so that no error path   *)
(* or restart leaves a daemon refusing every run.                              *)
FlagAccurate ==
    \A d \in Daemons :
        flag[d] <=> mode[d] = "initial" \/ \E s \in Slots : pc[<<d, s>>] = "running"
=============================================================================
