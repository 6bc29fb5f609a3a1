-------------------------- MODULE SchedulerProofs --------------------------
(***************************************************************************)
(* Overlap prevention, for any number of daemons, triggers and restarts,   *)
(* under the policies that give up when the lock is held and while no lock *)
(* outlives its TTL: whoever is past AcquireJobLock is the one whose row   *)
(* is in job_locks.  Under cancel_and_restart, and once a lock can expire, *)
(* the invariant is false, and so is the theorem.                          *)
(***************************************************************************)
EXTENDS Scheduler, TLAPS

Past == {"run", "running", "release"}

\* Nobody is past AcquireJobLock without the row, or on the way to Cancel.
HoldsRow == \A j \in Jobs : (pc[j] \in Past => lock = j) /\ pc[j] # "cancel"

IInv == TypeOK /\ HoldsRow

(* TypeOK holds initially and is kept by every step, under every policy. *)
LEMMA TypeStep == (Init => TypeOK) /\ (TypeOK /\ [Next]_vars => TypeOK')
<1> USE BoundsAssumption DEF TypeOK, Modes, Steps
<1>1. Init => TypeOK
  BY DEF Init
<1>2. ASSUME TypeOK, Next PROVE TypeOK'
  <2>1. ASSUME NEW d \in Daemons, ServeInitial(d) \/ InitialDone(d) \/ ServeCron(d)
        PROVE  TypeOK'
    BY <1>2, <2>1 DEF ServeInitial, InitialDone, ServeCron
  <2>2. ASSUME NEW d \in Daemons, Stop(d) PROVE TypeOK'
    BY <1>2, <2>2 DEF Stop
  <2>3. ASSUME NEW j \in Jobs, RunSync(j) PROVE TypeOK'
    <3>1. \A step \in Steps : [pc EXCEPT ![j] = step] \in [Jobs -> Steps]
      BY <1>2
    <3>2. CASE Trigger(j) \/ LockHeld(j) \/ AcquireFails(j) \/ CancelPrevious(j)
               \/ RunOnceRefused(j) \/ ReleaseFails(j)
      BY <1>2, <3>1, <3>2
         DEF GoTo, Trigger, LockHeld, AcquireFails, CancelPrevious, RunOnceRefused, ReleaseFails
    <3>3. CASE AcquireExpire(j) \/ AcquireInsert(j) \/ ReleaseJobLock(j)
      BY <1>2, <3>1, <3>3 DEF GoTo, AcquireExpire, AcquireInsert, ReleaseJobLock
    <3>4. CASE RunOnce(j) \/ RunOnceReturns(j)
      <4>1. \A b \in BOOLEAN : [flag EXCEPT ![j[1]] = b] \in [Daemons -> BOOLEAN]
        BY <1>2
      <4> QED
        BY <1>2, <3>1, <3>4, <4>1 DEF GoTo, RunOnce, RunOnceReturns
    <3> QED
      BY <2>3, <3>2, <3>3, <3>4 DEF RunSync
  <2>4. CASE Tick
    BY <1>2, <2>4 DEF Tick
  <2> QED
    BY <1>2, <2>1, <2>2, <2>3, <2>4 DEF Next
<1>3. TypeOK /\ UNCHANGED vars => TypeOK'
  BY DEF vars
<1> QED
  BY <1>1, <1>2, <1>3

(* Without expiry and without cancel_and_restart every step keeps the row with *)
(* the one runSync that is past AcquireJobLock.                                *)
LEMMA HoldsRowStep ==
    ASSUME ~Expires, Policy # Restarts, IInv, [Next]_vars
    PROVE  HoldsRow'
<1> USE NoJobAssumption DEF IInv, TypeOK, HoldsRow, Past
<1>1. ASSUME NEW d \in Daemons, ServeInitial(d) \/ InitialDone(d) \/ ServeCron(d)
      PROVE  HoldsRow'
  BY <1>1 DEF ServeInitial, InitialDone, ServeCron
<1>2. ASSUME NEW d \in Daemons, Stop(d) PROVE HoldsRow'
  BY <1>2 DEF Stop
<1>3. ASSUME NEW j \in Jobs, RunSync(j) PROVE HoldsRow'
  <2>1. CASE Trigger(j) \/ AcquireExpire(j) \/ LockHeld(j) \/ AcquireFails(j) \/ ReleaseFails(j)
    BY <2>1 DEF GoTo, Trigger, AcquireExpire, LockHeld, AcquireFails, ReleaseFails
  <2>2. CASE AcquireInsert(j)
    BY <2>2 DEF GoTo, AcquireInsert
  <2>3. CASE CancelPrevious(j) \/ RunOnce(j) \/ RunOnceRefused(j) \/ RunOnceReturns(j)
    BY <2>3 DEF GoTo, CancelPrevious, RunOnce, RunOnceRefused, RunOnceReturns
  <2>4. CASE ReleaseJobLock(j)
    BY <2>4 DEF GoTo, ReleaseJobLock
  <2> QED
    BY <1>3, <2>1, <2>2, <2>3, <2>4 DEF RunSync
<1>4. CASE Tick
  BY <1>4 DEF Tick
<1>5. CASE UNCHANGED vars
  BY <1>5 DEF vars
<1> QED
  BY <1>1, <1>2, <1>3, <1>4, <1>5 DEF Next

(* The row belongs to whoever is past AcquireJobLock, for ever. *)
THEOREM RowInvariant ==
    ASSUME ~Expires, Policy # Restarts
    PROVE  Spec => []IInv
<1>1. Init => IInv
  BY TypeStep DEF Init, IInv, HoldsRow, Past
<1>2. IInv /\ [Next]_vars => IInv'
  BY TypeStep, HoldsRowStep DEF IInv
<1> QED
  BY <1>1, <1>2, PTL DEF Spec

(* Of all the runSync calls of all the daemons on one state store, at most one *)
(* is inside RunOnce.                                                          *)
THEOREM Exclusion ==
    ASSUME ~Expires, Policy # Restarts
    PROVE  Spec => []RunsExclusive
<1>1. IInv => RunsExclusive
  BY DEF IInv, HoldsRow, Past, RunsExclusive
<1> QED
  BY <1>1, RowInvariant, PTL

(* ReleaseJobLock, which deletes the row by name, deletes only its own. *)
THEOREM OwnRelease ==
    ASSUME ~Expires, Policy # Restarts
    PROVE  Spec => OwnerReleases
<1>1. IInv /\ [Next]_vars =>
         [\A j \in Jobs : pc[j] = "release" /\ pc'[j] = "off" /\ lock' # lock => lock = j]_vars
  BY DEF IInv, HoldsRow, Past
<1> QED
  BY <1>1, RowInvariant, PTL DEF Spec, OwnerReleases

-----------------------------------------------------------------------------
(***************************************************************************)
(* The running flag, under every policy and with expiring locks: it is the *)
(* flag, and not the lock, that keeps the runs of one daemon apart.        *)
(***************************************************************************)
\* A daemon has jobs only under cron, and one of them in RunOnce at most.
OneRunEach ==
    /\ \A j \in Jobs : pc[j] # "off" => mode[j[1]] = "cron"
    /\ \A i, j \in Jobs : i[1] = j[1] /\ pc[i] = "running" /\ pc[j] = "running" => i = j

\* The flag is that of the initial run or of the job in RunOnce.
FlagOfRun ==
    /\ \A d \in Daemons : mode[d] = "initial" => flag[d]
    /\ \A j \in Jobs : pc[j] = "running" => flag[j[1]]
    /\ \A d \in Daemons : flag[d] /\ mode[d] # "initial" =>
          \E j \in Jobs : j[1] = d /\ pc[j] = "running"

FlagInv == TypeOK /\ OneRunEach /\ FlagOfRun

(* No step of a daemon or of a runSync leaves the flag behind. *)
LEMMA FlagStep == FlagInv /\ [Next]_vars => FlagInv'
<1> SUFFICES ASSUME FlagInv, [Next]_vars PROVE OneRunEach' /\ FlagOfRun'
  BY TypeStep DEF FlagInv
<1>0. \A j \in Jobs : j[1] \in Daemons
  BY DEF Jobs
<1> USE <1>0 DEF FlagInv, TypeOK, OneRunEach, FlagOfRun
<1>1. ASSUME NEW d \in Daemons, ServeInitial(d) \/ InitialDone(d) \/ ServeCron(d)
      PROVE  OneRunEach' /\ FlagOfRun'
  BY <1>1 DEF ServeInitial, InitialDone, ServeCron, Modes
<1>2. ASSUME NEW d \in Daemons, Stop(d) PROVE OneRunEach' /\ FlagOfRun'
  BY <1>2 DEF Stop
<1>3. ASSUME NEW j \in Jobs, RunSync(j) PROVE OneRunEach' /\ FlagOfRun'
  <2>1. CASE Trigger(j)
    BY <2>1 DEF GoTo, Trigger
  <2>2. CASE AcquireExpire(j) \/ AcquireInsert(j) \/ LockHeld(j) \/ AcquireFails(j)
             \/ CancelPrevious(j) \/ RunOnceRefused(j) \/ ReleaseJobLock(j) \/ ReleaseFails(j)
    <3>1. /\ UNCHANGED <<mode, flag>> /\ pc[j] \notin {"off", "running"}
          /\ \E step \in Steps \ {"running"} : pc' = [pc EXCEPT ![j] = step]
      BY <2>2 DEF GoTo, AcquireExpire, AcquireInsert, LockHeld, AcquireFails, CancelPrevious,
                  RunOnceRefused, ReleaseJobLock, ReleaseFails, Steps
    <3> QED BY <3>1
  <2>3. CASE RunOnce(j)
    BY <2>3 DEF GoTo, RunOnce
  <2>4. CASE RunOnceReturns(j)
    BY <2>4 DEF GoTo, RunOnceReturns
  <2> QED
    BY <1>3, <2>1, <2>2, <2>3, <2>4 DEF RunSync
<1>4. CASE Tick
  BY <1>4 DEF Tick
<1>5. CASE UNCHANGED vars
  BY <1>5 DEF vars
<1> QED
  BY <1>1, <1>2, <1>3, <1>4, <1>5 DEF Next

(* FlagInv is an invariant, whatever the policy and the lock do. *)
LEMMA FlagInvariant == Spec => []FlagInv
<1>1. Init => FlagInv
  BY TypeStep DEF Init, FlagInv, OneRunEach, FlagOfRun
<1> QED
  BY <1>1, FlagStep, PTL DEF Spec

(* The running flag of a coordinator is set exactly while a RunOnce of its     *)
(* daemon is in progress: no error path, refused run or restart leaves a       *)
(* daemon that refuses every later run.                                        *)
THEOREM FlagIsAccurate == Spec => []FlagAccurate
<1>1. FlagInv => FlagAccurate
  <2> SUFFICES ASSUME FlagInv, NEW d \in Daemons
               PROVE  flag[d] <=> mode[d] = "initial" \/ \E s \in Slots : pc[<<d, s>>] = "running"
    BY DEF FlagAccurate
  <2>1. ASSUME NEW s \in Slots, pc[<<d, s>>] = "running" PROVE flag[d]
    <3>1. <<d, s>> \in Jobs /\ <<d, s>>[1] = d
      BY DEF Jobs
    <3> QED BY <2>1, <3>1 DEF FlagInv, FlagOfRun
  <2>2. ASSUME NEW j \in Jobs, j[1] = d, pc[j] = "running"
        PROVE  \E s \in Slots : pc[<<d, s>>] = "running"
    <3>1. j = <<d, j[2]>> /\ j[2] \in Slots
      BY <2>2 DEF Jobs
    <3> QED BY <2>2, <3>1
  <2> QED BY <2>1, <2>2 DEF FlagInv, FlagOfRun
<1> QED
  BY <1>1, FlagInvariant, PTL

(* A single daemon never has two runs in RunOnce, under any policy and with    *)
(* locks that expire under a run: what the lock no longer keeps apart,         *)
(* RunOnce's flag refuses.  Exclusion above is about several daemons and needs *)
(* the lock; this one does not look at it.                                     *)
THEOREM OneDaemonExclusion ==
    ASSUME \A d, e \in Daemons : d = e
    PROVE  Spec => []RunsExclusive
<1>1. \A i, j \in Jobs : i[1] = j[1]
  BY DEF Jobs
<1>2. FlagInv => RunsExclusive
  BY <1>1 DEF FlagInv, OneRunEach, RunsExclusive
<1> QED
  BY <1>2, FlagInvariant, PTL
=============================================================================
