---------------------------- MODULE MCScheduler ----------------------------
(* Instances of Scheduler; every constant is given by the cfg. *)
EXTENDS Scheduler
=============================================================================
