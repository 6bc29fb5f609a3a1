------------------------- MODULE MCIncrementalSync -------------------------
(* Instances of IncrementalSync; every constant is given by the cfg. *)
EXTENDS IncrementalSync
=============================================================================
