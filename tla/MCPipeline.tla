----------------------------- MODULE MCPipeline -----------------------------
(* Instances of Pipeline; every constant is given by the cfg. *)
EXTENDS Pipeline
=============================================================================
