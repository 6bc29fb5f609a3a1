---------------------------- MODULE MCTableExport ----------------------------
(* Instances of TableExport: workers and processes are interchangeable, and so *)
(* are the stamps of the clock.                                                *)
EXTENDS TableExport, TLC

Symmetry == Permutations(Workers) \cup Permutations(Syncs) \cup Permutations(Stamps)
=============================================================================
