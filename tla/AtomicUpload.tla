----------------------------- MODULE AtomicUpload -----------------------------
(***************************************************************************)
(* What the callers of a streaming export rely on: the staging object      *)
(* appears in one step or never, it appears before the call succeeds and   *)
(* not after it has failed, and it holds the whole table unless the stream *)
(* of rows broke off, when it holds the rows up to there.  These are the   *)
(* steps IncrementalSync has for an upload: Upload, UploadTruncated and    *)
(* ExportFails.                                                            *)
(***************************************************************************)
EXTENDS Naturals, Sequences

CONSTANTS Footer,  \* the chunk a parquet file ends with
          None     \* no object

VARIABLES rows,    \* records in the table
          status,  \* "running", "stored" or "failed"
          object,  \* the staging object
          cut      \* has the stream of rows broken off

vars == <<rows, status, object, cut>>

\* A parquet file of the table's first k records: header, records, footer.
FileOf(k) == [i \in 1..(k + 2) |-> IF i = k + 2 THEN Footer ELSE i - 1]

Init == rows \in Nat /\ status = "running" /\ object = None /\ cut = FALSE

BreakOff == ~cut /\ cut' = TRUE /\ UNCHANGED <<rows, status, object>>

Store ==
    /\ status = "running" /\ status' = "stored"
    /\ \E k \in 0..rows : (k = rows \/ cut) /\ object' = FileOf(k)
    /\ UNCHANGED <<rows, cut>>

Fail ==
    /\ status = "running" /\ status' = "failed"
    /\ UNCHANGED <<rows, object, cut>>

Next == BreakOff \/ Store \/ Fail

Spec == Init /\ [][Next]_vars
=============================================================================
