---------------------------- MODULE MCAlgorithms ----------------------------
(***************************************************************************)
(* The pure functions over bounded inputs: each behaviour picks an input   *)
(* of Diff or of groupIntoBatches and computes the output.                 *)
(***************************************************************************)
EXTENDS SchemaDiff, Batching

CONSTANTS LastDay,   \* bound: days of a table
          MaxSize    \* bound: batch_size_days, also given as 0 or negative

VARIABLES input, output  \* of Diff

OrderedNames == <<"a", "b">>

-----------------------------------------------------------------------------
Leaves(name, types, modes) ==
    [name: {name}, type: types, mode: modes, fields: {<<>>}]
FieldLists(A, B) ==
    {<<f>> : f \in A \cup B} \cup {<<f, g>> : f \in A, g \in B}
    \cup {<<g, f>> : f \in A, g \in B}

Nested == FieldLists(Leaves("a", {"INT64", "STRING"}, {"NULLABLE"}),
                Leaves("b", {"STRING"}, {"NULLABLE", "REQUIRED"}))
Fields(name) ==
    Leaves(name, {"INT64", "NUMERIC"}, {"", "REQUIRED", "REPEATED"})
    \cup [name: {name}, type: {"RECORD"}, mode: {"NULLABLE"}, fields: Nested]

Schemas == FieldLists(Fields("a"), Fields("b")) \cup {<<>>}

ASSUME SchemasAssumption == \A s \in Schemas : WellFormed(Columns(s, <<>>))

\* A set of days, in order, perhaps followed by the id without a date.
AllIds == Append([d \in 1..LastDay |-> d], NoDate)
PartitionLists == {SelectSeq(AllIds, LAMBDA p : p \in S) : S \in SUBSET Range(AllIds)}
BatchSizes == (-1)..MaxSize

NoInput  == [kind |-> "batch"]
NoOutput == [done |-> FALSE]

\* groupIntoBatches is not called.
NotGrouping ==
    /\ partitions = <<>> /\ days = 0 /\ pc = "return" /\ start = 0 /\ end = 0
    /\ next = 1 /\ batch = <<>> /\ result = <<>>

AlgInit ==
    /\ output = NoOutput
    /\ \/ input \in [kind: {"schema"}, old: Schemas, new: Schemas] /\ NotGrouping
       \/ input = NoInput /\ Init

Compare ==
    /\ input.kind = "schema" /\ ~output.done
    /\ output' = [done |-> TRUE, diff |-> Diff(input.old, input.new)]
    /\ UNCHANGED <<input, vars>>

AlgNext == Compare \/ (Next /\ UNCHANGED <<input, output>>)

AlgSpec == AlgInit /\ [][AlgNext]_<<input, output, vars>>

-----------------------------------------------------------------------------
Compared == input.kind = "schema" /\ output.done
Old == Columns(input.old, <<>>)
New == Columns(input.new, <<>>)

(* CanonicalHash tells schemas apart exactly when they differ in a column, its *)
(* place in the nesting, its type or its mode, and never by the order of their *)
(* fields at any level: a separator or a bracket less, and two schemas of      *)
(* different nesting would share a hash.                                       *)
HashSeparates ==
    Compared => (output.diff.oldHash = output.diff.newHash <=> Old = New)

(* Diff reports each added, dropped or retyped column once, at its full path   *)
(* and with the two columns, and nothing below a column that was itself added, *)
(* dropped or retyped.                                                         *)
DiffIsExact ==
    Compared => ExactChanges(output.diff.changes, Old, New)

(* The classification follows from the columns' presence and types, by the     *)
(* documented chains of wider types and not by the code's table: BREAKING      *)
(* exactly if a column is gone, has got a type that is not wider, or is new    *)
(* and REQUIRED in a column the old files have; NONE exactly if the columns    *)
(* and their types are the same.  The modes of a column both schemas have are  *)
(* excluded: diffFields does not compare them, and a change of such a mode     *)
(* alone is NONE, also where it breaks readers (ReadableUnlessBreaking).       *)
ClassifiedSoundly ==
    Compared => SoundlyClassified(output.diff.changeType, Old, New)

(* What bigqueryexporter-analysis.md says with the modes counted ("REPEATED -> *)
(* non-REPEATED: Breaking at Parquet level ... Force breaking change", line    *)
(* 664): a change that is not called BREAKING leaves the old files readable.   *)
(* It does not hold (SchemaModes.cfg): a column that starts or stops being     *)
(* REPEATED and keeps its type changes the hash, gives no change in the list,  *)
(* and the two schemas' difference is classified NONE.                         *)
ReadableUnlessBreaking ==
    Compared /\ output.diff.changeType # "BREAKING" => ReadsOldFiles(Old, New)
=============================================================================
