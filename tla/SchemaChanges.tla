---------------------------- MODULE SchemaChanges ----------------------------
(***************************************************************************)
(* internal/schema: a change between two versions of a table's fields, and *)
(* what the changes mean for a reader of the files already written.        *)
(*                                                                         *)
(* Beside them the reference they are compared with: a schema is the set   *)
(* of its columns, each with its path, its type and its mode.              *)
(***************************************************************************)
EXTENDS Naturals, Sequences, Functions

NoField == [name |-> "", type |-> "", mode |-> "", fields |-> <<>>]

MutChangeName(type, path, before, after) ==
    [type |-> type, path |-> <<path[Len(path)]>>, before |-> before, after |-> after]

Change(type, path, before, after) ==
    [type |-> type, path |-> path, before |-> before, after |-> after]

Widening ==
    [INT64    |-> {"FLOAT64", "NUMERIC", "BIGNUMERIC"},
     FLOAT64  |-> {"NUMERIC", "BIGNUMERIC"},
     NUMERIC  |-> {"BIGNUMERIC"},
     DATE     |-> {"DATETIME", "TIMESTAMP"},
     DATETIME |-> {"TIMESTAMP"}]

MutWideningReversed(before, after) ==
    after.type \in DOMAIN Widening /\ before.type \in Widening[after.type]

IsTypeWidening(before, after) ==
    before.type \in DOMAIN Widening /\ after.type \in Widening[before.type]

\* An empty mode is NULLABLE.
IsBreaking(c) ==
    \/ c.type = "DROP"
    \/ c.type = "TYPE_CHANGE" /\ ~IsTypeWidening(c.before, c.after)
    \/ c.type = "ADD" /\ c.after.mode \notin {"", "NULLABLE", "REPEATED"}

ClassifyChanges(changes) ==
    CASE changes = <<>> -> "NONE"
      [] \E i \in DOMAIN changes : IsBreaking(changes[i]) -> "BREAKING"
      [] OTHER -> "ADDITIVE"

-----------------------------------------------------------------------------
PathsOf(cols)  == {c.path : c \in cols}
TypeAt(cols, path) == (CHOOSE c \in cols : c.path = path).type
ModeAt(cols, path) == (CHOOSE c \in cols : c.path = path).mode

\* Both schemas have a column at the path, of the same type.
Agree(old, new, path) ==
    path \in PathsOf(old) /\ path \in PathsOf(new) /\ TypeAt(old, path) = TypeAt(new, path)

\* ... and at every path that encloses it.
Comparable(old, new, path) ==
    \A i \in 1..(Len(path) - 1) : Agree(old, new, SubSeq(path, 1, i))

ChangedPaths(old, new) ==
    {<<"ADD", p>> : p \in {q \in PathsOf(new) \ PathsOf(old) : Comparable(old, new, q)}}
    \cup {<<"DROP", p>> : p \in {q \in PathsOf(old) \ PathsOf(new) : Comparable(old, new, q)}}
    \cup {<<"TYPE_CHANGE", p>> : p \in {q \in PathsOf(old) \cap PathsOf(new) :
              Comparable(old, new, q) /\ TypeAt(old, q) # TypeAt(new, q)}}

\* The documented chains of types (bigqueryexporter-analysis.md:653-656): each can be
\* read as any that follows it.  isTypeWidening's table is judged by them.
Chains == {<<"INT64", "FLOAT64", "NUMERIC", "BIGNUMERIC">>, <<"DATE", "DATETIME", "TIMESTAMP">>}

Wider(t, u) ==
    \E c \in Chains : \E i, j \in DOMAIN c : i < j /\ c[i] = t /\ c[j] = u

\* A reader of the new schema finds every column of an old file, of its type or of a
\* narrower one, and needs no column that an old file lacks.
ColumnsReadable(old, new) ==
    /\ \A p \in PathsOf(old) \cap PathsOf(new) :
          TypeAt(old, p) = TypeAt(new, p) \/ Wider(TypeAt(old, p), TypeAt(new, p))
    /\ PathsOf(old) \subseteq PathsOf(new)
    /\ \A p \in PathsOf(new) \ PathsOf(old) :
          \/ ModeAt(new, p) \in {"", "NULLABLE", "REPEATED"}
          \/ \E i \in 1..(Len(p) - 1) : SubSeq(p, 1, i) \notin PathsOf(old)

\* ... and finds lists where it expects lists (bigqueryexporter-analysis.md:647, 664).
\* That a column becomes REQUIRED is breaking by line 648 of that document and is not
\* by line 666, and is left out.
ListsKept(old, new) ==
    \A p \in PathsOf(old) \cap PathsOf(new) :
        ModeAt(old, p) = "REPEATED" <=> ModeAt(new, p) = "REPEATED"

ReadsOldFiles(old, new) == ColumnsReadable(old, new) /\ ListsKept(old, new)

\* The changes are those between the two schemas, each once and with its columns.
ExactChanges(ch, old, new) ==
    /\ {<<ch[i].type, ch[i].path>> : i \in DOMAIN ch} = ChangedPaths(old, new)
    /\ IsInjective([i \in DOMAIN ch |-> ch[i].path])
    /\ \A i \in DOMAIN ch :
          /\ ch[i].path \in PathsOf(old) => ch[i].before.type = TypeAt(old, ch[i].path)
          /\ ch[i].path \in PathsOf(new) => /\ ch[i].after.type = TypeAt(new, ch[i].path)
                                            /\ ch[i].after.mode = ModeAt(new, ch[i].path)

\* The columns without their modes.
TypedPaths(cols) == {<<c.path, c.type>> : c \in cols}

\* What ClassifyChanges can know: diffFields does not compare the modes of a column that
\* both schemas have, so a change of such a mode does not count here, whatever it does to
\* a reader.  BREAKING: a column of the old files is gone, has a type that is not wider,
\* or a REQUIRED column is new.  NONE: the same columns of the same types.
SoundlyClassified(type, old, new) ==
    /\ type = "BREAKING" <=> ~ColumnsReadable(old, new)
    /\ type = "NONE" <=> TypedPaths(old) = TypedPaths(new)

\* What BigQuery lets a schema be: a column for each path, the columns it is nested
\* in, and only columns of a type that is never widened have others nested in them.
Scalars == UNION {Range(c) : c \in Chains}

WellFormed(cols) ==
    /\ \A c, d \in cols : c.path = d.path => c = d
    /\ \A c \in cols : \A i \in 1..(Len(c.path) - 1) :
          /\ SubSeq(c.path, 1, i) \in PathsOf(cols)
          /\ TypeAt(cols, SubSeq(c.path, 1, i)) \notin Scalars
=============================================================================
