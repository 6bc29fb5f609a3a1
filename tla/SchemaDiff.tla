------------------------------ MODULE SchemaDiff ------------------------------
(***************************************************************************)
(* internal/schema: the canonical hash of a table's fields, and the        *)
(* comparison of two versions of them.                                     *)
(*                                                                         *)
(* A field is a record of name, type, mode and its nested fields, in the   *)
(* order BigQuery gives them; no two fields of a list have the same name.  *)
(* Names are compared as strings: NameOrder lists them in that order.  The *)
(* SHA-256 of a byte string is the byte string, written as the sequence of *)
(* what canonicalBytes puts into it.                                       *)
(***************************************************************************)
EXTENDS SchemaChanges, SequencesExt

CONSTANT NameOrder

Rank(name) == CHOOSE i \in DOMAIN NameOrder : NameOrder[i] = name
Names(fields) == {fields[i].name : i \in DOMAIN fields}
\* The maps diffFields builds.
Named(fields, name) == fields[CHOOSE i \in DOMAIN fields : fields[i].name = name]

-----------------------------------------------------------------------------
MutSortTopOnly(fields) == SortSeq(fields, LAMBDA f, g : Rank(f.name) < Rank(g.name))

RECURSIVE SortFieldsCopy(_)
SortFieldsCopy(fields) ==
    LET nested == [i \in DOMAIN fields |->
                      [fields[i] EXCEPT !.fields = SortFieldsCopy(fields[i].fields)]]
    IN  SortSeq(nested, LAMBDA f, g : Rank(f.name) < Rank(g.name))

NUL == "NUL"

RECURSIVE CanonicalBytes(_)
CanonicalBytes(fields) ==
    LET Bytes(f) == <<f.name, NUL, f.type, NUL, f.mode>>
                    \o (IF f.fields = <<>> THEN <<>>
                        ELSE <<NUL, "{">> \o CanonicalBytes(f.fields) \o <<"}">>)
    IN  FlattenSeq([i \in DOMAIN fields |->
                       (IF i > 1 THEN <<NUL>> ELSE <<>>) \o Bytes(fields[i])])

CanonicalHash(fields) == CanonicalBytes(SortFieldsCopy(fields))

-----------------------------------------------------------------------------
RECURSIVE DiffFields(_, _, _)
DiffFields(old, new, prefix) ==
    LET all == SetToSortSeq(Names(old) \cup Names(new), LAMBDA m, n : Rank(m) < Rank(n))
        ChangesOf(name) ==
            LET path == Append(prefix, name)
            IN  CASE name \notin Names(old) ->
                        <<Change("ADD", path, NoField, Named(new, name))>>
                  [] name \notin Names(new) ->
                        <<Change("DROP", path, Named(old, name), NoField)>>
                  [] OTHER ->
                        LET f == Named(old, name)
                            g == Named(new, name)
                        IN  IF f.type # g.type THEN <<Change("TYPE_CHANGE", path, f, g)>>
                            ELSE DiffFields(f.fields, g.fields, path)
    IN  FlattenSeq([i \in DOMAIN all |-> ChangesOf(all[i])])

Diff(old, new) ==
    LET sortedOld == SortFieldsCopy(old)
        sortedNew == SortFieldsCopy(new)
        changes   == IF CanonicalHash(sortedOld) = CanonicalHash(sortedNew) THEN <<>>
                     ELSE DiffFields(sortedOld, sortedNew, <<>>)
    IN  [changeType |-> ClassifyChanges(changes), changes |-> changes,
         oldHash |-> CanonicalHash(sortedOld), newHash |-> CanonicalHash(sortedNew)]

-----------------------------------------------------------------------------
\* The columns of a list of fields, for the reference of SchemaChanges.
RECURSIVE Columns(_, _)
Columns(fields, prefix) ==
    UNION {LET path == Append(prefix, fields[i].name)
           IN  {[path |-> path, type |-> fields[i].type, mode |-> fields[i].mode]}
               \cup Columns(fields[i].fields, path) : i \in DOMAIN fields}
=============================================================================
