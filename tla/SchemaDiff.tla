----------------------------- MODULE SchemaDiff -----------------------------
(***************************************************************************)
(* crates/schema-diff: the catalog of a database, the schema that a file   *)
(* of DDL asks for, their difference, and the statements planned from it.  *)
(*                                                                         *)
(* Names are naturals, ordered as the strings they stand for.  A catalog   *)
(*   [tables |-> function from names to tables,                            *)
(*    indices |-> function from <<table, name>> to indexes]                *)
(* holds each list of the code by the key under which the code looks its   *)
(* members up.  A table is [columns, constraints]: a function from names   *)
(* and a list.  A list is a sequence, or what is left of one: a function   *)
(* on its positions.  A size or a default of 0 stands for None.            *)
(* A plan is a set of statements: each touches one table or one index, and *)
(* Before gives the order in which they are written.                       *)
(***************************************************************************)
EXTENDS Naturals, Sequences, FiniteSets, Functions

EmptyFunction == [x \in {} |-> 0]

\* The function that keeps, for each key, the last entry of the list l, key[i] being the key of l[i]: what
\* collecting into a BTreeMap does.
LastByKey(l, key) ==
  [k \in {key[i] : i \in DOMAIN l} |->
     l[CHOOSE i \in DOMAIN l : key[i] = k /\ \A j \in DOMAIN l : key[j] = k => j <= i]]

---------------------------------------------------------------------------
(* What the records hold.                                                  *)

CatalogColumns ==
  [type : [kind : STRING, size : Nat], nullable : BOOLEAN, default : Nat, identity : BOOLEAN, attrs : SUBSET STRING]

TableConstraints ==
  {tc \in [name : Nat, kind : {"pk", "uq", "fk", "ck"}, columns : Seq(Nat), ref : Nat, body : Nat] :
     tc.ref # 0 => tc.kind = "fk"}

IsList(l) == \E n \in {0} \cup DOMAIN l : n \in Nat /\ DOMAIN l \subseteq 1 .. n

TypedTable(t) ==
  /\ \A c \in DOMAIN t.columns : t.columns[c] \in CatalogColumns
  /\ IsList(t.constraints)
  /\ \A i \in DOMAIN t.constraints : t.constraints[i] \in TableConstraints

TypedCatalog(s) ==
  /\ s = [tables |-> s.tables, indices |-> s.indices]
  /\ DOMAIN s.tables \subseteq Nat
  /\ \A n \in DOMAIN s.tables : TypedTable(s.tables[n])
  /\ DOMAIN s.indices \subseteq Nat \X Nat

TypedDdl(ddl) ==
  /\ IsList(ddl)
  /\ \A i \in DOMAIN ddl :
       /\ ddl[i].op = "CreateTable" => ddl[i].table \in Nat /\ TypedTable(ddl[i])
       /\ ddl[i].op = "CreateIndex" => ddl[i].table \in Nat /\ ddl[i].name \in Nat

---------------------------------------------------------------------------
(* The catalog and the desired schema.                                     *)

\* The columns of CREATE TABLE: an identity is one of the column's constraints there.
ColumnDef(c) == [c EXCEPT !.attrs = IF c.identity THEN @ \cup {"AutoIncrement"} ELSE @]

\* catalog_to_create_table and create_table_to_catalog: the two ends of a table that is created as it is asked for.
CreateTable(n, t) ==
  [op |-> "CreateTable", table |-> n,
   columns |-> [c \in DOMAIN t.columns |-> ColumnDef(t.columns[c])], constraints |-> t.constraints]

CatalogColumn(c) ==
  [c EXCEPT !.identity = "AutoIncrement" \in c.attrs, !.attrs = @ \ {"AutoIncrement"}]

CatalogTable(st) ==
  [columns |-> [c \in DOMAIN st.columns |-> CatalogColumn(st.columns[c])], constraints |-> st.constraints]

CreateIndex(k, i) == [op |-> "CreateIndex", table |-> k[1], name |-> k[2], index |-> i]

\* What the JSON form of a catalog can carry of a column: no default (only its text, which nothing compares)
\* and no constraint; and of a table: no constraint, since there is no form of one that would be read.
JsonColumn(c) == [c EXCEPT !.default = 0, !.attrs = {}]
JsonConstraints(cs) == <<>>
LoadJson(db) ==
  [db EXCEPT !.tables =
     [n \in DOMAIN @ |-> [columns |-> [c \in DOMAIN @[n].columns |-> JsonColumn(@[n].columns[c])],
                          constraints |-> JsonConstraints(@[n].constraints)]]]

\* to_common_sql gives no CREATE TABLE when the type of one column has no counterpart.
Unconvertible == {"Money", "Bit"}
Converts(st) == \A c \in DOMAIN st.columns : st.columns[c].type.kind \notin Unconvertible

\* build_desired_schema on the statements of the DDL: it refuses a file with a syntax error, and takes
\* the tables and the indexes, leaving out whatever else the file holds or cannot be converted.
Refused(ddl) == \E i \in DOMAIN ddl : ddl[i].op = "SyntaxError"
BuildDesired(ddl) ==
  LET isTable == {i \in DOMAIN ddl : ddl[i].op = "CreateTable" /\ Converts(ddl[i])}
      isIndex == {i \in DOMAIN ddl : ddl[i].op = "CreateIndex"}
      tables == LastByKey(Restrict(ddl, isTable), [i \in isTable |-> ddl[i].table])
      indices == LastByKey(Restrict(ddl, isIndex), [i \in isIndex |-> <<ddl[i].table, ddl[i].name>>])
  IN  [tables |-> [n \in DOMAIN tables |-> CatalogTable(tables[n])],
       indices |-> [k \in DOMAIN indices |-> indices[k].index]]

---------------------------------------------------------------------------
(* The difference.  Every difference has a "kind"; warnings are the        *)
(* targets named on STDERR.                                                *)

Keys(f, g) == DOMAIN f \cup DOMAIN g

\* Mutant: a bound where there was none does not count.
IsNarrowingOfBounded(from, to) ==
  from.kind = to.kind /\ from.kind \in {"VarChar", "Decimal", "Numeric"} /\ to.size # 0 /\ to.size < from.size

IsNarrowing(from, to) ==
  /\ from.kind = to.kind
  /\ \/ from.kind = "VarChar" /\ to.size # 0 /\ (from.size = 0 \/ to.size < from.size)
     \/ from.kind \in {"Decimal", "Numeric"} /\ from.size # 0 /\ to.size # 0 /\ to.size < from.size

Tightens(from, to) == from.nullable /\ ~to.nullable

\* The changes diff_single_column looks for; a difference in identity or constraints alone is none of them.
Changed(from, to) == {f \in {"type", "nullable", "default"} : from[f] # to[f]}

ColumnDiff(cur, des, c) ==
  CASE c \notin DOMAIN cur -> [kind |-> "Added", to |-> ColumnDef(des[c])]
    [] c \notin DOMAIN des -> [kind |-> "Removed"]
    [] OTHER -> [kind |-> "Modified", to |-> ColumnDef(des[c]), changes |-> Changed(cur[c], des[c])]

DiffColumns(cur, des) ==
  [c \in {c \in Keys(cur, des) : c \in DOMAIN cur \cap DOMAIN des => Changed(cur[c], des[c]) # {}} |->
     ColumnDiff(cur, des, c)]

\* A constraint goes by its declared name, else by its kind and columns; a CHECK has no columns.
Declared(n) == <<"declared", <<n>>>>
ConstraintName(tc) == IF tc.name # 0 THEN Declared(tc.name) ELSE <<tc.kind, tc.columns>>
ConstraintsByName(cs) == LastByKey(cs, [i \in DOMAIN cs |-> ConstraintName(cs[i])])

Diff1(cur, des, k) ==
  CASE k \notin DOMAIN cur -> [kind |-> "Added", to |-> des[k]]
    [] k \notin DOMAIN des -> [kind |-> "Removed"]
    [] OTHER -> [kind |-> "Modified", to |-> des[k]]

\* Mutant: equal entries are not left out.
DiffEveryKey(cur, des) == [k \in Keys(cur, des) |-> Diff1(cur, des, k)]

DiffByKey(cur, des) ==
  [k \in {k \in Keys(cur, des) : k \in DOMAIN cur \cap DOMAIN des => cur[k] # des[k]} |-> Diff1(cur, des, k)]

DiffConstraints(cur, des) == DiffByKey(ConstraintsByName(cur), ConstraintsByName(des))

DiffSingleTable(cur, des) ==
  LET columns == DiffColumns(cur.columns, des.columns)
      constraints == DiffConstraints(cur.constraints, des.constraints)
  IN  IF DOMAIN columns = {} /\ DOMAIN constraints = {} THEN [kind |-> "Unchanged"]
      ELSE [kind |-> "Modified", columns |-> columns, constraints |-> constraints]

DiffTables(cur, des) ==
  [n \in Keys(cur, des) |->
     CASE n \notin DOMAIN cur -> [kind |-> "Added", to |-> des[n]]
       [] n \notin DOMAIN des -> [kind |-> "Removed"]
       [] OTHER -> DiffSingleTable(cur[n], des[n])]

DiffIndices(cur, des) == DiffByKey(cur, des)

DiffSchema(cur, des) ==
  [tables |-> DiffTables(cur.tables, des.tables), indices |-> DiffIndices(cur.indices, des.indices)]

OfKind(f, kind) == {k \in DOMAIN f : f[k].kind = kind}

Warnings(cur, des) ==
  LET both == DOMAIN cur.tables \cap DOMAIN des.tables
      diff == DiffSchema(cur, des)
      Columns(n) == OfKind(DiffColumns(cur.tables[n].columns, des.tables[n].columns), "Modified")
      From(n, c) == cur.tables[n].columns[c]
      To(n, c) == des.tables[n].columns[c]
  IN  {<<"table", n>> : n \in OfKind(diff.tables, "Removed")}
      \cup {<<"index", k>> : k \in OfKind(diff.indices, "Removed")}
      \cup UNION {
             {<<"column", n, c>> : c \in OfKind(DiffColumns(cur.tables[n].columns, des.tables[n].columns), "Removed")}
        \cup {<<"narrowing", n, c>> : c \in {c \in Columns(n) : IsNarrowing(From(n, c).type, To(n, c).type)}}
        \cup {<<"not null", n, c>> : c \in {c \in Columns(n) : Tightens(From(n, c), To(n, c))}}
        \cup {<<"constraint", n, k>> :
                k \in OfKind(DiffConstraints(cur.tables[n].constraints, des.tables[n].constraints), "Removed")}
        : n \in both}

---------------------------------------------------------------------------
(* The plan.                                                               *)

\* Mutant: the action sets the type and the nullability only.
ColumnActionWithoutDefault(d) ==
  CASE d.kind = "Added" -> [act |-> "AddColumn", def |-> d.to]
    [] d.kind = "Removed" -> [act |-> "DropColumn"]
    [] d.kind = "Modified" ->
         [act |-> "AlterColumn", type |-> IF "type" \in d.changes THEN <<d.to.type>> ELSE <<>>,
          default |-> <<>>, nullable |-> d.to.nullable]

\* modified_column_actions: one action, which sets what changed and, always, the nullability.
ColumnAction(d) ==
  CASE d.kind = "Added" -> [act |-> "AddColumn", def |-> d.to]
    [] d.kind = "Removed" -> [act |-> "DropColumn"]
    [] d.kind = "Modified" ->
         [act |-> "AlterColumn",
          type |-> IF "type" \in d.changes THEN <<d.to.type>> ELSE <<>>,
          default |-> IF "default" \in d.changes THEN <<d.to.default>> ELSE <<>>,
          nullable |-> d.to.nullable]

\* A changed constraint is dropped and added again.
ConstraintAction(d) ==
  [drop |-> d.kind \in {"Removed", "Modified"}, add |-> IF d.kind = "Removed" THEN <<>> ELSE <<d.to>>]

AlterTable(n, d) ==
  [op |-> "AlterTable", table |-> n,
   columns |-> [c \in DOMAIN d.columns |-> ColumnAction(d.columns[c])],
   constraints |-> [k \in DOMAIN d.constraints |-> ConstraintAction(d.constraints[k])]]

PlanOperations(diff) ==
  {CreateTable(n, diff.tables[n].to) : n \in OfKind(diff.tables, "Added")}
  \cup {[op |-> "DropTable", table |-> n] : n \in OfKind(diff.tables, "Removed")}
  \cup {AlterTable(n, diff.tables[n]) : n \in OfKind(diff.tables, "Modified")}
  \cup {CreateIndex(k, diff.indices[k].to) : k \in OfKind(diff.indices, "Added") \cup OfKind(diff.indices, "Modified")}
  \cup {[op |-> "DropIndex", table |-> k[1], name |-> k[2]] : k \in OfKind(diff.indices, "Removed")}

OnTable(st) == st.op \in {"CreateTable", "DropTable", "AlterTable"}
OnIndex(st) == ~OnTable(st)

\* Mutant: indexes first.
BeforeByIndex(s, t) ==
  \/ OnIndex(s) /\ OnTable(t)
  \/ OnTable(s) /\ OnTable(t) /\ s.table < t.table
  \/ OnIndex(s) /\ OnIndex(t) /\ (s.table < t.table \/ (s.table = t.table /\ s.name < t.name))

\* Tables in the order of their names, then indexes in the order of their tables and names.
Before(s, t) ==
  \/ OnTable(s) /\ OnIndex(t)
  \/ OnTable(s) /\ OnTable(t) /\ s.table < t.table
  \/ OnIndex(s) /\ OnIndex(t) /\ (s.table < t.table \/ (s.table = t.table /\ s.name < t.name))

---------------------------------------------------------------------------
(* What a dialect takes of the plan.                                       *)

WithoutUnsupported(st) ==
  [st EXCEPT !.columns = [c \in {c \in DOMAIN @ : @[c].act # "AlterColumn"} |-> @[c]],
             !.constraints = [k \in {k \in DOMAIN @ : @[k].add # <<>>} |-> [@[k] EXCEPT !.drop = FALSE]]]

Alters(ops) == {st \in ops : st.op = "AlterTable"}
NoActions(st) == DOMAIN st.columns = {} /\ DOMAIN st.constraints = {}

\* to_statements_for_dialect: SQLite's statements are without the actions it does not have, each of which is a warning.
StatementsForDialect(ops, dialect) ==
  IF dialect # "sqlite" THEN ops
  ELSE (ops \ Alters(ops)) \cup {st \in {WithoutUnsupported(a) : a \in Alters(ops)} : ~NoActions(st)}

DialectWarnings(ops, dialect) ==
  IF dialect # "sqlite" THEN {}
  ELSE UNION {
         {<<"alter column", st.table, c>> : c \in {c \in DOMAIN st.columns : st.columns[c].act = "AlterColumn"}}
    \cup {<<"drop constraint", st.table, k>> : k \in {k \in DOMAIN st.constraints : st.constraints[k].drop}}
    : st \in Alters(ops)}

\* The SQLite emitter fails on an ALTER TABLE of several actions and on ADD CONSTRAINT, and its caller on the batch.
EmitFails(statements, dialect) ==
  /\ dialect = "sqlite"
  /\ \E st \in Alters(statements) : DOMAIN st.constraints # {} \/ Cardinality(DOMAIN st.columns) # 1
=============================================================================
