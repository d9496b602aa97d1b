------------------------------ MODULE Migration ------------------------------
(***************************************************************************)
(* The schema-diff program (bin/schema-diff.rs) run against a database:    *)
(* it reads the catalog and the DDL, prints warnings and statements, and   *)
(* somebody applies the statements, which may stop at any of them.  The    *)
(* program may then be run again on the catalog as it has become.          *)
(*                                                                         *)
(* The database is external: CannotApply and Applied say what the three    *)
(* systems do with the statements the program writes.                      *)
(***************************************************************************)
EXTENDS SchemaDiff, SequencesExt

CONSTANTS
  Databases,  \* the catalogs a database may start with
  Ddls,       \* the DDL files: sequences of statements
  MaxRuns     \* how often the program may be run

Dialects == {"mysql", "postgresql", "sqlite"}

\* Where the current catalog comes from: the JSON file of the program, or a caller of the library that has all of it.
Sources == {"json", "library"}

VARIABLES
  db,        \* what the database holds
  ddl, dialect, source,
  phase,     \* "idle", "refused", "applying", "failed" or "done"
  pending,   \* the statements written and not yet applied
  warned,    \* the targets of the warnings of the last run
  runs

vars == <<db, ddl, dialect, source, phase, pending, warned, runs>>

---------------------------------------------------------------------------
(* The database.                                                           *)

ConstraintsOf(t) == {t.constraints[i] : i \in DOMAIN t.constraints}

\* Two constraints that no table has together.
Clash(tc, other) == (tc.name # 0 /\ tc.name = other.name) \/ (tc.kind = "pk" /\ other.kind = "pk")

\* A table that no database takes: a constraint is on a column that it does not have, or two of them clash.
Malformed(t) ==
  \E i \in DOMAIN t.constraints :
    \/ ~(Range(t.constraints[i].columns) \subseteq DOMAIN t.columns)
    \/ \E j \in DOMAIN t.constraints \ {i} : Clash(t.constraints[i], t.constraints[j])

\* A database holds what databases take; a file may ask for anything.
ASSUME InputsAssumption ==
  /\ \A s \in Databases : TypedCatalog(s) /\ \A n \in DOMAIN s.tables : ~Malformed(s.tables[n])
  /\ \A file \in Ddls : TypedDdl(file)
  /\ MaxRuns \in Nat

Refers(t, n) == \E tc \in ConstraintsOf(t) : tc.ref = n
Uses(tc, cols) == \E i \in DOMAIN tc.columns : tc.columns[i] \in cols
IndexesUsing(n, cols) ==
  {k \in DOMAIN db.indices : k[1] = n /\ \E i \in DOMAIN db.indices[k].columns : db.indices[k].columns[i] \in cols}

Acting(st, act) == {c \in DOMAIN st.columns : st.columns[c].act = act}
Dropped(st) == {k \in DOMAIN st.constraints : st.constraints[k].drop}
Added(st) == {st.constraints[k].add[1] : k \in {k \in DOMAIN st.constraints : st.constraints[k].add # <<>>}}

\* The constraints of t that are left once the columns and the constraints that st drops are gone.
Kept(t, st) ==
  LET Stays(tc) == ~Uses(tc, Acting(st, "DropColumn")) /\ ~(tc.name # 0 /\ Declared(tc.name) \in Dropped(st))
  IN  Restrict(t.constraints, {i \in DOMAIN t.constraints : Stays(t.constraints[i])})

\* The list l with the members of S after it, which are never of one name.
Extended(l, S) ==
  LET end == Max({0} \cup DOMAIN l)
      new == SetToSeq(S)
  IN  [i \in DOMAIN l \cup {end + j : j \in DOMAIN new} |-> IF i \in DOMAIN l THEN l[i] ELSE new[i - end]]

ColumnsAfter(t, st) ==
  LET Altered(c, a) ==
        [t.columns[c] EXCEPT
           !.type = IF a.type = <<>> THEN @ ELSE a.type[1],
           !.nullable = a.nullable,
           \* MODIFY COLUMN replaces the whole definition, ALTER COLUMN what it names.
           !.default = IF a.default # <<>> THEN a.default[1] ELSE IF dialect = "mysql" THEN 0 ELSE @,
           !.identity = IF dialect = "mysql" THEN FALSE ELSE @]
  IN  [c \in (DOMAIN t.columns \cup Acting(st, "AddColumn")) \ Acting(st, "DropColumn") |->
         IF c \in Acting(st, "AddColumn") THEN CatalogColumn(st.columns[c].def)
         ELSE IF c \in Acting(st, "AlterColumn") THEN Altered(c, st.columns[c])
         ELSE t.columns[c]]

\* A foreign key needs its table, except in SQLite, which looks for it when rows are written.
ReferencesMissing(tcs, n) ==
  dialect # "sqlite" /\ \E tc \in tcs : tc.ref # 0 /\ tc.ref \notin DOMAIN db.tables \cup {n}

CannotAlter(t, st) ==
  \/ Acting(st, "AddColumn") \cap DOMAIN t.columns # {}
  \/ ~((Acting(st, "DropColumn") \cup Acting(st, "AlterColumn")) \subseteq DOMAIN t.columns)
  \/ dialect = "mysql" /\ \E c \in Acting(st, "AlterColumn") : st.columns[c].type = <<>>
  \/ dialect = "sqlite" /\ \/ IndexesUsing(st.table, Acting(st, "DropColumn")) # {}
                           \/ \E tc \in ConstraintsOf(t) : Uses(tc, Acting(st, "DropColumn"))
  \/ \E k \in Dropped(st) :
       ~\E tc \in ConstraintsOf(t) : tc.name # 0 /\ k = Declared(tc.name) /\ ~Uses(tc, Acting(st, "DropColumn"))
  \/ \E tc \in Added(st) : \/ \E other \in Range(Kept(t, st)) \cup (Added(st) \ {tc}) : Clash(tc, other)
                           \/ ~(Range(tc.columns) \subseteq DOMAIN ColumnsAfter(t, st))
  \/ ReferencesMissing(Added(st), st.table)

CannotApply(st) ==
  CASE st.op = "CreateTable" ->
         st.table \in DOMAIN db.tables \/ Malformed(st) \/ ReferencesMissing(ConstraintsOf(st), st.table)
    [] st.op = "DropTable" ->
         \/ st.table \notin DOMAIN db.tables
         \/ dialect # "sqlite" /\ \E n \in DOMAIN db.tables \ {st.table} : Refers(db.tables[n], st.table)
    [] st.op = "AlterTable" -> st.table \notin DOMAIN db.tables \/ CannotAlter(db.tables[st.table], st)
    [] st.op = "CreateIndex" ->
         \/ \E k \in DOMAIN db.indices : k[2] = st.name /\ (dialect = "mysql" => k[1] = st.table)
         \/ st.table \notin DOMAIN db.tables
         \/ ~(Range(st.index.columns) \subseteq DOMAIN db.tables[st.table].columns)
    [] st.op = "DropIndex" -> <<st.table, st.name>> \notin DOMAIN db.indices

Takes(st) == ~CannotApply(st)

Without(f, keys) == [k \in DOMAIN f \ keys |-> f[k]]
With(f, k, v) == [x \in DOMAIN f \cup {k} |-> IF x = k THEN v ELSE f[x]]

Applied(st) ==
  CASE st.op = "CreateTable" -> [db EXCEPT !.tables = With(@, st.table, CatalogTable(st))]
    [] st.op = "DropTable" ->
         [tables |-> Without(db.tables, {st.table}),
          indices |-> Without(db.indices, {k \in DOMAIN db.indices : k[1] = st.table})]
    [] st.op = "AlterTable" ->
         LET t == db.tables[st.table]
         IN  [tables |-> With(db.tables, st.table,
                           [columns |-> ColumnsAfter(t, st),
                            constraints |-> Extended(Kept(t, st), Added(st))]),
              indices |-> Without(db.indices, IndexesUsing(st.table, Acting(st, "DropColumn")))]
    [] st.op = "CreateIndex" -> [db EXCEPT !.indices = With(@, <<st.table, st.name>>, st.index)]
    [] st.op = "DropIndex" -> [db EXCEPT !.indices = Without(@, {<<st.table, st.name>>})]

---------------------------------------------------------------------------
(* The program.                                                            *)

Current == IF source = "json" THEN LoadJson(db) ELSE db
Desired == BuildDesired(ddl)
Operations == PlanOperations(DiffSchema(Current, Desired))
Statements == StatementsForDialect(Operations, dialect)

Init ==
  /\ db \in Databases
  /\ ddl \in Ddls
  /\ dialect \in Dialects
  /\ source \in Sources
  /\ phase = "idle"
  /\ pending = {}
  /\ warned = {}
  /\ runs = 0

Inputs == <<ddl, dialect, source>>

\* run: warnings first, then the statements, unless the DDL has an error or the emitter fails.
Run ==
  /\ phase # "applying"
  /\ runs < MaxRuns
  /\ runs' = runs + 1
  /\ IF Refused(ddl)
     THEN /\ warned' = {}
          /\ phase' = "refused"
          /\ pending' = {}
     ELSE /\ warned' = Warnings(Current, Desired) \cup DialectWarnings(Operations, dialect)
          /\ IF EmitFails(Statements, dialect)
             THEN phase' = "refused" /\ pending' = {}
             ELSE phase' = "applying" /\ pending' = Statements
  /\ UNCHANGED <<db, Inputs>>

First == CHOOSE st \in pending : \A other \in pending \ {st} : Before(st, other)

\* The database takes the first statement that is left.
Apply ==
  /\ phase = "applying"
  /\ pending # {}
  /\ Takes(First)
  /\ db' = Applied(First)
  /\ pending' = pending \ {First}
  /\ UNCHANGED <<Inputs, phase, warned, runs>>

\* The database rejects it, and whoever applies the statements stops.
Reject ==
  /\ phase = "applying"
  /\ pending # {}
  /\ ~Takes(First)
  /\ phase' = "failed"
  /\ pending' = {}
  /\ UNCHANGED <<db, Inputs, warned, runs>>

\* Applying stops for another reason: the rows do not allow the statement, or the connection is lost.
Interrupt ==
  /\ phase = "applying"
  /\ pending # {}
  /\ phase' = "idle"
  /\ pending' = {}
  /\ UNCHANGED <<db, Inputs, warned, runs>>

Finish ==
  /\ phase = "applying"
  /\ pending = {}
  /\ phase' = "done"
  /\ UNCHANGED <<db, Inputs, pending, warned, runs>>

Next == Run \/ Apply \/ Reject \/ Interrupt \/ Finish

Spec == Init /\ [][Next]_vars

---------------------------------------------------------------------------
(* Properties.                                                             *)

\* A value that fits from may not fit to.
Shorter(from, to) ==
  /\ from.kind = to.kind
  /\ from.kind \in {"VarChar", "Decimal", "Numeric"}
  /\ to.size # 0
  /\ to.size < from.size \/ (from.size = 0 /\ from.kind = "VarChar")

\* What a change from one state of the database to another loses, named as the warnings name it; no warning is
\* of a conversion, a default or an identity.
Losses(old, new) ==
  {<<"table", n>> : n \in DOMAIN old.tables \ DOMAIN new.tables}
  \cup {<<"index", k>> : k \in DOMAIN old.indices \ DOMAIN new.indices}
  \cup UNION {
         LET from == old.tables[n].columns
             to == new.tables[n].columns
             both == DOMAIN from \cap DOMAIN to
             Names(t) == {ConstraintName(tc) : tc \in ConstraintsOf(t)}
         IN  {<<"column", n, c>> : c \in DOMAIN from \ DOMAIN to}
             \cup {<<"narrowing", n, c>> : c \in {c \in both : Shorter(from[c].type, to[c].type)}}
             \cup {<<"conversion", n, c>> : c \in {c \in both : from[c].type.kind # to[c].type.kind}}
             \cup {<<"not null", n, c>> : c \in {c \in both : Tightens(from[c], to[c])}}
             \cup {<<"default", n, c>> : c \in {c \in both : from[c].default \notin {0, to[c].default}}}
             \cup {<<"identity", n, c>> : c \in {c \in both : from[c].identity /\ ~to[c].identity}}
             \cup {<<"constraint", n, k>> : k \in Names(old.tables[n]) \ Names(new.tables[n])}
         : n \in DOMAIN old.tables \cap DOMAIN new.tables}

\* The indexes that the DDL declares on a table or a column it does not declare.
Dangling ==
  {k \in DOMAIN Desired.indices :
     ~(k[1] \in DOMAIN Desired.tables /\ Range(Desired.indices[k].columns) \subseteq DOMAIN Desired.tables[k[1]].columns)}

\* The tables that the DDL defines and no database takes.
Misdeclared == {n \in DOMAIN Desired.tables : Malformed(Desired.tables[n])}

\* The column that x names is one that the statement modifies.
Modifies(st, x) == st.op = "AlterTable" /\ st.table = x[2] /\ x[3] \in Acting(st, "AlterColumn")

\* What a statement may take from the database that leaves it as new without a warning: the kind of type and the
\* default for which the DDL asks for another; the default and the identity of a column that MySQL modifies,
\* since MODIFY COLUMN replaces the whole definition; an index that the DDL declares too, lost with its table or
\* column; and a constraint lost with its column when the catalog was JSON, which has no constraints, or when
\* the DDL declares it on a column that it does not declare.
Unannounced(x, new) ==
  LET to == new.tables[x[2]].columns[x[3]]
      asked == Desired.tables[x[2]].columns[x[3]]
  IN  \/ x[1] = "conversion" /\ Modifies(First, x) /\ to.type = asked.type
      \/ x[1] = "default" /\ Modifies(First, x) /\ to.default = asked.default
      \/ x[1] \in {"default", "identity"} /\ Modifies(First, x) /\ dialect = "mysql"
      \/ x[1] = "index" /\ x[2] \in DOMAIN Desired.indices
      \/ x[1] = "constraint" /\ (source = "json" \/ x[2] \in Misdeclared)

\* Whatever a statement takes from the database, directly or along with a table or a column, the run warned of
\* it, unless it is one of the things named in Unannounced.
LossesWarned == [][\A x \in Losses(db, db') : x \in warned \/ Unannounced(x, db')]_vars

\* An ALTER TABLE that only sets again what is already set.
SetsAgain(st) ==
  /\ st.op = "AlterTable"
  /\ \A c \in DOMAIN st.columns :
       st.columns[c].act = "AlterColumn" /\ st.columns[c].type = <<>> /\ st.columns[c].default # <<>>
  /\ source = "json" \/ (dialect = "mysql" /\ DOMAIN st.constraints = {})
  /\ \A k \in DOMAIN st.constraints : ~st.constraints[k].drop

\* Wherever applying stops, running the program again plans what was left and nothing that was done, save the
\* DROP INDEX of an index that went with its table or column; but a JSON catalog hides defaults and constraints,
\* which are planned again, and so are defaults that MySQL's MODIFY COLUMN has removed, dangling indexes and
\* the constraints of a table that is not well declared.
RerunPlansTheRest ==
  phase = "applying" =>
    /\ \A st \in Statements :
         \/ st \in pending
         \/ SetsAgain(st)
         \/ st.op = "CreateIndex" /\ <<st.table, st.name>> \in Dangling
         \/ st.op = "AlterTable" /\ st.table \in Misdeclared
    /\ \A st \in pending \ Statements :
         st.op = "DropIndex" /\ <<st.table, st.name>> \notin DOMAIN db.indices

\* The constraints of t that no later one of the same key hides.
Visible(t) == LET byName == ConstraintsByName(t.constraints) IN {byName[k] : k \in DOMAIN byName}

ColumnAgrees(n, c) ==
  LET is == db.tables[n].columns[c]
      asked == Desired.tables[n].columns[c]
  IN  \/ is.type = asked.type /\ is.nullable = asked.nullable
         /\ \/ is.default = asked.default
            \/ source = "json" /\ asked.default = 0
            \/ dialect = "mysql" /\ is.default = 0
      \/ <<"alter column", n, c>> \in warned

\* When every statement has been applied nothing that the program compares differs from the DDL: the tables, the
\* types, nullability and defaults of their columns, their table constraints and the indexes.  Excepted are what
\* was warned about as beyond the dialect, defaults lost in MySQL, defaults and constraints that a JSON catalog
\* cannot show, dangling indexes, and the constraints of a table that is not well declared.  Not compared, and
\* outside this property: the identity and the column constraints of a column that is there already, and tables
\* of the DDL with a type that does not convert, which are not in Desired (README section 5).
NothingComparedDiffers ==
  phase = "done" =>
    /\ DOMAIN db.tables = DOMAIN Desired.tables
    /\ Without(db.indices, Dangling) = Without(Desired.indices, Dangling)
    /\ \A n \in DOMAIN db.tables :
         /\ DOMAIN db.tables[n].columns = DOMAIN Desired.tables[n].columns
         /\ \A c \in DOMAIN db.tables[n].columns : ColumnAgrees(n, c)
         /\ n \notin Misdeclared =>
              /\ \A tc \in Visible(Desired.tables[n]) : tc \in ConstraintsOf(db.tables[n])
              /\ source = "library" =>
                   \A tc \in Visible(db.tables[n]) :
                     tc \in Visible(Desired.tables[n]) \/ <<"drop constraint", n, ConstraintName(tc)>> \in warned

\* CREATE INDEX of an index that is there with another definition.
ChangesIndex(st) == st.op = "CreateIndex" /\ <<st.table, st.name>> \in DOMAIN db.indices

\* A foreign key of S refers to a table that comes after n, and is created after it, or to none of the DDL.
RefersAhead(S, n) ==
  \E tc \in S : tc.kind = "fk" /\ tc.ref \notin DOMAIN db.tables \cup {n} /\ (tc.ref > n \/ tc.ref \notin DOMAIN Desired.tables)

\* A constraint of table m refers to n and no earlier statement drops it: m comes after n, the DDL keeps the
\* constraint, the catalog was JSON, or the constraint is hidden by another of its key or by a misdeclaration.
StillRefers(m, n) ==
  \E tc \in ConstraintsOf(db.tables[m]) :
    /\ tc.ref = n
    /\ \/ m > n
       \/ source = "json" \/ m \in Misdeclared
       \/ tc \in Visible(Desired.tables[m]) \/ tc \notin Visible(db.tables[m])

\* Drops a constraint by a name that is the program's own, or that a column takes along.
DropsByNoName(st) ==
  \E k \in Dropped(st) : \/ k[1] # "declared"
                         \/ \E tc \in ConstraintsOf(db.tables[st.table]) :
                              ConstraintName(tc) = k /\ Uses(tc, Acting(st, "DropColumn"))

\* Whatever was applied before it, a database rejects a statement for one of these reasons and no other: tables
\* are created and dropped in the order of their names, whatever they refer to; the index went with its table or
\* column, is on a column that is not declared, or has moved from a table that comes later; a constraint is
\* dropped by a name of the program's own or after its column, or is added though a JSON catalog hides that it
\* is there; MySQL's MODIFY COLUMN lacks its type; SQLite drops no column in use; the table is misdeclared.
\* Outside this property: a changed index, which diff.rs:142 describes as DROP and CREATE, is created while the
\* old one is there and always rejected (README section 5).
RejectionsAreForeseen ==
  phase = "applying" /\ pending # {} /\ ~Takes(First) /\ ~ChangesIndex(First) =>
    CASE First.op = "CreateTable" -> First.table \in Misdeclared \/ RefersAhead(ConstraintsOf(First), First.table)
      [] First.op = "DropTable" -> \E m \in DOMAIN db.tables \ {First.table} : StillRefers(m, First.table)
      [] First.op = "CreateIndex" ->
           \/ <<First.table, First.name>> \in Dangling
           \/ \E k \in DOMAIN db.indices :
                k[2] = First.name /\ k[1] # First.table /\ (k[1] > First.table \/ k \in DOMAIN Desired.indices)
      [] First.op = "DropIndex" -> \E x \in warned : x[1] \in {"table", "column"} /\ x[2] = First.table
      [] First.op = "AlterTable" ->
           \/ First.table \in Misdeclared
           \/ DropsByNoName(First)
           \/ source = "json" /\ \E tc \in Added(First), other \in ConstraintsOf(db.tables[First.table]) : Clash(tc, other)
           \/ RefersAhead(Added(First), First.table)
           \/ dialect = "mysql" /\ \E c \in Acting(First, "AlterColumn") : First.columns[c].type = <<>>
           \/ dialect = "sqlite" /\ \/ IndexesUsing(First.table, Acting(First, "DropColumn")) # {}
                                    \/ \E tc \in ConstraintsOf(db.tables[First.table]) : Uses(tc, Acting(First, "DropColumn"))
=============================================================================
