-------------------------- MODULE MigrationProofs --------------------------
(***************************************************************************)
(* Theorems about Migration, for any databases, any files of DDL and any   *)
(* number of runs.  What is left of a plan when some of it has been        *)
(* applied is related to the database as it has become.                    *)
(***************************************************************************)
EXTENDS PlanProofs

(* The invariant of a run whose statements are being applied, for a        *)
(* database s, inputs x, statements p that are pending and warnings w.     *)

(* What the rest of the plan takes from the database was announced.        *)
TableAnnounced(t, n, x, w) ==
  LET d == x.desired.tables[n]
  IN  /\ \A c \in DOMAIN t.columns \ DOMAIN d.columns : <<"column", n, c>> \in w
      /\ \A c \in DOMAIN t.columns \cap DOMAIN d.columns :
           /\ IsNarrowing(t.columns[c].type, d.columns[c].type) => <<"narrowing", n, c>> \in w
           /\ Tightens(t.columns[c], d.columns[c]) => <<"not null", n, c>> \in w
      /\ x.source = "library" =>
           \A k \in DOMAIN ByName(t) \ DOMAIN ByName(d) : <<"constraint", n, k>> \in w

LossesAnnounced(s, x, w) ==
  /\ \A n \in DOMAIN s.tables \ DOMAIN x.desired.tables : <<"table", n>> \in w
  /\ \A k \in DOMAIN s.indices \ DOMAIN x.desired.indices : <<"index", k>> \in w
  /\ \A n \in DOMAIN s.tables \cap DOMAIN x.desired.tables : TableAnnounced(s.tables[n], n, x, w)

(* One statement for a table, one for an index.                            *)
OneEach(p) ==
  \A st, other \in p :
    /\ OnTable(st) /\ OnTable(other) /\ st.table = other.table => st = other
    /\ OnIndex(st) /\ OnIndex(other) /\ st.table = other.table /\ st.name = other.name => st = other

(* What is pending would be planned now, or is the DROP INDEX of an index  *)
(* that went with its table or a column, which was announced.              *)
GoneIndex(s, w, st) ==
  /\ st.op = "DropIndex"
  /\ st = DropIndex(<<st.table, st.name>>)
  /\ <<st.table, st.name>> \in (Nat \X Nat) \ DOMAIN s.indices
  /\ \E y \in w : y[1] \in {"table", "column"} /\ y[2] = st.table

StillPlanned(s, x, p, w) == \A st \in p : Planned(s, x, st) \/ GoneIndex(s, w, st)

(* What would be planned for an index is pending, unless it is dangling.   *)
Dangles(x, k) ==
  ~ (/\ k[1] \in DOMAIN x.desired.tables
     /\ Range(x.desired.indices[k].columns) \subseteq DOMAIN x.desired.tables[k[1]].columns)

IndexesPending(s, x, p) ==
  /\ \A k \in DOMAIN s.indices \ DOMAIN x.desired.indices : DropIndex(k) \in p
  /\ \A k \in DOMAIN x.desired.indices :
       \/ Dangles(x, k)
       \/ Same(s.indices, x.desired.indices, k)
       \/ CreateIndex(k, x.desired.indices[k]) \in p

(* A table for which no statement is pending is as it was asked for.       *)
PendingOn(p, n) == \E st \in p : OnTable(st) /\ st.table = n

TablesSettled(s, x, p, w) ==
  \A n \in DOMAIN s.tables \cup DOMAIN x.desired.tables :
    \/ PendingOn(p, n)
    \/ /\ n \in DOMAIN s.tables \cap DOMAIN x.desired.tables
       /\ TableSettled(s.tables[n], n, x, w)

AlterationsAnnounced(s, x, p, w) ==
  \A n \in DOMAIN s.tables \cap DOMAIN x.desired.tables :
    PendingOn(p, n) => LeftOutAnnounced(s.tables[n], n, x, w)

Consistent(s, x, p, w) ==
  /\ LossesAnnounced(s, x, w)
  /\ OneEach(p)
  /\ StillPlanned(s, x, p, w)
  /\ IndexesPending(s, x, p)
  /\ TablesSettled(s, x, p, w)
  /\ AlterationsAnnounced(s, x, p, w)

Input == [desired |-> Desired, dialect |-> dialect, source |-> source]

IInv ==
  /\ TypedInput(Input)
  /\ DatabaseOK(db)
  /\ phase \in {"idle", "refused", "applying", "failed", "done"}
  /\ phase \in {"applying", "done"} => Consistent(db, Input, pending, warned)
  /\ phase # "applying" => pending = {}

-----------------------------------------------------------------------------
(* The statements of a plan.                                               *)

KeyOf(st) == <<st.table, st.name>>

(* A planned statement says what it is planned for.                        *)
LEMMA PlannedCases ==
  ASSUME NEW s, TypedCatalog(s), NEW x, TypedInput(x), NEW st, Planned(s, x, st)
  PROVE  \/ /\ st.op = "CreateTable"
            /\ st.table \in DOMAIN x.desired.tables \ DOMAIN s.tables
            /\ st = CreateTable(st.table, x.desired.tables[st.table])
         \/ /\ st.op = "DropTable"
            /\ st.table \in DOMAIN s.tables \ DOMAIN x.desired.tables
            /\ st = DropTable(st.table)
         \/ /\ st.op = "AlterTable"
            /\ st.table \in DOMAIN s.tables \cap DOMAIN x.desired.tables
            /\ Needs(s.tables[st.table], st.table, x)
            /\ st = ToAlter(s.tables[st.table], st.table, x)
         \/ /\ st.op = "CreateIndex"
            /\ KeyOf(st) \in DOMAIN x.desired.indices
            /\ ~Same(s.indices, x.desired.indices, KeyOf(st))
            /\ st = CreateIndex(KeyOf(st), x.desired.indices[KeyOf(st)])
         \/ /\ st.op = "DropIndex"
            /\ KeyOf(st) \in DOMAIN s.indices \ DOMAIN x.desired.indices
            /\ st = DropIndex(KeyOf(st))
<1>1. ASSUME NEW n \in DOMAIN x.desired.tables \ DOMAIN s.tables, st = CreateTable(n, x.desired.tables[n])
      PROVE  st.op = "CreateTable" /\ st.table = n
  BY <1>1, OpsAre
<1>2. ASSUME NEW n \in DOMAIN s.tables \ DOMAIN x.desired.tables, st = DropTable(n)
      PROVE  st.op = "DropTable" /\ st.table = n
  BY <1>2, OpsAre
<1>3. ASSUME NEW n \in DOMAIN s.tables \cap DOMAIN x.desired.tables, st = ToAlter(s.tables[n], n, x)
      PROVE  st.op = "AlterTable" /\ st.table = n
  BY <1>3, ToAlterIs
<1>4. ASSUME NEW k \in DOMAIN x.desired.indices, st = CreateIndex(k, x.desired.indices[k])
      PROVE  st.op = "CreateIndex" /\ KeyOf(st) = k
  <2>1. st.op = "CreateIndex" /\ st.table = k[1] /\ st.name = k[2]
    BY <1>4, OpsAre
  <2>2. k = <<k[1], k[2]>>
    BY DEF TypedInput
  <2> QED
    BY <2>1, <2>2 DEF KeyOf
<1>5. ASSUME NEW k \in DOMAIN s.indices \ DOMAIN x.desired.indices, st = DropIndex(k)
      PROVE  st.op = "DropIndex" /\ KeyOf(st) = k
  <2>1. st.op = "DropIndex" /\ st.table = k[1] /\ st.name = k[2]
    BY <1>5, OpsAre
  <2>2. k = <<k[1], k[2]>>
    BY DEF TypedCatalog
  <2> QED
    BY <2>1, <2>2 DEF KeyOf
<1> QED
  BY <1>1, <1>2, <1>3, <1>4, <1>5 DEF Planned, Same

(* Names are numbers.                                                      *)
Named(st) == st.table \in Nat /\ (OnIndex(st) => st.name \in Nat)

LEMMA PlannedNamed ==
  ASSUME NEW s, TypedCatalog(s), NEW x, TypedInput(x), NEW w, NEW st, Planned(s, x, st) \/ GoneIndex(s, w, st)
  PROVE  Named(st)
<1>1. CASE Planned(s, x, st)
  <2>1. \/ OnTable(st) /\ st.table \in DOMAIN s.tables \cup DOMAIN x.desired.tables
        \/ KeyOf(st) \in DOMAIN s.indices \cup DOMAIN x.desired.indices
    BY <1>1, PlannedCases DEF OnTable
  <2>2. CASE OnTable(st) /\ st.table \in DOMAIN s.tables \cup DOMAIN x.desired.tables
    BY <2>2 DEF Named, OnIndex, TypedCatalog, TypedInput
  <2>3. CASE KeyOf(st) \in DOMAIN s.indices \cup DOMAIN x.desired.indices
    <3>1. KeyOf(st) \in Nat \X Nat
      BY <2>3 DEF TypedCatalog, TypedInput
    <3>2. st.table \in Nat /\ st.name \in Nat
      BY <3>1 DEF KeyOf
    <3> QED
      BY <3>2 DEF Named
  <2> QED
    BY <2>1, <2>2, <2>3
<1>2. CASE GoneIndex(s, w, st)
  BY <1>2 DEF Named, GoneIndex
<1> QED
  BY <1>1, <1>2

(* A plan has one statement for each table and each index.                 *)
LEMMA PlanOneEach ==
  ASSUME NEW s, TypedCatalog(s), NEW x, TypedInput(x), NEW p, \A st \in p : Planned(s, x, st)
  PROVE  OneEach(p)
<1> SUFFICES ASSUME NEW st \in p, NEW other \in p
             PROVE  /\ OnTable(st) /\ OnTable(other) /\ st.table = other.table => st = other
                    /\ OnIndex(st) /\ OnIndex(other) /\ st.table = other.table /\ st.name = other.name => st = other
  BY DEF OneEach
<1>1. Planned(s, x, st) /\ Planned(s, x, other)
  OBVIOUS
<1>2. ASSUME OnTable(st), OnTable(other), st.table = other.table
      PROVE  st = other
  BY <1>1, <1>2, PlannedCases DEF OnTable
<1>3. ASSUME OnIndex(st), OnIndex(other), st.table = other.table, st.name = other.name
      PROVE  st = other
  <2>1. KeyOf(st) = KeyOf(other)
    BY <1>3 DEF KeyOf
  <2> QED
    BY <1>1, <1>3, <2>1, PlannedCases DEF OnIndex, OnTable
<1> QED
  BY <1>2, <1>3

(* Some statement comes before all others.                                 *)
LEMMA FirstExists ==
  ASSUME NEW p, p # {}, OneEach(p), \A st \in p : Named(st)
  PROVE  \E st \in p : \A other \in p \ {st} : Before(st, other)
<1>1. CASE \E st \in p : OnTable(st)
  <2> DEFINE N == {st.table : st \in {st \in p : OnTable(st)}}
  <2>1. N \in SUBSET Nat /\ N # {}
    BY <1>1 DEF Named
  <2>2. PICK m \in N : \A k \in N : m <= k
    BY <2>1, LeastElement
  <2>3. PICK st \in p : OnTable(st) /\ st.table = m
    OBVIOUS
  <2>4. ASSUME NEW other \in p \ {st}
        PROVE  Before(st, other)
    <3>1. CASE OnTable(other)
      <4>1. m <= other.table
        BY <2>2, <3>1
      <4>2. other.table # m
        BY <2>3, <3>1 DEF OneEach
      <4>3. m \in Nat /\ other.table \in Nat
        BY <2>1 DEF Named
      <4> QED
        BY <2>3, <3>1, <4>1, <4>2, <4>3 DEF Before
    <3>2. CASE ~OnTable(other)
      BY <2>3, <3>2 DEF Before, OnIndex
    <3> QED
      BY <3>1, <3>2
  <2> QED
    BY <2>4
<1>2. CASE \A st \in p : OnIndex(st)
  <2> DEFINE N == {st.table : st \in p}
  <2>1. N \in SUBSET Nat /\ N # {}
    BY DEF Named
  <2>2. PICK m \in N : \A k \in N : m <= k
    BY <2>1, LeastElement
  <2> DEFINE M == {st.name : st \in {st \in p : st.table = m}}
  <2>3. M \in SUBSET Nat /\ M # {}
    BY <1>2 DEF Named
  <2>4. PICK l \in M : \A k \in M : l <= k
    BY <2>3, LeastElement
  <2>5. PICK st \in p : st.table = m /\ st.name = l
    OBVIOUS
  <2>6. ASSUME NEW other \in p \ {st}
        PROVE  Before(st, other)
    <3>1. OnIndex(st) /\ OnIndex(other)
      BY <1>2
    <3>2. m <= other.table /\ m \in Nat /\ other.table \in Nat
      BY <2>1, <2>2
    <3>3. CASE other.table = m
      <4>1. l <= other.name /\ l \in Nat /\ other.name \in Nat
        BY <2>3, <2>4, <3>3
      <4>2. other.name # l
        BY <2>5, <3>1, <3>3 DEF OneEach
      <4> QED
        BY <2>5, <3>1, <3>3, <4>1, <4>2 DEF Before
    <3>4. CASE other.table # m
      BY <2>5, <3>1, <3>2, <3>4 DEF Before
    <3> QED
      BY <3>3, <3>4
  <2> QED
    BY <2>6
<1> QED
  BY <1>1, <1>2 DEF OnIndex

LEMMA FirstIs ==
  ASSUME pending # {}, OneEach(pending), \A st \in pending : Named(st)
  PROVE  /\ First \in pending
         /\ \A other \in pending \ {First} : Before(First, other)
<1>1. \E st \in pending : \A other \in pending \ {st} : Before(st, other)
  BY FirstExists
<1> QED
  BY <1>1 DEF First

-----------------------------------------------------------------------------
(* What a run announces.                                                   *)

LEMMA ColumnsKind ==
  ASSUME NEW cur, NEW des, NEW c, NEW diff, diff = DiffColumns(cur, des)
  PROVE  /\ c \in DOMAIN cur /\ c \notin DOMAIN des => c \in OfKind(diff, "Removed")
         /\ c \in DOMAIN cur /\ c \in DOMAIN des /\ Changed(cur[c], des[c]) # {} => c \in OfKind(diff, "Modified")
<1>1. /\ c \in DOMAIN diff <=> /\ c \in DOMAIN cur \cup DOMAIN des
                               /\ c \in DOMAIN cur /\ c \in DOMAIN des => Changed(cur[c], des[c]) # {}
      /\ c \in DOMAIN diff => diff[c] = ColumnDiff(cur, des, c)
  BY DiffColumnsIs
<1>2. CASE c \in DOMAIN cur /\ c \notin DOMAIN des
  <2>1. diff[c] = [kind |-> "Removed"]
    BY <1>1, <1>2 DEF ColumnDiff
  <2> QED
    BY <1>1, <1>2, <2>1 DEF OfKind
<1>3. CASE c \in DOMAIN cur /\ c \in DOMAIN des /\ Changed(cur[c], des[c]) # {}
  <2>1. diff[c] = [kind |-> "Modified", to |-> ColumnDef(des[c]), changes |-> Changed(cur[c], des[c])]
    BY <1>1, <1>3 DEF ColumnDiff
  <2>2. diff[c].kind = "Modified"
    BY <2>1
  <2> QED
    BY <1>1, <1>3, <2>2 DEF OfKind
<1> QED
  BY <1>2, <1>3

LEMMA RemovedKey ==
  ASSUME NEW cur, NEW des, NEW k, k \in DOMAIN cur, k \notin DOMAIN des, NEW diff, diff = DiffByKey(cur, des)
  PROVE  k \in OfKind(diff, "Removed")
<1>1. k \in DOMAIN diff /\ diff[k] = Diff1(cur, des, k)
  BY DiffByKeyIs
<1>2. diff[k] = [kind |-> "Removed"]
  BY <1>1 DEF Diff1
<1> QED
  BY <1>1, <1>2 DEF OfKind

(* The warnings on a table that there is and is to be.                     *)
TableWarnings(n, ct, dt) ==
  LET diff == DiffColumns(ct[n].columns, dt[n].columns)
      Columns == OfKind(diff, "Modified")
  IN  {<<"column", n, c>> : c \in OfKind(diff, "Removed")}
        \cup {<<"narrowing", n, c>> : c \in {c \in Columns : IsNarrowing(ct[n].columns[c].type, dt[n].columns[c].type)}}
        \cup {<<"not null", n, c>> : c \in {c \in Columns : Tightens(ct[n].columns[c], dt[n].columns[c])}}
        \cup {<<"constraint", n, k>> : k \in OfKind(DiffConstraints(ct[n].constraints, dt[n].constraints), "Removed")}

LEMMA WarningsAre ==
  ASSUME NEW cur, NEW des
  PROVE  /\ \A n \in OfKind(DiffTables(cur.tables, des.tables), "Removed") : <<"table", n>> \in Warnings(cur, des)
         /\ \A k \in OfKind(DiffByKey(cur.indices, des.indices), "Removed") : <<"index", k>> \in Warnings(cur, des)
         /\ \A n \in DOMAIN cur.tables \cap DOMAIN des.tables :
              \A y \in TableWarnings(n, cur.tables, des.tables) : y \in Warnings(cur, des)
<1> DEFINE T == DiffTables(cur.tables, des.tables)
           X == DiffByKey(cur.indices, des.indices)
           both == DOMAIN cur.tables \cap DOMAIN des.tables
           W == {<<"table", n>> : n \in OfKind(T, "Removed")} \cup {<<"index", k>> : k \in OfKind(X, "Removed")}
                \cup UNION {TableWarnings(n, cur.tables, des.tables) : n \in both}
<1>1. DiffSchema(cur, des).tables = T /\ DiffSchema(cur, des).indices = X
  BY DEF DiffSchema, DiffIndices
<1>2. Warnings(cur, des) = W
  <2> HIDE DEF T, X
  <2> QED
    BY <1>1 DEF Warnings, TableWarnings
<1> HIDE DEF T, X
<1> QED
  BY <1>2 DEF T, X

LEMMA WarningsSuffice ==
  ASSUME NEW s, TypedCatalog(s), NEW x, TypedInput(x),
         NEW w, Warnings(LoadedFrom(s, x), x.desired) \subseteq w
  PROVE  LossesAnnounced(s, x, w)
<1> DEFINE cur == LoadedFrom(s, x)
           des == x.desired
           T == DiffTables(cur.tables, des.tables)
           X == DiffByKey(cur.indices, des.indices)
<1>1. /\ DOMAIN cur.tables = DOMAIN s.tables
      /\ cur.indices = s.indices
      /\ \A n \in DOMAIN s.tables : cur.tables[n] = Shown(s.tables[n], x)
  BY LoadedIs
<1>2. /\ \A n \in OfKind(T, "Removed") : <<"table", n>> \in w
      /\ \A k \in OfKind(X, "Removed") : <<"index", k>> \in w
      /\ \A n \in DOMAIN cur.tables \cap DOMAIN des.tables :
              \A y \in TableWarnings(n, cur.tables, des.tables) : y \in w
  <2> HIDE DEF cur
  <2> QED
    BY WarningsAre DEF cur
<1> HIDE DEF cur, T, X
<1>3. ASSUME NEW n \in DOMAIN s.tables \ DOMAIN des.tables
      PROVE  <<"table", n>> \in w
  <2>1. n \in DOMAIN T /\ T[n].kind = "Removed"
    BY <1>1, TablesPlanned DEF T
  <2> QED
    BY <1>2, <2>1 DEF OfKind
<1>4. ASSUME NEW k \in DOMAIN s.indices \ DOMAIN des.indices
      PROVE  <<"index", k>> \in w
  <2>1. k \in OfKind(X, "Removed")
    BY <1>1, RemovedKey DEF X
  <2> QED
    BY <1>2, <2>1
<1>5. ASSUME NEW n \in DOMAIN s.tables \cap DOMAIN des.tables
      PROVE  TableAnnounced(s.tables[n], n, x, w)
  <2> DEFINE t == s.tables[n]
             d == des.tables[n]
             sc == Shown(t, x).columns
             diff == DiffColumns(sc, d.columns)
             cdiff == DiffConstraints(Shown(t, x).constraints, d.constraints)
  <2>1. /\ \A c \in OfKind(diff, "Removed") : <<"column", n, c>> \in w
        /\ \A c \in OfKind(diff, "Modified") :
             /\ IsNarrowing(sc[c].type, d.columns[c].type) => <<"narrowing", n, c>> \in w
             /\ Tightens(sc[c], d.columns[c]) => <<"not null", n, c>> \in w
        /\ \A k \in OfKind(cdiff, "Removed") : <<"constraint", n, k>> \in w
    <3>1. cur.tables[n] = Shown(t, x)
      BY <1>1
    <3>2. \A y \in TableWarnings(n, cur.tables, des.tables) : y \in w
      BY <1>1, <1>2
    <3> QED
      BY <3>1, <3>2 DEF TableWarnings
  <2>2. TypedTable(t) /\ x.source \in Sources /\ TypedTable(d)
    BY DEF TypedCatalog, TypedInput, DefinedTable
  <2>3. /\ DOMAIN sc = DOMAIN t.columns
        /\ \A c \in DOMAIN t.columns : sc[c].type = t.columns[c].type /\ sc[c].nullable = t.columns[c].nullable
    <3> HIDE DEF t, diff, cdiff
    <3> QED
      BY <2>2, ShownIs
  <2> HIDE DEF t, d, sc, diff, cdiff
  <2>4. ASSUME NEW c \in DOMAIN t.columns \ DOMAIN d.columns
        PROVE  <<"column", n, c>> \in w
    <3>1. c \in OfKind(diff, "Removed")
      BY <2>3, ColumnsKind DEF diff
    <3> QED
      BY <2>1, <3>1
  <2>5. ASSUME NEW c \in DOMAIN t.columns \cap DOMAIN d.columns, IsNarrowing(t.columns[c].type, d.columns[c].type)
        PROVE  <<"narrowing", n, c>> \in w
    <3>1. t.columns[c].type # d.columns[c].type
      <4>1. t.columns[c].type.size \in Nat
        BY <2>2 DEF TypedTable, CatalogColumns
      <4> QED
        BY <2>5, <4>1 DEF IsNarrowing
    <3>2. Changed(sc[c], d.columns[c]) # {}
      BY <2>3, <3>1, ChangedIs
    <3>3. c \in OfKind(diff, "Modified")
      BY <2>3, <3>2, ColumnsKind DEF diff
    <3> QED
      BY <2>1, <2>3, <2>5, <3>3
  <2>6. ASSUME NEW c \in DOMAIN t.columns \cap DOMAIN d.columns, Tightens(t.columns[c], d.columns[c])
        PROVE  <<"not null", n, c>> \in w
    <3>1. Tightens(sc[c], d.columns[c]) /\ sc[c].nullable # d.columns[c].nullable
      BY <2>3, <2>6 DEF Tightens
    <3>2. Changed(sc[c], d.columns[c]) # {}
      BY <3>1, ChangedIs
    <3>3. c \in OfKind(diff, "Modified")
      BY <2>3, <3>2, ColumnsKind DEF diff
    <3> QED
      BY <2>1, <3>1, <3>3
  <2>7. ASSUME x.source = "library", NEW k \in DOMAIN ByName(t) \ DOMAIN ByName(d)
        PROVE  <<"constraint", n, k>> \in w
    <3>1. ByName(Shown(t, x)) = ByName(t)
      BY <2>2, <2>7, ShownByName
    <3>2. cdiff = DiffByKey(ByName(t), ByName(d))
      BY <3>1 DEF cdiff, DiffConstraints, ByName
    <3>3. k \in OfKind(cdiff, "Removed")
      BY <2>7, <3>2, RemovedKey
    <3> QED
      BY <2>1, <3>3
  <2> QED
    BY <2>4, <2>5, <2>6, <2>7 DEF TableAnnounced, t, d
<1> QED
  BY <1>3, <1>4, <1>5 DEF LossesAnnounced

(* What SQLite's statements leave out is announced.                        *)
LEMMA DialectWarningsSuffice ==
  ASSUME NEW s, TypedCatalog(s), NEW x, TypedInput(x), x.dialect = "sqlite",
         NEW ops, ops = PlanOperations(DiffSchema(LoadedFrom(s, x), x.desired)),
         NEW w, DialectWarnings(ops, x.dialect) \subseteq w,
         NEW n \in DOMAIN s.tables \cap DOMAIN x.desired.tables,
         NEW t, t = s.tables[n], NEW d, d = x.desired.tables[n]
  PROVE  /\ \A c \in ChangedColumns(t, d, x) : <<"alter column", n, c>> \in w
         /\ \A k \in DOMAIN ByName(Shown(t, x)) \ DOMAIN ByName(d) : <<"drop constraint", n, k>> \in w
<1> DEFINE cur == LoadedFrom(s, x)
           sc == Shown(t, x).columns
           diff == DiffColumns(sc, d.columns)
           cdiff == DiffByKey(ByName(Shown(t, x)), ByName(d))
           a == FullAlter(t, n, x)
<1>1. TypedTable(t) /\ TypedTable(d)
  BY DEF TypedCatalog, TypedInput, DefinedTable
<1>2. DOMAIN sc = DOMAIN t.columns
  BY <1>1, ShownIs
<1>3. /\ DOMAIN a.columns = DOMAIN diff
      /\ \A c \in DOMAIN a.columns : a.columns[c] = ColumnAction(diff[c])
      /\ DOMAIN a.constraints = DOMAIN cdiff
      /\ \A k \in DOMAIN a.constraints : a.constraints[k] = ConstraintAction(cdiff[k])
      /\ a.op = "AlterTable" /\ a.table = n
  <2>1. /\ Alteration(n, Shown(t, x), d).columns = diff
        /\ Alteration(n, Shown(t, x), d).constraints = cdiff
    BY DEF Alteration, DiffConstraints, ByName
  <2>2. a = AlterTable(n, Alteration(n, Shown(t, x), d))
    BY DEF FullAlter
  <2> HIDE DEF a, diff, cdiff
  <2> QED
    BY <2>1, <2>2, AlterTableIs
<1>4. Differs(Shown(t, x), d) <=> DOMAIN diff # {} \/ DOMAIN cdiff # {}
  BY DEF Differs, DiffConstraints, ByName
<1>5. Differs(Shown(t, x), d) => a \in ops
  <2>1. /\ DOMAIN cur.tables = DOMAIN s.tables
        /\ cur.tables[n] = Shown(t, x)
    BY LoadedIs
  <2>2. a = AlterTable(n, Alteration(n, cur.tables[n], x.desired.tables[n]))
    BY <2>1 DEF FullAlter
  <2> HIDE DEF cur, a
  <2> QED
    BY <2>1, <2>2, PlannedIs DEF cur
<1> HIDE DEF sc, diff, cdiff, a
<1>6. a \in ops =>
        /\ \A c \in DOMAIN a.columns : a.columns[c].act = "AlterColumn" => <<"alter column", n, c>> \in w
        /\ \A k \in DOMAIN a.constraints : a.constraints[k].drop => <<"drop constraint", n, k>> \in w
  <2> DEFINE Left(st) ==
               {<<"alter column", st.table, c>> : c \in {c \in DOMAIN st.columns : st.columns[c].act = "AlterColumn"}}
               \cup {<<"drop constraint", st.table, k>> :
                      k \in {k \in DOMAIN st.constraints : st.constraints[k].drop}}
  <2>1. DialectWarnings(ops, x.dialect) = UNION {Left(st) : st \in Alters(ops)}
    BY DEF DialectWarnings
  <2>2. a \in ops => a \in Alters(ops)
    BY <1>3 DEF Alters
  <2>3. /\ \A c \in DOMAIN a.columns : a.columns[c].act = "AlterColumn" => <<"alter column", n, c>> \in Left(a)
        /\ \A k \in DOMAIN a.constraints : a.constraints[k].drop => <<"drop constraint", n, k>> \in Left(a)
    BY <1>3
  <2> HIDE DEF Left
  <2>4. a \in ops => Left(a) \subseteq w
    BY <2>1, <2>2
  <2> QED
    BY <2>3, <2>4
<1>7. ASSUME NEW c \in ChangedColumns(t, d, x)
      PROVE  <<"alter column", n, c>> \in w
  <2>1. c \in DOMAIN sc /\ c \in DOMAIN d.columns /\ Changed(sc[c], d.columns[c]) # {}
    BY <1>2 DEF ChangedColumns, sc
  <2>2. c \in DOMAIN diff /\ diff[c] = ColumnDiff(sc, d.columns, c)
    BY <2>1, DiffColumnsIs DEF diff
  <2>3. a.columns[c] = ColumnAction(ColumnDiff(sc, d.columns, c))
    BY <1>3, <2>2
  <2>4. a.columns[c].act = "AlterColumn"
    <3> DEFINE ac == a.columns[c]
               dc == d.columns
    <3>1. ac = ColumnAction(ColumnDiff(sc, dc, c)) /\ c \in DOMAIN sc /\ c \in DOMAIN dc /\ dc[c] \in CatalogColumns
      BY <1>1, <2>1, <2>3 DEF TypedTable
    <3> HIDE DEF ac, dc
    <3>2. /\ c \notin DOMAIN sc => ac.act = "AddColumn" /\ ac.def = ColumnDef(dc[c])
          /\ c \notin DOMAIN dc => ac.act = "DropColumn"
          /\ c \in DOMAIN sc /\ c \in DOMAIN dc
               => /\ ac.act = "AlterColumn"
                  /\ ac.type = IF sc[c].type # dc[c].type THEN <<dc[c].type>> ELSE <<>>
                  /\ ac.default = IF sc[c].default # dc[c].default THEN <<dc[c].default>> ELSE <<>>
                  /\ ac.nullable = dc[c].nullable
      BY <3>1, ColumnActionIs
    <3> QED
      BY <3>1, <3>2 DEF ac
  <2> QED
    BY <1>3, <1>4, <1>5, <1>6, <2>2, <2>4
<1>8. ASSUME NEW k \in DOMAIN ByName(Shown(t, x)) \ DOMAIN ByName(d)
      PROVE  <<"drop constraint", n, k>> \in w
  <2> DEFINE B == ByName(Shown(t, x))
             D == ByName(d)
  <2>1. k \in DOMAIN cdiff /\ cdiff[k] = Diff1(B, D, k)
    BY DiffByKeyIs DEF cdiff
  <2>2. a.constraints[k] = ConstraintAction(Diff1(B, D, k))
    BY <1>3, <2>1
  <2>3. a.constraints[k].drop
    <3> DEFINE ac == a.constraints[k]
    <3>1. ac = ConstraintAction(Diff1(B, D, k)) /\ k \in DOMAIN B
      BY <2>2
    <3> HIDE DEF ac, B, D
    <3>2. ac.drop <=> k \in DOMAIN B
      <4>1. k \in DOMAIN B \/ k \in DOMAIN D
        BY <3>1
      <4>2. /\ ac.drop <=> k \in DOMAIN B
            /\ ac.add = IF k \in DOMAIN D THEN <<D[k]>> ELSE <<>>
        BY <3>1, <4>1, ConstraintActionIs
      <4> QED
        BY <4>2, Zenon
    <3>3. ac.drop
      BY <3>1, <3>2, Zenon
    <3> QED
      BY <3>3 DEF ac
  <2> QED
    BY <1>3, <1>4, <1>5, <1>6, <2>1, <2>3
<1> QED
  BY <1>7, <1>8

(* A table for which nothing is planned is as it was asked for.            *)
LEMMA NothingNeeded ==
  ASSUME NEW t, TypedTable(t), NEW x, TypedInput(x), NEW n \in DOMAIN x.desired.tables, ~Needs(t, n, x),
         NEW d, d = x.desired.tables[n], NEW w,
         x.dialect = "sqlite" =>
           /\ \A c \in ChangedColumns(t, d, x) : <<"alter column", n, c>> \in w
           /\ \A k \in DOMAIN ByName(Shown(t, x)) \ DOMAIN ByName(d) : <<"drop constraint", n, k>> \in w
  PROVE  TableSettled(t, n, x, w)
<1> DEFINE st == ToAlter(t, n, x)
           sc == Shown(t, x).columns
           B == ByName(Shown(t, x))
           D == ByName(d)
<1>1. /\ DOMAIN sc = DOMAIN t.columns
      /\ DefinedTable(d)
      /\ x.source \in Sources
  BY ShownIs DEF TypedInput
<1>2. ColumnsAltered(st, t, d, x) /\ ConstraintsAltered(st, t, d, x)
  BY <1>1, ToAlterColumns, ToAlterConstraints
<1>3. \/ ~Differs(Shown(t, x), d)
      \/ x.dialect = "sqlite" /\ DOMAIN st.columns = {} /\ DOMAIN st.constraints = {}
  BY DEF Needs, NoActions
<1>4. /\ DOMAIN t.columns = DOMAIN d.columns
      /\ x.dialect # "sqlite" => ChangedColumns(t, d, x) = {}
  <2>1. CASE ~Differs(Shown(t, x), d)
    <3>1. \A c : ~ (/\ c \in DOMAIN sc \cup DOMAIN d.columns
                    /\ c \in DOMAIN sc /\ c \in DOMAIN d.columns => Changed(sc[c], d.columns[c]) # {})
      BY <2>1, DiffColumnsIs DEF Differs
    <3> HIDE DEF sc
    <3>2. \A c : c \in DOMAIN t.columns <=> c \in DOMAIN d.columns
      BY <1>1, <3>1
    <3>3. \A c \in DOMAIN t.columns \cap DOMAIN d.columns : Changed(sc[c], d.columns[c]) = {}
      BY <1>1, <3>1
    <3> QED
      BY <3>2, <3>3 DEF ChangedColumns, sc
  <2>2. CASE x.dialect = "sqlite" /\ DOMAIN st.columns = {}
    <3>1. Acting(st, "AddColumn") = {} /\ Acting(st, "DropColumn") = {}
      BY <2>2 DEF Acting
    <3> QED
      BY <1>2, <2>2, <3>1 DEF ColumnsAltered
  <2> QED
    BY <1>3, <2>1, <2>2
<1>5. /\ \A k \in DOMAIN D : Same(B, D, k)
      /\ x.dialect # "sqlite" => \A k \in DOMAIN B : k \in DOMAIN D
  <2>1. CASE ~Differs(Shown(t, x), d)
    <3>1. DOMAIN DiffByKey(B, D) = {}
      BY <2>1 DEF Differs, DiffConstraints, ByName
    <3> HIDE DEF B, D
    <3>2. \A k \in DOMAIN B \cup DOMAIN D : Same(B, D, k)
      BY <3>1, DiffByKeyIs DEF Same
    <3> QED
      BY <3>2 DEF Same
  <2>2. CASE x.dialect = "sqlite" /\ DOMAIN st.constraints = {}
    BY <1>2, <2>2 DEF ConstraintsAltered
  <2> QED
    BY <1>3, <2>1, <2>2
<1> HIDE DEF st, sc, B, D
<1>6. ASSUME NEW c \in DOMAIN t.columns
      PROVE  \/ ColumnSettled(t.columns[c], d.columns[c], x)
             \/ x.dialect = "sqlite" /\ <<"alter column", n, c>> \in w
  <2>1. CASE c \in ChangedColumns(t, d, x)
    BY <1>4, <2>1
  <2>2. CASE c \notin ChangedColumns(t, d, x)
    BY <1>1, <1>4, <2>2, UnchangedColumnSettled
  <2> QED
    BY <2>1, <2>2
<1>7. ConstraintsSettled(t, n, x, w)
  <2>1. CASE x.source = "library"
    <3>1. B = ByName(t)
      BY <1>1, <2>1, ShownByName DEF B
    <3> QED
      BY <1>5, <2>1, <3>1 DEF ConstraintsSettled, D, B
  <2>2. CASE x.source = "json"
    <3>1. DOMAIN B = {}
      BY <1>1, <2>2, ShownByName DEF B
    <3> QED
      BY <1>5, <2>2, <3>1 DEF ConstraintsSettled, D, Same
  <2> QED
    BY <1>1, <2>1, <2>2 DEF Sources
<1> QED
  BY <1>4, <1>6, <1>7 DEF TableSettled, ColumnsSettled

(* What a run plans and announces is consistent with the database.         *)
LEMMA RunConsistent ==
  ASSUME NEW s, TypedCatalog(s), NEW x, TypedInput(x),
         NEW ops, ops = PlanOperations(DiffSchema(LoadedFrom(s, x), x.desired)),
         NEW p, p = StatementsForDialect(ops, x.dialect), ~EmitFails(p, x.dialect),
         NEW w, w = Warnings(LoadedFrom(s, x), x.desired) \cup DialectWarnings(ops, x.dialect)
  PROVE  Consistent(s, x, p, w)
<1>1. ASSUME NEW st
      PROVE  st \in p <=> Planned(s, x, st)
  BY PlanIs
<1>2. LossesAnnounced(s, x, w)
  <2>1. Warnings(LoadedFrom(s, x), x.desired) \subseteq w
    OBVIOUS
  <2> QED
    BY <2>1, WarningsSuffice
<1>3. OneEach(p)
  BY <1>1, PlanOneEach
<1>4. StillPlanned(s, x, p, w)
  BY <1>1 DEF StillPlanned
<1>5. IndexesPending(s, x, p)
  BY <1>1 DEF IndexesPending, Planned, Same
<1>6. ASSUME NEW n \in DOMAIN s.tables \cap DOMAIN x.desired.tables
      PROVE  x.dialect = "sqlite" =>
               /\ \A c \in ChangedColumns(s.tables[n], x.desired.tables[n], x) : <<"alter column", n, c>> \in w
               /\ \A k \in DOMAIN ByName(Shown(s.tables[n], x)) \ DOMAIN ByName(x.desired.tables[n]) :
                    <<"drop constraint", n, k>> \in w
  <2>1. DialectWarnings(ops, x.dialect) \subseteq w
    OBVIOUS
  <2> QED
    BY <2>1, DialectWarningsSuffice
<1>7. ASSUME NEW n \in DOMAIN s.tables \cup DOMAIN x.desired.tables
      PROVE  \/ PendingOn(p, n)
             \/ /\ n \in DOMAIN s.tables \cap DOMAIN x.desired.tables
                /\ TableSettled(s.tables[n], n, x, w)
  <2>1. CASE n \notin DOMAIN s.tables
    <3>1. CreateTable(n, x.desired.tables[n]) \in p
      BY <1>1, <2>1 DEF Planned
    <3>2. /\ CreateTable(n, x.desired.tables[n]).op = "CreateTable"
          /\ CreateTable(n, x.desired.tables[n]).table = n
      BY OpsAre
    <3> QED
      BY <3>1, <3>2 DEF PendingOn, OnTable
  <2>2. CASE n \notin DOMAIN x.desired.tables
    <3>1. DropTable(n) \in p
      BY <1>1, <2>2 DEF Planned
    <3>2. DropTable(n).op = "DropTable" /\ DropTable(n).table = n
      BY OpsAre
    <3> QED
      BY <3>1, <3>2 DEF PendingOn, OnTable
  <2>3. CASE n \in DOMAIN s.tables \cap DOMAIN x.desired.tables /\ Needs(s.tables[n], n, x)
    <3>1. ToAlter(s.tables[n], n, x) \in p
      BY <1>1, <2>3 DEF Planned
    <3>2. ToAlter(s.tables[n], n, x).op = "AlterTable" /\ ToAlter(s.tables[n], n, x).table = n
      BY ToAlterIs
    <3> QED
      BY <3>1, <3>2 DEF PendingOn, OnTable
  <2>4. CASE n \in DOMAIN s.tables \cap DOMAIN x.desired.tables /\ ~Needs(s.tables[n], n, x)
    <3>1. TypedTable(s.tables[n])
      BY <2>4 DEF TypedCatalog
    <3>2. TableSettled(s.tables[n], n, x, w)
      BY <1>6, <2>4, <3>1, NothingNeeded
    <3> QED
      BY <2>4, <3>2
  <2> QED
    BY <2>1, <2>2, <2>3, <2>4
<1>8. ASSUME NEW n \in DOMAIN s.tables \cap DOMAIN x.desired.tables, PendingOn(p, n)
      PROVE  LeftOutAnnounced(s.tables[n], n, x, w)
  <2> DEFINE t == s.tables[n]
             d == x.desired.tables[n]
             st == ToAlter(t, n, x)
  <2>1. PICK a \in p : OnTable(a) /\ a.table = n
    BY <1>8 DEF PendingOn
  <2>2. Planned(s, x, a)
    BY <1>1
  <2>3. a = st
    BY <2>1, <2>2, PlannedCases DEF OnTable
  <2>4. st \in p /\ st.op = "AlterTable"
    BY <2>3, ToAlterIs
  <2>5. x.dialect = "sqlite" => DOMAIN st.constraints = {}
    <3> HIDE DEF st
    <3> QED
      BY <2>4 DEF EmitFails, Alters
  <2>6. ConstraintsAltered(st, t, d, x)
    BY ToAlterConstraints
  <2>7. x.dialect = "sqlite" => \A k \in DOMAIN ByName(d) : Same(ByName(Shown(t, x)), ByName(d), k)
    <3> HIDE DEF st
    <3> QED
      BY <2>5, <2>6 DEF ConstraintsAltered
  <2> QED
    BY <1>6, <2>7 DEF LeftOutAnnounced
<1> QED
  BY <1>2, <1>3, <1>4, <1>5, <1>7, <1>8 DEF Consistent, TablesSettled, AlterationsAnnounced

-----------------------------------------------------------------------------
(* What a statement st does to a database s, when it becomes new: nothing  *)
(* to other tables; indexes are created as desired, and lost when they are *)
(* dropped, or with a table or a column, which was announced; and its own  *)
(* table is as it was asked for.                                           *)
Concerns(st, n) == OnTable(st) /\ st.table = n

Effect(s, new, st, x, w) ==
  /\ \A n : ~Concerns(st, n) => /\ n \in DOMAIN new.tables <=> n \in DOMAIN s.tables
                                /\ n \in DOMAIN s.tables => new.tables[n] = s.tables[n]
  /\ \A k \in DOMAIN new.indices :
       \/ k \in DOMAIN s.indices /\ new.indices[k] = s.indices[k]
       \/ st.op = "CreateIndex" /\ k = KeyOf(st)
  /\ st.op = "CreateIndex" => Same(new.indices, x.desired.indices, KeyOf(st))
  /\ st.op = "DropIndex" => KeyOf(st) \notin DOMAIN new.indices
  /\ \A k \in DOMAIN s.indices \ DOMAIN new.indices :
       \/ st = DropIndex(k)
       \/ /\ \E y \in w : y[1] \in {"table", "column"} /\ y[2] = k[1]
          /\ Same(s.indices, x.desired.indices, k) => Dangles(x, k)
  /\ \A n : Concerns(st, n) =>
       /\ n \in DOMAIN new.tables <=> n \in DOMAIN x.desired.tables
       /\ n \in DOMAIN new.tables => /\ TableSettled(new.tables[n], n, x, w)
                                     /\ TableAnnounced(new.tables[n], n, x, w)

LEMMA KeyOfDropIndex ==
  ASSUME NEW k \in Nat \X Nat
  PROVE  KeyOf(DropIndex(k)) = k /\ DropIndex(k).op = "DropIndex"
<1>1. KeyOf(DropIndex(k)) = <<k[1], k[2]>>
  BY OpsAre DEF KeyOf
<1> QED
  BY <1>1, OpsAre

LEMMA KeyOfCreateIndex ==
  ASSUME NEW k \in Nat \X Nat, NEW i
  PROVE  KeyOf(CreateIndex(k, i)) = k /\ CreateIndex(k, i).op = "CreateIndex"
<1>1. KeyOf(CreateIndex(k, i)) = <<k[1], k[2]>>
  BY OpsAre DEF KeyOf
<1> QED
  BY <1>1, OpsAre

LEMMA EffectConsistent ==
  ASSUME NEW s, TypedCatalog(s), NEW x, TypedInput(x), NEW p, NEW w, Consistent(s, x, p, w),
         NEW st \in p, NEW new, TypedCatalog(new), Effect(s, new, st, x, w)
  PROVE  Consistent(new, x, p \ {st}, w)
<1> DEFINE q == p \ {st}
           D == x.desired
<1>1. /\ LossesAnnounced(s, x, w) /\ OneEach(p) /\ StillPlanned(s, x, p, w)
      /\ IndexesPending(s, x, p) /\ TablesSettled(s, x, p, w) /\ AlterationsAnnounced(s, x, p, w)
  BY DEF Consistent
<1>2. ASSUME NEW n, ~Concerns(st, n)
      PROVE  /\ n \in DOMAIN new.tables <=> n \in DOMAIN s.tables
             /\ n \in DOMAIN s.tables => new.tables[n] = s.tables[n]
  BY <1>2 DEF Effect
<1>3. ASSUME NEW k \in DOMAIN new.indices
      PROVE  \/ k \in DOMAIN s.indices /\ new.indices[k] = s.indices[k]
             \/ st.op = "CreateIndex" /\ k = KeyOf(st)
  BY DEF Effect
<1>4. /\ st.op = "CreateIndex" => Same(new.indices, D.indices, KeyOf(st))
      /\ st.op = "DropIndex" => KeyOf(st) \notin DOMAIN new.indices
  BY DEF Effect
<1>5. ASSUME NEW k \in DOMAIN s.indices \ DOMAIN new.indices
      PROVE  \/ st = DropIndex(k)
             \/ /\ \E y \in w : y[1] \in {"table", "column"} /\ y[2] = k[1]
                /\ Same(s.indices, D.indices, k) => Dangles(x, k)
  BY DEF Effect
<1>6. ASSUME NEW n, Concerns(st, n)
      PROVE  /\ n \in DOMAIN new.tables <=> n \in DOMAIN D.tables
             /\ n \in DOMAIN new.tables => /\ TableSettled(new.tables[n], n, x, w)
                                           /\ TableAnnounced(new.tables[n], n, x, w)
  BY <1>6 DEF Effect
<1>7. /\ DOMAIN s.indices \subseteq Nat \X Nat /\ DOMAIN new.indices \subseteq Nat \X Nat
      /\ DOMAIN D.indices \subseteq Nat \X Nat
  BY DEF TypedCatalog, TypedInput
<1> HIDE DEF D
<1>8. LossesAnnounced(new, x, w)
  <2>1. ASSUME NEW n \in DOMAIN new.tables \ DOMAIN D.tables
        PROVE  <<"table", n>> \in w
    BY <1>1, <1>2, <1>6 DEF LossesAnnounced, D
  <2>2. ASSUME NEW k \in DOMAIN new.indices \ DOMAIN D.indices
        PROVE  <<"index", k>> \in w
    BY <1>1, <1>3, <1>4 DEF LossesAnnounced, Same, D
  <2>3. ASSUME NEW n \in DOMAIN new.tables \cap DOMAIN D.tables
        PROVE  TableAnnounced(new.tables[n], n, x, w)
    BY <1>1, <1>2, <1>6 DEF LossesAnnounced, D
  <2> QED
    BY <2>1, <2>2, <2>3 DEF LossesAnnounced, D
<1>9. OneEach(q)
  BY <1>1 DEF OneEach
<1>10. ASSUME NEW a \in q
       PROVE  /\ OnTable(a) => ~Concerns(st, a.table)
              /\ OnIndex(a) /\ OnIndex(st) => KeyOf(a) # KeyOf(st)
  <2>1. a # st /\ a \in p
    OBVIOUS
  <2>2. KeyOf(a) = KeyOf(st) => a.table = st.table /\ a.name = st.name
    BY DEF KeyOf
  <2> QED
    BY <1>1, <2>1, <2>2 DEF OneEach, Concerns
<1>11. ASSUME NEW a \in q
       PROVE  Planned(new, x, a) \/ GoneIndex(new, w, a)
  <2>1. Planned(s, x, a) \/ GoneIndex(s, w, a)
    BY <1>1 DEF StillPlanned
  <2>2. CASE Planned(s, x, a) /\ OnTable(a)
    <3>1. ~Concerns(st, a.table)
      BY <1>10, <2>2
    <3>2. /\ a.table \in DOMAIN new.tables <=> a.table \in DOMAIN s.tables
          /\ a.table \in DOMAIN s.tables => new.tables[a.table] = s.tables[a.table]
      BY <1>2, <3>1
    <3>3. \/ /\ a.table \in DOMAIN x.desired.tables \ DOMAIN s.tables
             /\ a = CreateTable(a.table, x.desired.tables[a.table])
          \/ /\ a.table \in DOMAIN s.tables \ DOMAIN x.desired.tables
             /\ a = DropTable(a.table)
          \/ /\ a.table \in DOMAIN s.tables \cap DOMAIN x.desired.tables
             /\ Needs(s.tables[a.table], a.table, x)
             /\ a = ToAlter(s.tables[a.table], a.table, x)
      BY <2>2, PlannedCases DEF OnTable
    <3> QED
      BY <3>2, <3>3 DEF Planned
  <2>3. CASE a.op = "CreateIndex" /\ Planned(s, x, a)
    <3>1. /\ KeyOf(a) \in DOMAIN D.indices
          /\ ~Same(s.indices, D.indices, KeyOf(a))
          /\ a = CreateIndex(KeyOf(a), D.indices[KeyOf(a)])
      BY <2>3, PlannedCases DEF D
    <3>2. ~Same(new.indices, D.indices, KeyOf(a))
      <4> SUFFICES ASSUME Same(new.indices, D.indices, KeyOf(a))
                   PROVE  FALSE
        OBVIOUS
      <4>1. KeyOf(a) \in DOMAIN new.indices
        BY DEF Same
      <4>2. CASE KeyOf(a) \in DOMAIN s.indices /\ new.indices[KeyOf(a)] = s.indices[KeyOf(a)]
        BY <3>1, <4>2 DEF Same
      <4>3. CASE st.op = "CreateIndex" /\ KeyOf(a) = KeyOf(st)
        BY <1>10, <2>3, <4>3 DEF OnIndex, OnTable
      <4> QED
        BY <1>3, <4>1, <4>2, <4>3
    <3> QED
      BY <3>1, <3>2 DEF Planned, Same, D
  <2>4. CASE a.op = "DropIndex" /\ Planned(s, x, a)
    <3>1. KeyOf(a) \in DOMAIN s.indices \ DOMAIN D.indices /\ a = DropIndex(KeyOf(a))
      BY <2>4, PlannedCases DEF D
    <3>2. CASE KeyOf(a) \in DOMAIN new.indices
      BY <3>1, <3>2 DEF Planned, D
    <3>3. CASE KeyOf(a) \notin DOMAIN new.indices
      <4>1. st # DropIndex(KeyOf(a))
        BY <3>1
      <4>2. \E y \in w : y[1] \in {"table", "column"} /\ y[2] = KeyOf(a)[1]
        BY <1>5, <3>1, <3>3, <4>1
      <4>3. KeyOf(a)[1] = a.table
        BY DEF KeyOf
      <4>4. KeyOf(a) \in (Nat \X Nat) \ DOMAIN new.indices
        BY <1>7, <3>1, <3>3
      <4> QED
        BY <2>4, <3>1, <4>2, <4>3, <4>4 DEF GoneIndex, KeyOf
    <3> QED
      BY <3>2, <3>3
  <2>5. CASE GoneIndex(s, w, a)
    <3>1. a.op = "DropIndex" /\ KeyOf(a) \in (Nat \X Nat) \ DOMAIN s.indices
      BY <2>5 DEF GoneIndex, KeyOf
    <3>2. KeyOf(a) \notin DOMAIN new.indices
      <4> SUFFICES ASSUME KeyOf(a) \in DOMAIN new.indices
                   PROVE  FALSE
        OBVIOUS
      <4>1. st.op = "CreateIndex" /\ KeyOf(a) = KeyOf(st)
        BY <1>3, <3>1
      <4> QED
        BY <1>10, <3>1, <4>1 DEF OnIndex, OnTable
    <3> QED
      BY <2>5, <3>1, <3>2 DEF GoneIndex, KeyOf
  <2> QED
    BY <2>1, <2>2, <2>3, <2>4, <2>5, PlannedCases DEF OnTable
<1>12. IndexesPending(new, x, q)
  <2>1. ASSUME NEW k \in DOMAIN new.indices \ DOMAIN D.indices
        PROVE  DropIndex(k) \in q
    <3>1. k \in DOMAIN s.indices
      BY <1>3, <1>4 DEF Same
    <3>2. DropIndex(k) \in p
      BY <1>1, <3>1 DEF IndexesPending, D
    <3>3. DropIndex(k) # st
      BY <1>4, <1>7, KeyOfDropIndex
    <3> QED
      BY <3>2, <3>3
  <2>2. ASSUME NEW k \in DOMAIN D.indices, ~Dangles(x, k)
        PROVE  Same(new.indices, D.indices, k) \/ CreateIndex(k, D.indices[k]) \in q
    <3>1. Same(s.indices, D.indices, k) \/ CreateIndex(k, D.indices[k]) \in p
      BY <1>1, <2>2 DEF IndexesPending, D
    <3>2. CASE Same(s.indices, D.indices, k)
      <4>1. k \in DOMAIN s.indices
        BY <3>2 DEF Same
      <4>2. k \in DOMAIN new.indices
        <5> SUFFICES ASSUME k \notin DOMAIN new.indices
                     PROVE  FALSE
          OBVIOUS
        <5>1. st = DropIndex(k)
          BY <1>5, <2>2, <3>2, <4>1
        <5>2. KeyOf(st) = k /\ st.op = "DropIndex"
          BY <1>7, <4>1, <5>1, KeyOfDropIndex
        <5>3. Planned(s, x, st) \/ GoneIndex(s, w, st)
          BY <1>1 DEF StillPlanned
        <5>4. ~Planned(s, x, st)
          BY <2>2, <5>2, PlannedCases DEF D
        <5> QED
          BY <4>1, <5>2, <5>3, <5>4 DEF GoneIndex, KeyOf
      <4>3. CASE new.indices[k] = s.indices[k]
        BY <3>2, <4>2, <4>3 DEF Same
      <4>4. CASE st.op = "CreateIndex" /\ k = KeyOf(st)
        BY <1>4, <4>4
      <4> QED
        BY <1>3, <4>2, <4>3, <4>4
    <3>3. CASE CreateIndex(k, D.indices[k]) = st
      BY <1>4, <1>7, <3>3, KeyOfCreateIndex
    <3> QED
      BY <3>1, <3>2, <3>3
  <2> QED
    BY <2>1, <2>2 DEF IndexesPending, D
<1>13. ASSUME NEW n \in DOMAIN new.tables \cup DOMAIN D.tables
       PROVE  \/ PendingOn(q, n)
              \/ n \in DOMAIN new.tables \cap DOMAIN D.tables /\ TableSettled(new.tables[n], n, x, w)
  <2>1. CASE Concerns(st, n)
    BY <1>6, <2>1
  <2>2. CASE ~Concerns(st, n)
    <3>1. n \in DOMAIN s.tables \cup DOMAIN D.tables
      BY <1>2, <2>2
    <3>2. CASE PendingOn(p, n)
      BY <2>2, <3>2 DEF PendingOn, Concerns
    <3>3. CASE n \in DOMAIN s.tables \cap DOMAIN D.tables /\ TableSettled(s.tables[n], n, x, w)
      BY <1>2, <2>2, <3>3
    <3> QED
      BY <1>1, <3>1, <3>2, <3>3 DEF TablesSettled, D
  <2> QED
    BY <2>1, <2>2
<1>14. ASSUME NEW n \in DOMAIN new.tables \cap DOMAIN D.tables, PendingOn(q, n)
       PROVE  LeftOutAnnounced(new.tables[n], n, x, w)
  <2>1. PICK a \in q : OnTable(a) /\ a.table = n
    BY <1>14 DEF PendingOn
  <2>2. ~Concerns(st, n)
    BY <1>10, <2>1
  <2>3. n \in DOMAIN s.tables /\ new.tables[n] = s.tables[n]
    BY <1>2, <2>2
  <2>4. PendingOn(p, n)
    BY <2>1 DEF PendingOn
  <2> QED
    BY <1>1, <2>3, <2>4 DEF AlterationsAnnounced, D
<1> QED
  BY <1>8, <1>9, <1>11, <1>12, <1>13, <1>14
     DEF Consistent, StillPlanned, TablesSettled, AlterationsAnnounced, D

-----------------------------------------------------------------------------
(* What the database makes of each kind of statement.                      *)

LEMMA WithIs ==
  ASSUME NEW f, NEW k, NEW v, NEW g, g = With(f, k, v)
  PROVE  /\ \A y : y \in DOMAIN g <=> y \in DOMAIN f \/ y = k
         /\ g[k] = v
         /\ \A y \in DOMAIN f : y # k => g[y] = f[y]
BY DEF With

LEMMA WithoutIs ==
  ASSUME NEW f, NEW keys, NEW g, g = Without(f, keys)
  PROVE  /\ \A y : y \in DOMAIN g <=> y \in DOMAIN f /\ y \notin keys
         /\ \A y \in DOMAIN g : g[y] = f[y]
BY DEF Without

(* The parts of the catalog once a statement is applied.                   *)
LEMMA AppliedIs ==
  ASSUME TypedCatalog(db), NEW st, NEW new, new = Applied(st),
         NEW lost, lost = IndexesUsing(st.table, Acting(st, "DropColumn"))
  PROVE  /\ st.op = "CreateTable" =>
              new = [tables |-> With(db.tables, st.table, CatalogTable(st)), indices |-> db.indices]
         /\ st.op = "DropTable" =>
              new = [tables |-> Without(db.tables, {st.table}),
                     indices |-> Without(db.indices, {k \in DOMAIN db.indices : k[1] = st.table})]
         /\ st.op = "AlterTable" =>
              new = [tables |-> With(db.tables, st.table, TableAfter(db.tables[st.table], st)),
                     indices |-> Without(db.indices, lost)]
         /\ st.op = "CreateIndex" =>
              new = [tables |-> db.tables, indices |-> With(db.indices, <<st.table, st.name>>, st.index)]
         /\ st.op = "DropIndex" =>
              new = [tables |-> db.tables, indices |-> Without(db.indices, {<<st.table, st.name>>})]
<1>1. db = [tables |-> db.tables, indices |-> db.indices]
  BY DEF TypedCatalog
<1>2. ASSUME st.op = "CreateTable"
      PROVE  new = [tables |-> With(db.tables, st.table, CatalogTable(st)), indices |-> db.indices]
  BY <1>1, <1>2 DEF Applied
<1>3. ASSUME st.op = "DropTable"
      PROVE  new = [tables |-> Without(db.tables, {st.table}),
                    indices |-> Without(db.indices, {k \in DOMAIN db.indices : k[1] = st.table})]
  BY <1>3 DEF Applied
<1>4. ASSUME st.op = "AlterTable"
      PROVE  new = [tables |-> With(db.tables, st.table, TableAfter(db.tables[st.table], st)),
                    indices |-> Without(db.indices, lost)]
  BY <1>4 DEF Applied, TableAfter
<1>5. ASSUME st.op = "CreateIndex"
      PROVE  new = [tables |-> db.tables, indices |-> With(db.indices, <<st.table, st.name>>, st.index)]
  BY <1>1, <1>5 DEF Applied
<1>6. ASSUME st.op = "DropIndex"
      PROVE  new = [tables |-> db.tables, indices |-> Without(db.indices, {<<st.table, st.name>>})]
  BY <1>1, <1>6 DEF Applied
<1> QED
  BY <1>2, <1>3, <1>4, <1>5, <1>6

LEMMA CreateTableIs ==
  ASSUME NEW n, NEW t, NEW st, st = CreateTable(n, t)
  PROVE  DOMAIN st.columns = DOMAIN t.columns /\ st.constraints = t.constraints
<1> DEFINE cols == [c \in DOMAIN t.columns |-> ColumnDef(t.columns[c])]
<1>1. DOMAIN cols = DOMAIN t.columns
  OBVIOUS
<1>2. st = [op |-> "CreateTable", table |-> n, columns |-> cols, constraints |-> t.constraints]
  BY DEF CreateTable
<1> HIDE DEF cols
<1> QED
  BY <1>1, <1>2

(* A table that is as the DDL defines it.                                  *)
LEMMA DesiredSettled ==
  ASSUME NEW x, TypedInput(x), NEW n \in DOMAIN x.desired.tables, NEW d, d = x.desired.tables[n], NEW w
  PROVE  TableSettled(d, n, x, w) /\ TableAnnounced(d, n, x, w)
<1>1. TypedTable(d)
  BY DEF TypedInput, DefinedTable
<1>2. ASSUME NEW k \in DOMAIN ByName(d)
      PROVE  ByName(d)[k] \in ConstraintsOf(d)
  <2>1. IsList(d.constraints)
    BY <1>1 DEF TypedTable
  <2> QED
    BY <2>1, ByNameMember DEF ConstraintsOf
<1>3. ColumnsSettled(d, n, x, w)
  BY DEF ColumnsSettled, ColumnSettled
<1>4. ConstraintsSettled(d, n, x, w)
  BY <1>2 DEF ConstraintsSettled, Same
<1>5. ASSUME NEW c \in DOMAIN d.columns
      PROVE  /\ ~IsNarrowing(d.columns[c].type, d.columns[c].type)
             /\ ~Tightens(d.columns[c], d.columns[c])
  <2> DEFINE type == d.columns[c].type
             nullable == d.columns[c].nullable
  <2>1. type.size \in Nat
    BY <1>1 DEF TypedTable, CatalogColumns
  <2>2. ~IsNarrowing(type, type)
    <3> HIDE DEF type
    <3> QED
      BY <2>1 DEF IsNarrowing
  <2>3. ~(nullable /\ ~nullable)
    OBVIOUS
  <2> QED
    BY <2>2, <2>3, Zenon DEF Tightens
<1>6. TableAnnounced(d, n, x, w)
  BY <1>5 DEF TableAnnounced
<1> QED
  BY <1>3, <1>4, <1>6 DEF TableSettled

LEMMA EffectOfCreateTable ==
  ASSUME DatabaseOK(db), NEW x, TypedInput(x), NEW w, NEW st, Planned(db, x, st), st.op = "CreateTable", Takes(st),
         NEW new, new = Applied(st)
  PROVE  Effect(db, new, st, x, w) /\ DatabaseOK(new)
<1> DEFINE n == st.table
           d == x.desired.tables[n]
<1>1. TypedCatalog(db) /\ \A m \in DOMAIN db.tables : ~Malformed(db.tables[m])
  BY DEF DatabaseOK
<1>2. n \in DOMAIN x.desired.tables \ DOMAIN db.tables /\ st = CreateTable(n, d)
  BY <1>1, PlannedCases
<1>3. DefinedTable(d) /\ TypedTable(d)
  BY <1>2 DEF TypedInput, DefinedTable
<1>4. CatalogTable(st) = d
  BY <1>2, <1>3, TableRoundTrip
<1>5. new = [tables |-> With(db.tables, n, d), indices |-> db.indices]
  BY <1>1, <1>4, AppliedIs
<1>6. /\ \A m : m \in DOMAIN new.tables <=> m \in DOMAIN db.tables \/ m = n
      /\ new.tables[n] = d
      /\ \A m \in DOMAIN db.tables : m # n => new.tables[m] = db.tables[m]
  BY <1>5, WithIs
<1>7. ~Malformed(d)
  <2>1. ~Malformed(st)
    BY DEF Takes, CannotApply
  <2>2. DOMAIN st.columns = DOMAIN d.columns /\ st.constraints = d.constraints
    BY <1>2, CreateTableIs
  <2> QED
    BY <2>1, <2>2 DEF Malformed
<1>8. new.indices = db.indices /\ new = [tables |-> new.tables, indices |-> new.indices]
  BY <1>5
<1>9. DatabaseOK(new)
  <2>1. DOMAIN new.tables \subseteq Nat
    BY <1>1, <1>2, <1>6 DEF TypedCatalog, TypedInput
  <2>2. ASSUME NEW m \in DOMAIN new.tables
        PROVE  TypedTable(new.tables[m]) /\ ~Malformed(new.tables[m])
    BY <1>1, <1>3, <1>6, <1>7 DEF TypedCatalog
  <2> QED
    BY <1>1, <1>8, <2>1, <2>2 DEF DatabaseOK, TypedCatalog
<1>10. TableSettled(d, n, x, w) /\ TableAnnounced(d, n, x, w)
  BY <1>2, DesiredSettled
<1>11. OnTable(st)
  BY DEF OnTable
<1> HIDE DEF n, d
<1>12. Effect(db, new, st, x, w)
  BY <1>2, <1>6, <1>8, <1>10, <1>11 DEF Effect, Concerns, n
<1> QED
  BY <1>9, <1>12

LEMMA EffectOfDropTable ==
  ASSUME DatabaseOK(db), NEW x, TypedInput(x), NEW w, LossesAnnounced(db, x, w),
         NEW st, Planned(db, x, st), st.op = "DropTable",
         NEW new, new = Applied(st)
  PROVE  Effect(db, new, st, x, w) /\ DatabaseOK(new)
<1> DEFINE n == st.table
<1>1. TypedCatalog(db) /\ \A m \in DOMAIN db.tables : ~Malformed(db.tables[m])
  BY DEF DatabaseOK
<1>2. n \in DOMAIN db.tables \ DOMAIN x.desired.tables
  BY <1>1, PlannedCases
<1>3. new = [tables |-> Without(db.tables, {n}), indices |-> Without(db.indices, {k \in DOMAIN db.indices : k[1] = n})]
  BY <1>1, AppliedIs
<1>4. /\ \A m : m \in DOMAIN new.tables <=> m \in DOMAIN db.tables /\ m # n
      /\ \A m \in DOMAIN new.tables : new.tables[m] = db.tables[m]
  BY <1>3, WithoutIs
<1>5. /\ \A k : k \in DOMAIN new.indices <=> k \in DOMAIN db.indices /\ k[1] # n
      /\ \A k \in DOMAIN new.indices : new.indices[k] = db.indices[k]
  BY <1>3, WithoutIs
<1>6. new = [tables |-> new.tables, indices |-> new.indices]
  BY <1>3
<1>7. DatabaseOK(new)
  BY <1>1, <1>4, <1>5, <1>6 DEF DatabaseOK, TypedCatalog
<1>8. <<"table", n>> \in w
  BY <1>2 DEF LossesAnnounced
<1>9. ASSUME NEW k \in DOMAIN db.indices \ DOMAIN new.indices
      PROVE  /\ \E y \in w : y[1] \in {"table", "column"} /\ y[2] = k[1]
             /\ Dangles(x, k)
  <2>1. k[1] = n
    BY <1>5
  <2> QED
    BY <1>2, <1>8, <2>1 DEF Dangles
<1>10. OnTable(st)
  BY DEF OnTable
<1> HIDE DEF n
<1>11. Effect(db, new, st, x, w)
  BY <1>2, <1>4, <1>5, <1>9, <1>10 DEF Effect, Concerns, n
<1> QED
  BY <1>7, <1>11

LEMMA EffectOfCreateIndex ==
  ASSUME DatabaseOK(db), NEW x, TypedInput(x), NEW w, NEW st, Planned(db, x, st), st.op = "CreateIndex",
         NEW new, new = Applied(st)
  PROVE  Effect(db, new, st, x, w) /\ DatabaseOK(new)
<1> DEFINE k == KeyOf(st)
           i == x.desired.indices[k]
<1>1. TypedCatalog(db)
  BY DEF DatabaseOK
<1>2. k \in DOMAIN x.desired.indices /\ st = CreateIndex(k, i)
  BY <1>1, PlannedCases
<1>3. st.index = i
  BY <1>2, OpsAre
<1>4. new = [tables |-> db.tables, indices |-> With(db.indices, k, i)]
  BY <1>1, <1>3, AppliedIs DEF KeyOf
<1>5. /\ \A y : y \in DOMAIN new.indices <=> y \in DOMAIN db.indices \/ y = k
      /\ new.indices[k] = i
      /\ \A y \in DOMAIN db.indices : y # k => new.indices[y] = db.indices[y]
  BY <1>4, WithIs
<1>6. new.tables = db.tables /\ new = [tables |-> new.tables, indices |-> new.indices]
  BY <1>4
<1>7. DatabaseOK(new)
  <2>1. DOMAIN new.indices \subseteq Nat \X Nat
    BY <1>1, <1>2, <1>5 DEF TypedCatalog, TypedInput
  <2> QED
    BY <1>6, <2>1 DEF DatabaseOK, TypedCatalog
<1>8. ~OnTable(st)
  BY DEF OnTable
<1>9. Same(new.indices, x.desired.indices, k)
  BY <1>2, <1>5 DEF Same
<1> HIDE DEF k, i
<1>10. Effect(db, new, st, x, w)
  BY <1>5, <1>6, <1>8, <1>9 DEF Effect, Concerns, k
<1> QED
  BY <1>7, <1>10

LEMMA EffectOfDropIndex ==
  ASSUME DatabaseOK(db), NEW x, NEW w, NEW st, st.op = "DropIndex", st = DropIndex(KeyOf(st)),
         NEW new, new = Applied(st)
  PROVE  Effect(db, new, st, x, w) /\ DatabaseOK(new)
<1> DEFINE k == KeyOf(st)
<1>1. TypedCatalog(db)
  BY DEF DatabaseOK
<1>2. new = [tables |-> db.tables, indices |-> Without(db.indices, {k})]
  BY <1>1, AppliedIs DEF KeyOf
<1>3. /\ \A y : y \in DOMAIN new.indices <=> y \in DOMAIN db.indices /\ y # k
      /\ \A y \in DOMAIN new.indices : new.indices[y] = db.indices[y]
  BY <1>2, WithoutIs
<1>4. new.tables = db.tables /\ new = [tables |-> new.tables, indices |-> new.indices]
  BY <1>2
<1>5. DatabaseOK(new)
  BY <1>3, <1>4 DEF DatabaseOK, TypedCatalog
<1>6. ~OnTable(st)
  BY DEF OnTable
<1> HIDE DEF k
<1>7. Effect(db, new, st, x, w)
  BY <1>3, <1>4, <1>6 DEF Effect, Concerns, k
<1> QED
  BY <1>5, <1>7

(* Nothing is left to announce of a table that is altered.                 *)
LEMMA TableAfterAnnounced ==
  ASSUME NEW t, NEW n, NEW st, NEW x, Altering(t, n, st, x), NEW w, TableAnnounced(t, n, x, w),
         NEW new, new = TableAfter(t, st)
  PROVE  TableAnnounced(new, n, x, w)
<1> DEFINE d == x.desired.tables[n]
           kept == Kept(t, st)
           ca == new.constraints
<1>1. new.columns = ColumnsAfter(t, st) /\ ca = Extended(kept, Added(st))
  BY DEF TableAfter
<1>2. DOMAIN new.columns = DOMAIN d.columns
  BY <1>1, ColumnsAfterDomain
<1>3. /\ IsList(t.constraints) /\ IsList(d.constraints)
      /\ \A c \in DOMAIN d.columns : d.columns[c].type.size \in Nat /\ d.columns[c].nullable \in BOOLEAN
  BY AlteringIs DEF TypedTable, CatalogColumns
<1>4. ASSUME NEW c \in DOMAIN new.columns
      PROVE  /\ IsNarrowing(new.columns[c].type, d.columns[c].type) => <<"narrowing", n, c>> \in w
             /\ Tightens(new.columns[c], d.columns[c]) => <<"not null", n, c>> \in w
  <2> DEFINE is == new.columns[c]
             asked == d.columns[c]
  <2>1. asked.type.size \in Nat /\ asked.nullable \in BOOLEAN /\ is = ColumnsAfter(t, st)[c] /\ c \in DOMAIN d.columns
    BY <1>1, <1>2, <1>3
  <2> HIDE DEF is, asked
  <2>2. ASSUME is.type = asked.type, is.nullable = asked.nullable
        PROVE  ~IsNarrowing(is.type, asked.type) /\ ~Tightens(is, asked)
    <3>1. ~IsNarrowing(is.type, asked.type)
      BY <2>1, <2>2 DEF IsNarrowing
    <3>2. ~Tightens(is, asked)
      BY <2>2, Zenon DEF Tightens
    <3> QED
      BY <3>1, <3>2
  <2>3. CASE c \notin DOMAIN t.columns
    <3>1. is = asked
      BY <2>1, <2>3, AddedColumnIs DEF asked
    <3> QED
      BY <2>2, <3>1 DEF is, asked
  <2>4. CASE c \in Acting(st, "AlterColumn")
    <3>1. is.type = asked.type /\ is.nullable = asked.nullable
      BY <2>1, <2>4, AlteredColumnIs DEF asked
    <3> QED
      BY <2>2, <3>1 DEF is, asked
  <2>5. CASE c \in DOMAIN t.columns /\ c \notin Acting(st, "AlterColumn")
    <3>1. is = t.columns[c]
      BY <2>1, <2>5, KeptColumnIs
    <3>2. c \in DOMAIN t.columns \cap DOMAIN d.columns
      BY <2>1, <2>5
    <3> QED
      BY <3>1, <3>2 DEF TableAnnounced, is, asked
  <2> QED
    BY <2>3, <2>4, <2>5
<1>5. ASSUME x.source = "library", NEW k \in DOMAIN ByName(new) \ DOMAIN ByName(d)
      PROVE  <<"constraint", n, k>> \in w
  <2>1. IsExtension(ca, kept, Added(st))
    BY <1>1, ConstraintsAfterIs
  <2>2. PICK i \in DOMAIN ca : ConstraintName(ca[i]) = k
    BY ByNameDomain DEF ByName
  <2>3. CASE i \in DOMAIN kept
    <3>1. i \in DOMAIN t.constraints /\ ca[i] = t.constraints[i]
      BY <1>3, <2>1, <2>3, KeptIs DEF IsExtension
    <3>2. k \in DOMAIN ByName(t)
      BY <2>2, <3>1, ByNameDomain DEF ByName
    <3> QED
      BY <1>5, <3>2 DEF TableAnnounced
  <2>4. CASE i \notin DOMAIN kept
    <3>1. ca[i] \in Added(st)
      BY <2>1, <2>4 DEF IsExtension
    <3>2. PICK key \in DOMAIN ByName(d) : ca[i] = ByName(d)[key]
      BY <3>1, AlteringIs DEF ConstraintsAltered
    <3>3. ConstraintName(ca[i]) = key
      BY <1>3, <3>2, ByNameMember
    <3> QED
      BY <1>5, <2>2, <3>3
  <2> QED
    BY <2>3, <2>4
<1> QED
  BY <1>2, <1>4, <1>5 DEF TableAnnounced

LEMMA EffectOfAlterTable ==
  ASSUME DatabaseOK(db), NEW x, TypedInput(x), x.dialect = dialect, NEW w, LossesAnnounced(db, x, w),
         NEW st, Planned(db, x, st), st.op = "AlterTable", Takes(st),
         LeftOutAnnounced(db.tables[st.table], st.table, x, w),
         NEW new, new = Applied(st)
  PROVE  Effect(db, new, st, x, w) /\ DatabaseOK(new)
<1> DEFINE n == st.table
           t == db.tables[n]
           d == x.desired.tables[n]
           lost == IndexesUsing(n, Acting(st, "DropColumn"))
           after == TableAfter(t, st)
<1>1. TypedCatalog(db) /\ \A m \in DOMAIN db.tables : ~Malformed(db.tables[m])
  BY DEF DatabaseOK
<1>2. n \in DOMAIN db.tables \cap DOMAIN x.desired.tables /\ st = ToAlter(t, n, x)
  BY <1>1, PlannedCases
<1>3. ~CannotAlter(t, st)
  BY DEF Takes, CannotApply
<1>4. Altering(t, n, st, x)
  BY <1>1, <1>2, <1>3 DEF Altering, TypedCatalog
<1>5. new = [tables |-> With(db.tables, n, after), indices |-> Without(db.indices, lost)]
  BY <1>1, AppliedIs
<1>6. TableAnnounced(t, n, x, w)
  BY <1>2 DEF LossesAnnounced
<1>7. /\ TableSettled(after, n, x, w)
      /\ TypedTable(after) /\ ~Malformed(after)
      /\ TableAnnounced(after, n, x, w)
  BY <1>4, <1>6, TableAfterSettled, TableAfterOK, TableAfterAnnounced
<1>8. ASSUME NEW k \in lost
      PROVE  /\ \E y \in w : y[1] \in {"table", "column"} /\ y[2] = k[1]
             /\ Same(db.indices, x.desired.indices, k) => Dangles(x, k)
  <2>1. PICK i \in DOMAIN db.indices[k].columns :
          k[1] = n /\ db.indices[k].columns[i] \in Acting(st, "DropColumn")
    BY DEF IndexesUsing
  <2> DEFINE c == db.indices[k].columns[i]
  <2>2. c \in DOMAIN t.columns \ DOMAIN d.columns
    <3>1. Acting(st, "DropColumn") = DOMAIN t.columns \ DOMAIN d.columns
      BY <1>4, AlteredColumns
    <3> QED
      BY <2>1, <3>1
  <2>3. <<"column", n, c>> \in w
    BY <1>6, <2>2 DEF TableAnnounced
  <2>4. c \in Range(db.indices[k].columns)
    BY DEF Range
  <2> QED
    BY <2>1, <2>2, <2>3, <2>4 DEF Same, Dangles
<1> HIDE DEF lost, after
<1>9. /\ \A m : m \in DOMAIN new.tables <=> m \in DOMAIN db.tables \/ m = n
      /\ new.tables[n] = after
      /\ \A m \in DOMAIN db.tables : m # n => new.tables[m] = db.tables[m]
  BY <1>5, WithIs
<1>10. /\ \A k : k \in DOMAIN new.indices <=> k \in DOMAIN db.indices /\ k \notin lost
       /\ \A k \in DOMAIN new.indices : new.indices[k] = db.indices[k]
  BY <1>5, WithoutIs
<1>11. new = [tables |-> new.tables, indices |-> new.indices]
  BY <1>5
<1>12. DatabaseOK(new)
  <2>1. DOMAIN new.tables \subseteq Nat /\ DOMAIN new.indices \subseteq Nat \X Nat
    BY <1>1, <1>2, <1>9, <1>10 DEF TypedCatalog
  <2>2. ASSUME NEW m \in DOMAIN new.tables
        PROVE  TypedTable(new.tables[m]) /\ ~Malformed(new.tables[m])
    BY <1>1, <1>7, <1>9 DEF TypedCatalog
  <2> QED
    BY <1>11, <2>1, <2>2 DEF DatabaseOK, TypedCatalog
<1>13. OnTable(st)
  BY DEF OnTable
<1>14. ASSUME NEW k \in DOMAIN db.indices \ DOMAIN new.indices
       PROVE  /\ \E y \in w : y[1] \in {"table", "column"} /\ y[2] = k[1]
              /\ Same(db.indices, x.desired.indices, k) => Dangles(x, k)
  BY <1>8, <1>10
<1> HIDE DEF n, d, t
<1>15. Effect(db, new, st, x, w)
  BY <1>2, <1>7, <1>9, <1>10, <1>13, <1>14 DEF Effect, Concerns, n
<1> QED
  BY <1>12, <1>15

-----------------------------------------------------------------------------
(* The invariant is inductive.                                             *)

LEMMA InputTyped ==
  ASSUME TypedDdl(ddl), dialect \in Dialects, source \in Sources
  PROVE  TypedInput(Input)
<1>1. Input.desired = BuildDesired(ddl) /\ Input.dialect = dialect /\ Input.source = source
  BY DEF Input, Desired
<1> QED
  BY <1>1, DesiredIs DEF TypedInput

LEMMA InputIs ==
  /\ Input.desired = Desired
  /\ Input.dialect = dialect
  /\ Input.source = source
  /\ Current = LoadedFrom(db, Input)
  /\ Dangling = {k \in DOMAIN Desired.indices : Dangles(Input, k)}
<1>1. Input.desired = Desired /\ Input.dialect = dialect /\ Input.source = source
  BY DEF Input
<1> QED
  BY <1>1 DEF Current, LoadedFrom, Dangling, Dangles

(* The first statement, and what it is planned for.                        *)
LEMMA FirstPlanned ==
  ASSUME IInv, phase = "applying", pending # {}
  PROVE  /\ First \in pending
         /\ \A other \in pending \ {First} : Before(First, other)
         /\ Planned(db, Input, First) \/ GoneIndex(db, warned, First)
<1>1. TypedInput(Input) /\ TypedCatalog(db) /\ Consistent(db, Input, pending, warned)
  BY DEF IInv, DatabaseOK
<1>2. OneEach(pending) /\ StillPlanned(db, Input, pending, warned)
  BY <1>1 DEF Consistent
<1>3. \A st \in pending : Named(st)
  BY <1>1, <1>2, PlannedNamed DEF StillPlanned
<1>4. First \in pending /\ \A other \in pending \ {First} : Before(First, other)
  BY <1>2, <1>3, FirstIs
<1> QED
  BY <1>2, <1>4 DEF StillPlanned

LEMMA ApplyEffect ==
  ASSUME IInv, phase = "applying", pending # {}, Takes(First)
  PROVE  /\ Effect(db, Applied(First), First, Input, warned)
         /\ DatabaseOK(Applied(First))
<1> DEFINE st == First
           x == Input
           w == warned
<1>1. st \in pending /\ (Planned(db, x, st) \/ GoneIndex(db, w, st))
  BY FirstPlanned
<1>2. TypedInput(x) /\ DatabaseOK(db) /\ TypedCatalog(db) /\ x.dialect = dialect
  BY InputIs DEF IInv, DatabaseOK
<1>3. LossesAnnounced(db, x, w) /\ AlterationsAnnounced(db, x, pending, w)
  BY DEF IInv, Consistent
<1>4. Takes(st)
  OBVIOUS
<1> HIDE DEF st, x, w
<1>5. CASE Planned(db, x, st)
  <2>1. CASE st.op = "CreateTable"
    BY <1>2, <1>4, <1>5, <2>1, EffectOfCreateTable DEF st, x, w
  <2>2. CASE st.op = "DropTable"
    BY <1>2, <1>3, <1>5, <2>2, EffectOfDropTable DEF st, x, w
  <2>3. CASE st.op = "AlterTable"
    <3>1. OnTable(st) /\ PendingOn(pending, st.table)
      BY <1>1, <2>3 DEF OnTable, PendingOn
    <3>2. st.table \in DOMAIN db.tables \cap DOMAIN x.desired.tables
      BY <1>2, <1>5, <2>3, PlannedCases
    <3>3. LeftOutAnnounced(db.tables[st.table], st.table, x, w)
      BY <1>3, <3>1, <3>2 DEF AlterationsAnnounced
    <3> QED
      BY <1>2, <1>3, <1>4, <1>5, <2>3, <3>3, EffectOfAlterTable DEF st, x, w
  <2>4. CASE st.op = "CreateIndex"
    BY <1>2, <1>5, <2>4, EffectOfCreateIndex DEF st, x, w
  <2>5. CASE st.op = "DropIndex"
    <3>1. st = DropIndex(KeyOf(st))
      BY <1>2, <1>5, <2>5, PlannedCases
    <3> QED
      BY <1>2, <2>5, <3>1, EffectOfDropIndex DEF st, x, w
  <2> QED
    BY <1>2, <1>5, <2>1, <2>2, <2>3, <2>4, <2>5, PlannedCases
<1>6. CASE GoneIndex(db, w, st)
  <2>1. st.op = "DropIndex" /\ st = DropIndex(KeyOf(st))
    BY <1>6 DEF GoneIndex, KeyOf
  <2> QED
    BY <1>2, <2>1, EffectOfDropIndex DEF st, x, w
<1> QED
  BY <1>1, <1>5, <1>6

LEMMA InitInvariant ==
  Init => IInv
<1> SUFFICES ASSUME Init
             PROVE  IInv
  OBVIOUS
<1>1. TypedInput(Input)
  BY InputsAssumption, InputTyped DEF Init
<1>2. DatabaseOK(db)
  BY InputsAssumption DEF Init, DatabaseOK
<1> QED
  BY <1>1, <1>2 DEF Init, IInv

(* The inputs of a run stay what they are.                                 *)
LEMMA InputKept ==
  ASSUME UNCHANGED Inputs
  PROVE  Input' = Input
BY DEF Inputs, Input, Desired, BuildDesired

LEMMA RunInvariant ==
  ASSUME IInv, Run
  PROVE  IInv'
<1>1. Input' = Input /\ db' = db
  BY InputKept DEF Run
<1>2. TypedInput(Input) /\ DatabaseOK(db)
  BY DEF IInv
<1>3. TypedInput(Input)' /\ DatabaseOK(db)'
  BY <1>1, <1>2 DEF IInv
<1>4. CASE Refused(ddl)
  BY <1>3, <1>4 DEF Run, IInv
<1>5. CASE ~Refused(ddl) /\ EmitFails(Statements, dialect)
  BY <1>3, <1>5 DEF Run, IInv
<1>6. CASE ~Refused(ddl) /\ ~EmitFails(Statements, dialect)
  <2> DEFINE x == Input
  <2>1. /\ warned' = Warnings(Current, Desired) \cup DialectWarnings(Operations, dialect)
        /\ phase' = "applying"
        /\ pending' = Statements
    BY <1>6 DEF Run
  <2>2. x.desired = Desired /\ x.dialect = dialect /\ Current = LoadedFrom(db, x)
    BY InputIs
  <2>3. Operations = PlanOperations(DiffSchema(LoadedFrom(db, x), x.desired))
    BY <2>2 DEF Operations
  <2>4. Statements = StatementsForDialect(Operations, x.dialect) /\ ~EmitFails(Statements, x.dialect)
    BY <1>6, <2>2 DEF Statements
  <2>5. warned' = Warnings(LoadedFrom(db, x), x.desired) \cup DialectWarnings(Operations, x.dialect)
    BY <2>1, <2>2
  <2>6. TypedCatalog(db)
    BY <1>2 DEF DatabaseOK
  <2> HIDE DEF x
  <2>7. Consistent(db, x, Statements, warned')
    BY <1>2, <2>3, <2>4, <2>5, <2>6, RunConsistent DEF x
  <2>8. Consistent(db, Input, pending, warned)'
    BY <1>1, <2>1, <2>7 DEF x
  <2> QED
    BY <1>3, <2>1, <2>8 DEF IInv
<1> QED
  BY <1>4, <1>5, <1>6

LEMMA ApplyInvariant ==
  ASSUME IInv, Apply
  PROVE  IInv'
<1> DEFINE x == Input
           st == First
           new == Applied(First)
<1>1. /\ phase = "applying" /\ pending # {} /\ Takes(First)
      /\ db' = new
      /\ pending' = pending \ {st}
      /\ phase' = phase /\ warned' = warned /\ UNCHANGED Inputs
  BY DEF Apply
<1>2. Input' = x
  BY <1>1, InputKept
<1>3. Effect(db, new, st, x, warned) /\ DatabaseOK(new)
  BY <1>1, ApplyEffect
<1>4. st \in pending
  BY <1>1, FirstPlanned
<1>5. TypedInput(x) /\ TypedCatalog(db) /\ TypedCatalog(new) /\ Consistent(db, x, pending, warned)
  BY <1>1, <1>3 DEF IInv, DatabaseOK
<1> HIDE DEF x, st, new
<1>6. Consistent(new, x, pending \ {st}, warned)
  BY <1>3, <1>4, <1>5, EffectConsistent
<1>7. TypedInput(Input)' /\ DatabaseOK(db)' /\ Consistent(db, Input, pending, warned)'
  BY <1>1, <1>2, <1>3, <1>5, <1>6
<1> QED
  BY <1>1, <1>7 DEF IInv

LEMMA NextInvariant ==
  IInv /\ [Next]_vars => IInv'
<1> SUFFICES ASSUME IInv, [Next]_vars
             PROVE  IInv'
  OBVIOUS
<1>1. CASE Run
  BY <1>1, RunInvariant
<1>2. CASE Apply
  BY <1>2, ApplyInvariant
<1>3. ASSUME UNCHANGED Inputs, db' = db
      PROVE  TypedInput(Input)' /\ DatabaseOK(db)'
  BY <1>3, InputKept DEF IInv
<1>4. CASE Reject
  BY <1>3, <1>4 DEF Reject, IInv
<1>5. CASE Interrupt
  BY <1>3, <1>5 DEF Interrupt, IInv
<1>6. CASE Finish
  <2>1. UNCHANGED Inputs /\ db' = db /\ pending' = pending /\ warned' = warned /\ phase = "applying" /\ phase' = "done"
        /\ pending = {}
    BY <1>6 DEF Finish
  <2>2. Input' = Input
    BY <2>1, InputKept
  <2>3. Consistent(db, Input, pending, warned)'
    BY <2>1, <2>2 DEF IInv
  <2> QED
    BY <1>3, <2>1, <2>3 DEF IInv
<1>7. CASE UNCHANGED vars
  <2>1. UNCHANGED <<db, phase, pending, warned>> /\ UNCHANGED Inputs
    BY <1>7 DEF vars, Inputs
  <2>2. Input' = Input
    BY <2>1, InputKept
  <2>3. Consistent(db, Input, pending, warned)' <=> Consistent(db, Input, pending, warned)
    BY <2>1, <2>2
  <2> QED
    BY <1>3, <2>1, <2>3 DEF IInv
<1> QED
  BY <1>1, <1>2, <1>4, <1>5, <1>6, <1>7 DEF Next

(* While statements are applied, what is left of the plan, the warnings    *)
(* and the database fit together: run's plan is not undone by any of its   *)
(* own statements, and the database stays well formed.                     *)
THEOREM PlanStaysConsistent ==
  Spec => []IInv
BY InitInvariant, NextInvariant, PTL DEF Spec

-----------------------------------------------------------------------------
(* What was taken from the database was announced.                         *)

LEMMA NamesAre ==
  ASSUME NEW t
  PROVE  {ConstraintName(tc) : tc \in ConstraintsOf(t)} = DOMAIN ByName(t)
<1>1. ASSUME NEW k
      PROVE  k \in DOMAIN ByName(t) <=> \E i \in DOMAIN t.constraints : ConstraintName(t.constraints[i]) = k
  BY ByNameDomain DEF ByName
<1> QED
  BY <1>1 DEF ConstraintsOf

(* What the change of the table from one column to another can lose.       *)
TableLosses(n, old, new) ==
  LET both == DOMAIN old.columns \cap DOMAIN new.columns
      Names(t) == {ConstraintName(tc) : tc \in ConstraintsOf(t)}
  IN  {<<"column", n, c>> : c \in DOMAIN old.columns \ DOMAIN new.columns}
      \cup {<<"narrowing", n, c>> : c \in {c \in both : Shorter(old.columns[c].type, new.columns[c].type)}}
      \cup {<<"conversion", n, c>> : c \in {c \in both : old.columns[c].type.kind # new.columns[c].type.kind}}
      \cup {<<"not null", n, c>> : c \in {c \in both : Tightens(old.columns[c], new.columns[c])}}
      \cup {<<"default", n, c>> : c \in {c \in both : old.columns[c].default \notin {0, new.columns[c].default}}}
      \cup {<<"identity", n, c>> : c \in {c \in both : old.columns[c].identity /\ ~new.columns[c].identity}}
      \cup {<<"constraint", n, k>> : k \in Names(old) \ Names(new)}

LEMMA LossesAre ==
  ASSUME NEW old, NEW new, NEW y
  PROVE  y \in Losses(old, new) <=>
           \/ \E n \in DOMAIN old.tables \ DOMAIN new.tables : y = <<"table", n>>
           \/ \E k \in DOMAIN old.indices \ DOMAIN new.indices : y = <<"index", k>>
           \/ \E n \in DOMAIN old.tables \cap DOMAIN new.tables : y \in TableLosses(n, old.tables[n], new.tables[n])
<1>1. Losses(old, new) =
        {<<"table", n>> : n \in DOMAIN old.tables \ DOMAIN new.tables}
        \cup {<<"index", k>> : k \in DOMAIN old.indices \ DOMAIN new.indices}
        \cup UNION {TableLosses(n, old.tables[n], new.tables[n]) : n \in DOMAIN old.tables \cap DOMAIN new.tables}
  BY DEF Losses, TableLosses
<1> QED
  BY <1>1

LEMMA NothingLost ==
  ASSUME NEW t, TypedTable(t), NEW n
  PROVE  TableLosses(n, t, t) = {}
<1>1. ASSUME NEW c \in DOMAIN t.columns
      PROVE  ~Shorter(t.columns[c].type, t.columns[c].type) /\ ~Tightens(t.columns[c], t.columns[c])
  <2>1. t.columns[c].type.size \in Nat
    BY DEF TypedTable, CatalogColumns
  <2> QED
    BY <2>1 DEF Shorter, Tightens
<1> QED
  BY <1>1 DEF TableLosses

(* A column that stays has the type and the nullability that it had or     *)
(* those that were asked for.                                              *)
LEMMA ColumnAfterIs ==
  ASSUME NEW t, NEW n, NEW st, NEW x, Altering(t, n, st, x),
         NEW d, d = x.desired.tables[n],
         NEW c \in DOMAIN t.columns \cap DOMAIN d.columns,
         NEW is, is = ColumnsAfter(t, st)[c]
  PROVE  is = t.columns[c] \/ (is.type = d.columns[c].type /\ is.nullable = d.columns[c].nullable)
<1>1. CASE c \in Acting(st, "AlterColumn")
  BY <1>1, AlteredColumnIs
<1>2. CASE c \notin Acting(st, "AlterColumn")
  BY <1>2, KeptColumnIs
<1> QED
  BY <1>1, <1>2

(* What the modification of a column takes without a warning.              *)
ColumnUnannounced(y, n, new, st, x) ==
  LET d == x.desired.tables[n]
  IN  \E c \in Acting(st, "AlterColumn") :
        \/ y = <<"conversion", n, c>> /\ new.columns[c].type = d.columns[c].type
        \/ y = <<"default", n, c>> /\ (new.columns[c].default = d.columns[c].default \/ x.dialect = "mysql")
        \/ y = <<"identity", n, c>> /\ x.dialect = "mysql"

(* A column of which more than a warning names is lost is modified, and    *)
(* has what was asked for or is one of MySQL's.                            *)
LEMMA ModificationTakes ==
  ASSUME NEW t, NEW n, NEW st, NEW x, Altering(t, n, st, x),
         NEW d, d = x.desired.tables[n],
         NEW c \in DOMAIN t.columns \cap DOMAIN d.columns,
         NEW was, was = t.columns[c], NEW is, is = ColumnsAfter(t, st)[c]
  PROVE  /\ was.type.kind # is.type.kind => c \in Acting(st, "AlterColumn") /\ is.type = d.columns[c].type
         /\ was.default \notin {0, is.default} =>
              c \in Acting(st, "AlterColumn") /\ (is.default = d.columns[c].default \/ x.dialect = "mysql")
         /\ was.identity /\ ~is.identity => c \in Acting(st, "AlterColumn") /\ x.dialect = "mysql"
<1>1. CASE c \notin Acting(st, "AlterColumn")
  <2>1. is = was
    BY <1>1, KeptColumnIs
  <2> QED
    BY <2>1
<1>2. CASE c \in Acting(st, "AlterColumn")
  <2>1. /\ is.type = d.columns[c].type
        /\ is.default = IF Shown(t, x).columns[c].default # d.columns[c].default THEN d.columns[c].default
                        ELSE IF x.dialect = "mysql" THEN 0 ELSE was.default
    BY <1>2, AlteredColumnIs
  <2>2. x.dialect # "mysql" => is.identity = was.identity
    <3> DEFINE a == st.columns[c]
    <3>1. /\ c \in (DOMAIN t.columns \cup Acting(st, "AddColumn")) \ Acting(st, "DropColumn")
          /\ c \notin Acting(st, "AddColumn")
      BY <1>2 DEF Acting
    <3>2. is = [was EXCEPT !.type = IF a.type = <<>> THEN @ ELSE a.type[1],
                           !.nullable = a.nullable,
                           !.default = IF a.default # <<>> THEN a.default[1] ELSE IF dialect = "mysql" THEN 0 ELSE @,
                           !.identity = IF dialect = "mysql" THEN FALSE ELSE @]
      BY <1>2, <3>1 DEF ColumnsAfter
    <3>3. was \in CatalogColumns /\ x.dialect = dialect
      BY DEF Altering, TypedTable
    <3> HIDE DEF a
    <3> QED
      BY <3>2, <3>3 DEF CatalogColumns
  <2> QED
    BY <1>2, <2>1, <2>2
<1> QED
  BY <1>1, <1>2

LEMMA TableLossesAnnounced ==
  ASSUME NEW t, NEW n, NEW st, NEW x, Altering(t, n, st, x), NEW w, TableAnnounced(t, n, x, w),
         LeftOutAnnounced(t, n, x, w),
         NEW new, new = TableAfter(t, st),
         NEW y \in TableLosses(n, t, new)
  PROVE  \/ y \in w
         \/ ColumnUnannounced(y, n, new, st, x)
         \/ y[1] = "constraint" /\ y[2] = n /\ (x.source = "json" \/ Malformed(x.desired.tables[n]))
<1> DEFINE d == x.desired.tables[n]
<1>1. new.columns = ColumnsAfter(t, st) /\ DOMAIN new.columns = DOMAIN d.columns
  BY ColumnsAfterDomain DEF TableAfter
<1>2. TypedTable(t) /\ TypedTable(d) /\ x.source \in Sources
  BY AlteringIs DEF Altering, TypedInput
<1>3. ASSUME NEW c \in DOMAIN t.columns \ DOMAIN new.columns
      PROVE  <<"column", n, c>> \in w
  BY <1>1 DEF TableAnnounced
<1>4. ASSUME NEW c \in DOMAIN t.columns \cap DOMAIN new.columns
      PROVE  /\ Shorter(t.columns[c].type, new.columns[c].type) => <<"narrowing", n, c>> \in w
             /\ Tightens(t.columns[c], new.columns[c]) => <<"not null", n, c>> \in w
  <2> DEFINE was == t.columns[c]
             is == new.columns[c]
             asked == d.columns[c]
  <2>1. c \in DOMAIN t.columns \cap DOMAIN d.columns /\ is = ColumnsAfter(t, st)[c]
    BY <1>1
  <2>2. was.type.size \in Nat /\ asked.type.size \in Nat
    BY <1>2, <2>1 DEF TypedTable, CatalogColumns
  <2>3. /\ IsNarrowing(was.type, asked.type) => <<"narrowing", n, c>> \in w
        /\ Tightens(was, asked) => <<"not null", n, c>> \in w
    BY <2>1 DEF TableAnnounced
  <2>4. is = was \/ (is.type = asked.type /\ is.nullable = asked.nullable)
    BY <2>1, ColumnAfterIs
  <2> HIDE DEF was, is, asked
  <2>5. ASSUME Shorter(was.type, is.type)
        PROVE  <<"narrowing", n, c>> \in w
    <3>1. is # was
      BY <2>2, <2>5 DEF Shorter
    <3>2. IsNarrowing(was.type, asked.type)
      BY <2>2, <2>4, <2>5, <3>1 DEF Shorter, IsNarrowing
    <3> QED
      BY <2>3, <3>2
  <2>6. ASSUME Tightens(was, is)
        PROVE  <<"not null", n, c>> \in w
    <3>1. is # was
      BY <2>6, Zenon DEF Tightens
    <3>2. is.nullable = asked.nullable
      BY <2>4, <3>1
    <3>3. Tightens(was, asked)
      BY <2>6, <3>2, Zenon DEF Tightens
    <3> QED
      BY <2>3, <3>3
  <2> QED
    BY <2>5, <2>6 DEF was, is
<1>5. ASSUME NEW k \in DOMAIN ByName(t) \ DOMAIN ByName(new), x.source # "json", ~Malformed(d)
      PROVE  <<"constraint", n, k>> \in w
  <2>1. x.source = "library"
    BY <1>2, <1>5 DEF Sources
  <2>2. TableSettled(new, n, x, w)
    BY TableAfterSettled
  <2>3. k \notin DOMAIN ByName(d)
    BY <1>5, <2>1, <2>2 DEF TableSettled, ConstraintsSettled, Same
  <2> QED
    BY <2>1, <2>3 DEF TableAnnounced
<1>6. ASSUME NEW c \in DOMAIN t.columns \cap DOMAIN new.columns
      PROVE  /\ t.columns[c].type.kind # new.columns[c].type.kind /\ y = <<"conversion", n, c>> =>
                  ColumnUnannounced(y, n, new, st, x)
             /\ t.columns[c].default \notin {0, new.columns[c].default} /\ y = <<"default", n, c>> =>
                  ColumnUnannounced(y, n, new, st, x)
             /\ t.columns[c].identity /\ ~new.columns[c].identity /\ y = <<"identity", n, c>> =>
                  ColumnUnannounced(y, n, new, st, x)
  <2> DEFINE was == t.columns[c]
             is == new.columns[c]
             asked == d.columns[c]
  <2>1. c \in DOMAIN t.columns \cap DOMAIN d.columns /\ is = ColumnsAfter(t, st)[c]
    BY <1>1
  <2>2. /\ was.type.kind # is.type.kind => c \in Acting(st, "AlterColumn") /\ is.type = asked.type
        /\ was.default \notin {0, is.default} =>
             c \in Acting(st, "AlterColumn") /\ (is.default = asked.default \/ x.dialect = "mysql")
        /\ was.identity /\ ~is.identity => c \in Acting(st, "AlterColumn") /\ x.dialect = "mysql"
    BY <2>1, ModificationTakes
  <2> QED
    BY <2>2 DEF ColumnUnannounced
<1>7. \/ \E c \in DOMAIN t.columns \ DOMAIN new.columns : y = <<"column", n, c>>
      \/ \E c \in DOMAIN t.columns \cap DOMAIN new.columns :
           \/ Shorter(t.columns[c].type, new.columns[c].type) /\ y = <<"narrowing", n, c>>
           \/ t.columns[c].type.kind # new.columns[c].type.kind /\ y = <<"conversion", n, c>>
           \/ Tightens(t.columns[c], new.columns[c]) /\ y = <<"not null", n, c>>
           \/ t.columns[c].default \notin {0, new.columns[c].default} /\ y = <<"default", n, c>>
           \/ t.columns[c].identity /\ ~new.columns[c].identity /\ y = <<"identity", n, c>>
      \/ \E k \in DOMAIN ByName(t) \ DOMAIN ByName(new) : y = <<"constraint", n, k>>
  <2> DEFINE Names(u) == {ConstraintName(tc) : tc \in ConstraintsOf(u)}
  <2>1. Names(t) = DOMAIN ByName(t) /\ Names(new) = DOMAIN ByName(new)
    BY NamesAre
  <2> QED
    BY <2>1 DEF TableLosses
<1>8. CASE \E k \in DOMAIN ByName(t) \ DOMAIN ByName(new) : y = <<"constraint", n, k>>
  BY <1>5, <1>8
<1> QED
  BY <1>3, <1>4, <1>6, <1>7, <1>8

(* The ALTER TABLE that the database takes.                                *)
LEMMA FirstAlters ==
  ASSUME IInv, phase = "applying", pending # {}, First.op = "AlterTable",
         NEW n, n = First.table, NEW t, t = db.tables[n]
  PROVE  /\ n \in DOMAIN db.tables \cap DOMAIN Input.desired.tables
         /\ First = ToAlter(t, n, Input)
         /\ TypedTable(t) /\ ~Malformed(t)
         /\ TableAnnounced(t, n, Input, warned)
         /\ LeftOutAnnounced(t, n, Input, warned)
         /\ Takes(First) => /\ Altering(t, n, First, Input)
                            /\ Applied(First).tables[n] = TableAfter(t, First)
<1> DEFINE st == First
           x == Input
<1>1. st \in pending /\ (Planned(db, x, st) \/ GoneIndex(db, warned, st))
  BY FirstPlanned
<1>2. TypedInput(x) /\ TypedCatalog(db) /\ x.dialect = dialect /\ \A m \in DOMAIN db.tables : ~Malformed(db.tables[m])
  BY InputIs DEF IInv, DatabaseOK
<1>3. LossesAnnounced(db, x, warned) /\ AlterationsAnnounced(db, x, pending, warned)
  BY DEF IInv, Consistent
<1>4. Planned(db, x, st)
  BY <1>1 DEF GoneIndex
<1> HIDE DEF x
<1>5. n \in DOMAIN db.tables \cap DOMAIN x.desired.tables /\ st = ToAlter(t, n, x)
  BY <1>2, <1>4, PlannedCases
<1>6. TypedTable(t) /\ ~Malformed(t)
  BY <1>2, <1>5 DEF TypedCatalog
<1>7. TableAnnounced(t, n, x, warned)
  BY <1>3, <1>5 DEF LossesAnnounced
<1>8. LeftOutAnnounced(t, n, x, warned)
  <2>1. PendingOn(pending, n)
    BY <1>1 DEF PendingOn, OnTable
  <2> QED
    BY <1>3, <1>5, <2>1 DEF AlterationsAnnounced
<1>9. ASSUME Takes(st)
      PROVE  Altering(t, n, st, x) /\ Applied(st).tables[n] = TableAfter(t, st)
  <2>1. ~CannotAlter(t, st)
    BY <1>9 DEF Takes, CannotApply
  <2>2. Altering(t, n, st, x)
    BY <1>2, <1>5, <1>6, <2>1 DEF Altering
  <2> DEFINE lost == IndexesUsing(n, Acting(st, "DropColumn"))
             after == TableAfter(t, st)
             new == Applied(st)
  <2>3. new = [tables |-> With(db.tables, n, after), indices |-> Without(db.indices, lost)]
    BY <1>2, AppliedIs
  <2> HIDE DEF lost, after, new
  <2>4. new.tables[n] = after
    BY <2>3, WithIs
  <2> QED
    BY <2>2, <2>4 DEF after, new
<1> QED
  BY <1>5, <1>6, <1>7, <1>8, <1>9 DEF x

LEMMA AppliedLosses ==
  ASSUME IInv, phase = "applying", pending # {}, Takes(First),
         NEW new, new = Applied(First), NEW y \in Losses(db, new)
  PROVE  y \in warned \/ Unannounced(y, new)
<1> DEFINE x == Input
           st == First
<1>1. Effect(db, new, st, x, warned)
  BY ApplyEffect
<1>2. LossesAnnounced(db, x, warned) /\ TypedCatalog(db) /\ TypedInput(x)
  BY DEF IInv, Consistent, DatabaseOK
<1>3. x.desired = Desired /\ x.source = source /\ x.dialect = dialect
  BY InputIs
<1>4. Misdeclared = {n \in DOMAIN x.desired.tables : Malformed(x.desired.tables[n])}
  BY <1>3 DEF Misdeclared
<1>5. Planned(db, x, st) \/ GoneIndex(db, warned, st)
  BY FirstPlanned
<1> HIDE DEF x
<1>6. ASSUME NEW n \in DOMAIN db.tables \ DOMAIN new.tables
      PROVE  <<"table", n>> \in warned
  <2>1. Concerns(st, n) /\ n \notin DOMAIN x.desired.tables
    BY <1>1, <1>6 DEF Effect
  <2> QED
    BY <1>2, <1>6, <2>1 DEF LossesAnnounced
<1>7. ASSUME NEW k \in DOMAIN db.indices \ DOMAIN x.desired.indices
      PROVE  <<"index", k>> \in warned
  BY <1>2 DEF LossesAnnounced
<1>8. ASSUME NEW n \in DOMAIN db.tables \cap DOMAIN new.tables, y \in TableLosses(n, db.tables[n], new.tables[n])
      PROVE  y \in warned \/ Unannounced(y, new)
  <2>1. CASE ~Concerns(st, n)
    <3>1. new.tables[n] = db.tables[n] /\ TypedTable(db.tables[n])
      BY <1>1, <1>2, <2>1 DEF Effect, TypedCatalog
    <3> QED
      BY <1>8, <3>1, NothingLost
  <2>2. CASE Concerns(st, n)
    <3>1. n \in DOMAIN x.desired.tables
      BY <1>1, <2>2 DEF Effect
    <3>2. st.op = "AlterTable" /\ st.table = n
      BY <1>2, <1>5, <2>2, <3>1, PlannedCases DEF Concerns, OnTable, GoneIndex
    <3> DEFINE t == db.tables[n]
    <3>3. /\ TableAnnounced(t, n, x, warned)
          /\ LeftOutAnnounced(t, n, x, warned)
          /\ Altering(t, n, st, x)
          /\ new.tables[n] = TableAfter(t, st)
      BY <3>2, FirstAlters DEF x
    <3>4. \/ y \in warned
          \/ ColumnUnannounced(y, n, new.tables[n], st, x)
          \/ y[1] = "constraint" /\ y[2] = n /\ (x.source = "json" \/ Malformed(x.desired.tables[n]))
      BY <1>8, <3>3, TableLossesAnnounced
    <3>5. ASSUME ColumnUnannounced(y, n, new.tables[n], st, x)
          PROVE  Unannounced(y, new)
      <4>1. PICK c \in Acting(st, "AlterColumn") :
              \/ y = <<"conversion", n, c>> /\ new.tables[n].columns[c].type = Desired.tables[n].columns[c].type
              \/ /\ y = <<"default", n, c>>
                 /\ new.tables[n].columns[c].default = Desired.tables[n].columns[c].default \/ dialect = "mysql"
              \/ y = <<"identity", n, c>> /\ dialect = "mysql"
        BY <1>3, <3>5 DEF ColumnUnannounced
      <4>2. y[2] = n /\ y[3] = c
        BY <4>1
      <4>3. Modifies(First, y)
        BY <3>2, <4>2 DEF Modifies
      <4> QED
        BY <4>1, <4>2, <4>3 DEF Unannounced
    <3>6. ASSUME y[1] = "constraint", y[2] = n, x.source = "json" \/ Malformed(x.desired.tables[n])
          PROVE  Unannounced(y, new)
      BY <1>3, <1>4, <3>1, <3>6 DEF Unannounced
    <3> QED
      BY <3>4, <3>5, <3>6
  <2> QED
    BY <2>1, <2>2
<1>9. ASSUME NEW k \in DOMAIN db.indices, y = <<"index", k>>
      PROVE  y \in warned \/ Unannounced(y, new)
  BY <1>3, <1>7, <1>9 DEF Unannounced
<1> QED
  BY <1>6, <1>8, <1>9, LossesAre

(* Whatever a statement takes from the database, directly or along with a  *)
(* table or a column, the run warned of it, unless it is one of the things *)
(* that Unannounced names: a kind of type or a default for which the DDL   *)
(* asks for another, default and identity where MySQL modifies a column,   *)
(* and an index or a constraint lost with its table or column.             *)
THEOREM LossesAreWarned ==
  Spec => LossesWarned
<1>1. IInv /\ [Next]_vars => [\A x \in Losses(db, db') : x \in warned \/ Unannounced(x, db')]_vars
  <2> SUFFICES ASSUME IInv, Next, NEW y \in Losses(db, db')
               PROVE  y \in warned \/ Unannounced(y, db')
    OBVIOUS
  <2>1. CASE Apply
    BY <2>1, AppliedLosses DEF Apply
  <2>2. CASE db' = db
    <3>1. \A n \in DOMAIN db.tables : TableLosses(n, db.tables[n], db.tables[n]) = {}
      BY NothingLost DEF IInv, DatabaseOK, TypedCatalog
    <3> QED
      BY <2>2, <3>1, LossesAre
  <2> QED
    BY <2>1, <2>2 DEF Next, Run, Reject, Interrupt, Finish
<1> QED
  BY <1>1, PlanStaysConsistent, PTL DEF Spec, LossesWarned

-----------------------------------------------------------------------------
(* What is planned next, and what the database is in the end.              *)

(* An ALTER TABLE for a table that is settled sets again what is set.      *)
LEMMA SettledSetsAgain ==
  ASSUME TypedInput(Input), NEW t, TypedTable(t), NEW n \in DOMAIN Desired.tables, ~Malformed(Desired.tables[n]),
         Needs(t, n, Input), TableSettled(t, n, Input, warned)
  PROVE  SetsAgain(ToAlter(t, n, Input))
<1> DEFINE x == Input
           d == x.desired.tables[n]
           st == ToAlter(t, n, x)
           shown == Shown(t, x)
           S == ByName(shown)
           D == ByName(d)
<1>1. /\ x.desired = Desired /\ x.source = source /\ x.dialect = dialect
      /\ x.source \in Sources /\ x.dialect \in Dialects
      /\ DefinedTable(d)
  BY InputIs DEF TypedInput
<1>2. ColumnsAltered(st, t, d, x) /\ ConstraintsAltered(st, t, d, x)
  BY <1>1, ToAlterColumns, ToAlterConstraints
<1>3. st.op = "AlterTable"
  BY ToAlterIs
<1>4. DOMAIN t.columns = DOMAIN d.columns /\ ConstraintsSettled(t, n, x, warned)
  BY <1>1 DEF TableSettled, ColumnsSettled
<1>5. Acting(st, "AddColumn") = {} /\ Acting(st, "DropColumn") = {}
  BY <1>2, <1>4 DEF ColumnsAltered
<1>6. \/ x.source = "library" /\ S = ByName(t)
      \/ x.source = "json" /\ DOMAIN S = {}
  BY <1>1, ShownByName
<1>7. x.dialect # "sqlite" => DOMAIN st.columns # {} \/ DOMAIN st.constraints # {}
  <2>1. ASSUME x.dialect # "sqlite"
        PROVE  DOMAIN st.columns # {} \/ DOMAIN st.constraints # {}
    <3> DEFINE a == Alteration(n, shown, d)
    <3>1. st = AlterTable(n, a)
      BY <2>1 DEF ToAlter, FullAlter
    <3>2. a.columns = DiffColumns(shown.columns, d.columns) /\ a.constraints = DiffConstraints(shown.constraints, d.constraints)
      BY DEF Alteration
    <3> HIDE DEF a, st
    <3>3. DOMAIN st.columns = DOMAIN a.columns /\ DOMAIN st.constraints = DOMAIN a.constraints
      BY <3>1, AlterTableIs
    <3> QED
      BY <3>2, <3>3 DEF Needs, Differs
  <2> QED
    BY <2>1
<1>8. x.dialect = "sqlite" => DOMAIN st.columns # {} \/ DOMAIN st.constraints # {}
  BY DEF Needs, NoActions
<1> HIDE DEF x, d, st, shown, S, D
<1>9. ASSUME NEW c \in DOMAIN st.columns
      PROVE  c \in Acting(st, "AlterColumn")
  BY <1>2, <1>5 DEF ColumnsAltered, Acting
<1>10. ASSUME NEW c \in DOMAIN st.columns
       PROVE  /\ st.columns[c].act = "AlterColumn" /\ st.columns[c].type = <<>> /\ st.columns[c].default # <<>>
              /\ x.source = "json" \/ x.dialect = "mysql"
  <2>1. x.dialect # "sqlite" /\ c \in ChangedColumns(t, d, x)
    BY <1>2, <1>9 DEF ColumnsAltered
  <2>2. c \in DOMAIN t.columns /\ Changed(shown.columns[c], d.columns[c]) # {}
    BY <2>1 DEF ChangedColumns, shown
  <2>3. ColumnSettled(t.columns[c], d.columns[c], x)
    BY <2>1, <2>2 DEF TableSettled, ColumnsSettled, d, x
  <2>4. /\ shown.columns[c].type = t.columns[c].type
        /\ shown.columns[c].nullable = t.columns[c].nullable
        /\ shown.columns[c].default = IF x.source = "json" THEN 0 ELSE t.columns[c].default
    BY <2>2, ShownIs DEF shown
  <2>5. shown.columns[c].default # d.columns[c].default
    BY <2>2, <2>3, <2>4, ChangedIs DEF ColumnSettled
  <2>6. /\ st.columns[c].type = <<>>
        /\ st.columns[c].default = <<d.columns[c].default>>
    BY <1>2, <1>9, <2>3, <2>5 DEF ColumnsAltered, ColumnSettled, shown
  <2>7. st.columns[c].default # <<>>
    BY <2>6
  <2>8. x.source = "json" \/ x.dialect = "mysql"
    BY <2>3, <2>4, <2>5 DEF ColumnSettled
  <2> QED
    BY <1>9, <2>6, <2>7, <2>8 DEF Acting
<1>11. ASSUME x.source = "library"
       PROVE  DOMAIN st.constraints = {} /\ x.dialect = "mysql"
  <2>1. /\ \A k \in DOMAIN D : Same(S, D, k)
        /\ \A k \in DOMAIN S \ DOMAIN D : x.dialect = "sqlite"
    BY <1>4, <1>6, <1>11 DEF ConstraintsSettled, D, d
  <2>2. DOMAIN st.constraints = {}
    <3> SUFFICES ASSUME NEW k \in DOMAIN st.constraints
                 PROVE  FALSE
      OBVIOUS
    <3>1. \/ k \in DOMAIN D /\ ~Same(S, D, k)
          \/ x.dialect # "sqlite" /\ k \in DOMAIN S /\ ~Same(S, D, k)
      BY <1>2 DEF ConstraintsAltered, D, S, shown
    <3> QED
      BY <2>1, <3>1
  <2>3. PICK c : c \in DOMAIN st.columns
    BY <1>7, <1>8, <2>2
  <2> QED
    BY <1>10, <1>11, <2>2, <2>3
<1>12. ASSUME NEW k \in DOMAIN st.constraints
       PROVE  ~st.constraints[k].drop
  <2>1. CASE x.source = "json"
    <3>1. Dropped(st) = {}
      BY <1>2, <1>6, <2>1 DEF ConstraintsAltered, S, shown
    <3> QED
      BY <1>2, <3>1 DEF ConstraintsAltered
  <2> QED
    BY <1>6, <1>11, <2>1
<1>13. SetsAgain(st)
  BY <1>1, <1>3, <1>6, <1>10, <1>11, <1>12 DEF SetsAgain
<1> QED
  BY <1>13 DEF st, x

LEMMA StatementsAre ==
  ASSUME TypedCatalog(db), NEW st
  PROVE  st \in Statements <=> Planned(db, Input, st)
<1> DEFINE x == Input
<1>1. Statements = StatementsForDialect(PlanOperations(DiffSchema(LoadedFrom(db, x), x.desired)), x.dialect)
  BY InputIs DEF Statements, Operations
<1> HIDE DEF x
<1>2. st \in StatementsForDialect(PlanOperations(DiffSchema(LoadedFrom(db, x), x.desired)), x.dialect)
        <=> Planned(db, x, st)
  BY PlanIs
<1> QED
  BY <1>1, <1>2 DEF x

LEMMA RerunFromInvariant ==
  IInv => RerunPlansTheRest
<1> DEFINE x == Input
<1> SUFFICES ASSUME IInv, phase = "applying"
             PROVE  /\ \A st \in Statements :
                         \/ st \in pending
                         \/ SetsAgain(st)
                         \/ st.op = "CreateIndex" /\ <<st.table, st.name>> \in Dangling
                         \/ st.op = "AlterTable" /\ st.table \in Misdeclared
                    /\ \A st \in pending \ Statements :
                         st.op = "DropIndex" /\ <<st.table, st.name>> \notin DOMAIN db.indices
  BY DEF RerunPlansTheRest
<1>1. TypedInput(x) /\ TypedCatalog(db) /\ Consistent(db, x, pending, warned)
  BY DEF IInv, DatabaseOK
<1>2. x.desired = Desired /\ Dangling = {k \in DOMAIN Desired.indices : Dangles(x, k)}
  BY InputIs
<1>3. /\ StillPlanned(db, x, pending, warned)
      /\ IndexesPending(db, x, pending)
      /\ TablesSettled(db, x, pending, warned)
  BY <1>1 DEF Consistent
<1>4. \A st : st \in Statements <=> Planned(db, x, st)
  BY <1>1, StatementsAre
<1> HIDE DEF x
<1>5. ASSUME NEW st, Planned(db, x, st)
      PROVE  \/ st \in pending
             \/ SetsAgain(st)
             \/ st.op = "CreateIndex" /\ <<st.table, st.name>> \in Dangling
             \/ st.op = "AlterTable" /\ st.table \in Misdeclared
  <2> DEFINE n == st.table
  <2>1. CASE OnTable(st) /\ PendingOn(pending, n)
    <3>1. PICK a \in pending : OnTable(a) /\ a.table = n
      BY <2>1 DEF PendingOn
    <3>2. Planned(db, x, a)
      BY <1>3, <3>1 DEF StillPlanned, GoneIndex, OnTable
    <3>3. OneEach({a, st})
      BY <1>1, <1>5, <3>2, PlanOneEach
    <3>4. a = st
      BY <2>1, <3>1, <3>3 DEF OneEach
    <3> QED
      BY <3>1, <3>4
  <2>2. CASE OnTable(st) /\ ~PendingOn(pending, n)
    <3>1. n \in DOMAIN db.tables \cup DOMAIN x.desired.tables
      BY <1>1, <1>5, <2>2, PlannedCases DEF OnTable
    <3>2. /\ n \in DOMAIN db.tables \cap DOMAIN x.desired.tables
          /\ TableSettled(db.tables[n], n, x, warned)
      BY <1>3, <2>2, <3>1 DEF TablesSettled
    <3>3. /\ st.op = "AlterTable"
          /\ Needs(db.tables[n], n, x)
          /\ st = ToAlter(db.tables[n], n, x)
      BY <1>1, <1>5, <2>2, <3>2, PlannedCases DEF OnTable
    <3>4. CASE Malformed(Desired.tables[n])
      BY <1>2, <3>2, <3>3, <3>4 DEF Misdeclared
    <3>5. CASE ~Malformed(Desired.tables[n])
      <4> DEFINE t == db.tables[n]
      <4>1. TypedTable(t) /\ n \in DOMAIN Desired.tables
        BY <1>1, <1>2, <3>2 DEF TypedCatalog
      <4> HIDE DEF n, t
      <4>2. SetsAgain(ToAlter(t, n, Input))
        BY <1>1, <3>2, <3>3, <3>5, <4>1, SettledSetsAgain DEF x, t
      <4> QED
        BY <3>3, <4>2 DEF x, t
    <3> QED
      BY <3>4, <3>5
  <2>3. CASE st.op = "CreateIndex"
    <3>1. /\ KeyOf(st) \in DOMAIN x.desired.indices
          /\ ~Same(db.indices, x.desired.indices, KeyOf(st))
          /\ st = CreateIndex(KeyOf(st), x.desired.indices[KeyOf(st)])
      BY <1>1, <1>5, <2>3, PlannedCases
    <3>2. Dangles(x, KeyOf(st)) \/ st \in pending
      BY <1>3, <3>1 DEF IndexesPending
    <3> QED
      BY <1>2, <2>3, <3>1, <3>2 DEF KeyOf
  <2>4. CASE st.op = "DropIndex"
    <3>1. KeyOf(st) \in DOMAIN db.indices \ DOMAIN x.desired.indices /\ st = DropIndex(KeyOf(st))
      BY <1>1, <1>5, <2>4, PlannedCases
    <3> QED
      BY <1>3, <3>1 DEF IndexesPending
  <2> QED
    BY <1>1, <1>5, <2>1, <2>2, <2>3, <2>4, PlannedCases DEF OnTable
<1>6. ASSUME NEW st \in pending \ Statements
      PROVE  st.op = "DropIndex" /\ <<st.table, st.name>> \notin DOMAIN db.indices
  BY <1>3, <1>4 DEF StillPlanned, GoneIndex
<1> QED
  BY <1>4, <1>5, <1>6

(* Wherever applying stops, running the program again plans what was left  *)
(* and nothing that was done, with the exceptions that the property names. *)
THEOREM RerunIsCorrect ==
  Spec => []RerunPlansTheRest
BY PlanStaysConsistent, RerunFromInvariant, PTL

(* The constraints that have become what was asked for.                    *)
LEMMA SettledConstraints ==
  ASSUME NEW t, TypedTable(t), NEW d, TypedTable(d), NEW x, x.source \in Sources, NEW w,
         NEW n, d = x.desired.tables[n], ConstraintsSettled(t, n, x, w)
  PROVE  /\ \A tc \in Visible(d) : tc \in ConstraintsOf(t)
         /\ x.source = "library" =>
              \A tc \in Visible(t) : tc \in Visible(d) \/ <<"drop constraint", n, ConstraintName(tc)>> \in w
<1>1. \A u : Visible(u) = {ByName(u)[k] : k \in DOMAIN ByName(u)}
  BY DEF Visible, ByName
<1>2. IsList(t.constraints) /\ IsList(d.constraints)
  BY DEF TypedTable
<1>3. ASSUME NEW k \in DOMAIN ByName(d)
      PROVE  ByName(d)[k] \in ConstraintsOf(t)
  <2>1. CASE x.source = "json"
    BY <2>1 DEF ConstraintsSettled
  <2>2. CASE x.source = "library"
    <3>1. k \in DOMAIN ByName(t) /\ ByName(t)[k] = ByName(d)[k]
      BY <2>2 DEF ConstraintsSettled, Same
    <3> QED
      BY <1>2, <3>1, ByNameMember DEF ConstraintsOf
  <2> QED
    BY <2>1, <2>2 DEF Sources
<1>4. ASSUME x.source = "library", NEW k \in DOMAIN ByName(t)
      PROVE  ByName(t)[k] \in Visible(d) \/ <<"drop constraint", n, ConstraintName(ByName(t)[k])>> \in w
  <2>1. ConstraintName(ByName(t)[k]) = k
    BY <1>2, ByNameMember
  <2>2. CASE k \in DOMAIN ByName(d)
    <3>1. ByName(t)[k] = ByName(d)[k]
      BY <1>4, <2>2 DEF ConstraintsSettled, Same
    <3> QED
      BY <1>1, <2>2, <3>1
  <2>3. CASE k \notin DOMAIN ByName(d)
    BY <1>4, <2>1, <2>3 DEF ConstraintsSettled
  <2> QED
    BY <2>2, <2>3
<1> QED
  BY <1>1, <1>3, <1>4

LEMMA DoneFromInvariant ==
  IInv => NothingComparedDiffers
<1> DEFINE x == Input
           X == db.indices
           Y == Desired.indices
<1> SUFFICES ASSUME IInv, phase = "done"
             PROVE  /\ DOMAIN db.tables = DOMAIN Desired.tables
                    /\ Without(X, Dangling) = Without(Y, Dangling)
                    /\ \A n \in DOMAIN db.tables :
                         /\ DOMAIN db.tables[n].columns = DOMAIN Desired.tables[n].columns
                         /\ \A c \in DOMAIN db.tables[n].columns : ColumnAgrees(n, c)
                         /\ n \notin Misdeclared =>
                              /\ \A tc \in Visible(Desired.tables[n]) : tc \in ConstraintsOf(db.tables[n])
                              /\ source = "library" =>
                                   \A tc \in Visible(db.tables[n]) :
                                     \/ tc \in Visible(Desired.tables[n])
                                     \/ <<"drop constraint", n, ConstraintName(tc)>> \in warned
  BY DEF NothingComparedDiffers
<1>1. /\ TypedInput(x) /\ TypedCatalog(db) /\ Consistent(db, x, {}, warned)
  BY DEF IInv, DatabaseOK
<1>2. /\ x.desired = Desired /\ x.source = source /\ x.dialect = dialect
      /\ Dangling = {k \in DOMAIN Y : Dangles(x, k)}
  BY InputIs
<1>3. IndexesPending(db, x, {}) /\ TablesSettled(db, x, {}, warned)
  BY <1>1 DEF Consistent
<1>4. \A n : ~PendingOn({}, n)
  BY DEF PendingOn
<1>5. \A n \in DOMAIN db.tables \cup DOMAIN Desired.tables :
        n \in DOMAIN db.tables \cap DOMAIN Desired.tables /\ TableSettled(db.tables[n], n, x, warned)
  BY <1>2, <1>3, <1>4 DEF TablesSettled
<1> HIDE DEF x
<1>6. DOMAIN db.tables = DOMAIN Desired.tables
  BY <1>5
<1>7. Without(X, Dangling) = Without(Y, Dangling)
  <2>1. DOMAIN X \subseteq DOMAIN Y
    BY <1>2, <1>3 DEF IndexesPending
  <2>2. \A k \in DOMAIN Y \ Dangling : k \in DOMAIN X /\ X[k] = Y[k]
    BY <1>2, <1>3 DEF IndexesPending, Same
  <2>3. DOMAIN X \ Dangling = DOMAIN Y \ Dangling
    BY <2>1, <2>2
  <2> HIDE DEF X, Y
  <2> QED
    BY <2>2, <2>3 DEF Without
<1>8. ASSUME NEW n \in DOMAIN db.tables
      PROVE  /\ DOMAIN db.tables[n].columns = DOMAIN Desired.tables[n].columns
             /\ \A c \in DOMAIN db.tables[n].columns : ColumnAgrees(n, c)
             /\ n \notin Misdeclared => ConstraintsSettled(db.tables[n], n, x, warned)
  <2> DEFINE t == db.tables[n]
             d == Desired.tables[n]
  <2>1. n \in DOMAIN Desired.tables /\ TableSettled(t, n, x, warned)
    BY <1>5
  <2>2. /\ ColumnsSettled(t, n, x, warned)
        /\ n \notin Misdeclared => ConstraintsSettled(t, n, x, warned)
    BY <1>2, <2>1 DEF TableSettled, Misdeclared
  <2> HIDE DEF t, d
  <2>3. DOMAIN t.columns = DOMAIN d.columns
    BY <1>2, <2>2 DEF ColumnsSettled, d
  <2>4. ASSUME NEW c \in DOMAIN t.columns
        PROVE  ColumnAgrees(n, c)
    <3>1. ColumnSettled(t.columns[c], d.columns[c], x) \/ <<"alter column", n, c>> \in warned
      BY <1>2, <2>2 DEF ColumnsSettled, d
    <3> QED
      BY <1>2, <3>1 DEF ColumnAgrees, ColumnSettled, t, d
  <2> QED
    BY <2>2, <2>3, <2>4 DEF t, d
<1>9. ASSUME NEW n \in DOMAIN db.tables, n \notin Misdeclared
      PROVE  /\ \A tc \in Visible(Desired.tables[n]) : tc \in ConstraintsOf(db.tables[n])
             /\ source = "library" =>
                  \A tc \in Visible(db.tables[n]) :
                    tc \in Visible(Desired.tables[n]) \/ <<"drop constraint", n, ConstraintName(tc)>> \in warned
  <2> DEFINE t == db.tables[n]
             d == Desired.tables[n]
  <2>1. TypedTable(t) /\ TypedTable(d) /\ x.source \in Sources /\ d = x.desired.tables[n]
    BY <1>1, <1>2, <1>6 DEF TypedCatalog, TypedInput, DefinedTable
  <2>2. ConstraintsSettled(t, n, x, warned)
    BY <1>8, <1>9
  <2> HIDE DEF t, d
  <2>3. /\ \A tc \in Visible(d) : tc \in ConstraintsOf(t)
        /\ x.source = "library" =>
             \A tc \in Visible(t) : tc \in Visible(d) \/ <<"drop constraint", n, ConstraintName(tc)>> \in warned
    BY <2>1, <2>2, SettledConstraints
  <2> QED
    BY <1>2, <2>3 DEF t, d
<1> QED
  BY <1>6, <1>7, <1>8, <1>9

(* When every statement has been applied, nothing that the program         *)
(* compares differs from the DDL, with the exceptions that the property    *)
(* names; identity, column constraints and tables that do not convert are  *)
(* not compared.                                                           *)
THEOREM NothingComparedIsLeft ==
  Spec => []NothingComparedDiffers
BY PlanStaysConsistent, DoneFromInvariant, PTL

-----------------------------------------------------------------------------
(* What the database rejects.                                              *)

(* A well declared table has one primary key, and one constraint of a      *)
(* name: what clashes is the same.                                         *)
LEMMA NoClash ==
  ASSUME NEW t, IsList(t.constraints), ~Malformed(t),
         NEW k \in DOMAIN ByName(t), NEW k2 \in DOMAIN ByName(t), k # k2
  PROVE  ~Clash(ByName(t)[k], ByName(t)[k2])
<1>1. PICK i \in DOMAIN t.constraints :
        ConstraintName(t.constraints[i]) = k /\ ByName(t)[k] = t.constraints[i]
  BY ByNameMember
<1>2. PICK j \in DOMAIN t.constraints :
        ConstraintName(t.constraints[j]) = k2 /\ ByName(t)[k2] = t.constraints[j]
  BY ByNameMember
<1> QED
  BY <1>1, <1>2 DEF Malformed

(* The primary key of a table is the only one of its name.                 *)
LEMMA PrimaryKeyByName ==
  ASSUME NEW t, TypedTable(t), ~Malformed(t), NEW i \in DOMAIN t.constraints, t.constraints[i].kind = "pk",
         NEW k, k = ConstraintName(t.constraints[i])
  PROVE  k \in DOMAIN ByName(t) /\ ByName(t)[k].kind = "pk"
<1> DEFINE tc == t.constraints[i]
<1>1. IsList(t.constraints)
  BY DEF TypedTable
<1>2. k \in DOMAIN ByName(t)
  BY ByNameDomain DEF ByName
<1>3. PICK j \in DOMAIN t.constraints :
        ConstraintName(t.constraints[j]) = k /\ ByName(t)[k] = t.constraints[j]
  BY <1>1, <1>2, ByNameMember
<1> DEFINE other == t.constraints[j]
<1>4. tc \in TableConstraints /\ other \in TableConstraints
  BY DEF TypedTable
<1>5. CASE tc.name # 0
  <2>1. tc.name \in Nat
    BY <1>4 DEF TableConstraints
  <2>2. ConstraintName(tc) = Declared(tc.name)
    BY <1>5 DEF ConstraintName
  <2>3. other.name = tc.name
    BY <1>3, <1>4, <2>1, <2>2, DeclaredName
  <2>4. i = j
    BY <1>5, <2>3 DEF Malformed, Clash
  <2> QED
    BY <1>2, <1>3, <2>4
<1>6. CASE tc.name = 0
  <2>1. k = <<"pk", tc.columns>>
    BY <1>6 DEF ConstraintName
  <2>2. k # Declared(other.name)
    BY <2>1 DEF Declared
  <2>3. ConstraintName(other) = <<other.kind, other.columns>>
    BY <1>3, <2>2 DEF ConstraintName
  <2> HIDE DEF tc, other
  <2>4. other.kind = "pk"
    BY <1>3, <2>1, <2>3 DEF other
  <2> QED
    BY <1>2, <1>3, <2>4 DEF other
<1> QED
  BY <1>5, <1>6

(* What an ALTER TABLE adds goes with what the table keeps, when the       *)
(* program sees the constraints and drops those that differ by their       *)
(* declared names.                                                         *)
LEMMA AddedGoesWithKept ==
  ASSUME NEW t, TypedTable(t), ~Malformed(t), NEW d, TypedTable(d), ~Malformed(d),
         NEW dropped, dropped = {k \in DOMAIN ByName(t) : ~Same(ByName(t), ByName(d), k)},
         \A k \in dropped : k[1] = "declared",
         NEW k \in DOMAIN ByName(d), ~Same(ByName(t), ByName(d), k), NEW tc, tc = ByName(d)[k],
         NEW i \in DOMAIN t.constraints, NEW other, other = t.constraints[i],
         ~(other.name # 0 /\ Declared(other.name) \in dropped)
  PROVE  ~Clash(tc, other)
<1>1. IsList(t.constraints) /\ IsList(d.constraints)
  BY DEF TypedTable
<1>2. ConstraintName(tc) = k /\ tc \in TableConstraints
  BY <1>1, ByNameMember DEF TypedTable
<1>3. other \in TableConstraints
  BY DEF TypedTable
<1>4. ConstraintName(other) \in DOMAIN ByName(t)
  BY ByNameDomain DEF ByName
<1>5. ~(tc.name # 0 /\ tc.name = other.name)
  <2> SUFFICES ASSUME tc.name # 0, tc.name = other.name
               PROVE  FALSE
    OBVIOUS
  <2>1. ConstraintName(other) = k /\ k = Declared(other.name)
    BY <1>2 DEF ConstraintName
  <2> QED
    BY <1>4, <2>1
<1>6. ASSUME tc.kind = "pk", other.kind = "pk"
      PROVE  FALSE
  <2> DEFINE k2 == ConstraintName(other)
  <2>1. ByName(t)[k2].kind = "pk"
    BY <1>6, PrimaryKeyByName
  <2>2. k2 \notin dropped
    <3> SUFFICES ASSUME k2 \in dropped
                 PROVE  FALSE
      OBVIOUS
    <3>1. k2[1] = "declared"
      OBVIOUS
    <3>2. CASE other.name = 0
      <4>1. k2 = <<other.kind, other.columns>>
        BY <3>2 DEF ConstraintName
      <4> HIDE DEF k2
      <4> QED
        BY <1>6, <3>1, <4>1
    <3>3. CASE other.name # 0
      BY <3>3 DEF ConstraintName
    <3> QED
      BY <3>2, <3>3
  <2>3. k2 \in DOMAIN ByName(d) /\ ByName(d)[k2] = ByName(t)[k2] /\ k2 # k
    BY <1>4, <2>2 DEF Same
  <2> HIDE DEF k2
  <2>4. Clash(ByName(d)[k], ByName(d)[k2])
    BY <1>6, <2>1, <2>3 DEF Clash
  <2> QED
    BY <1>1, <2>3, <2>4, NoClash
<1> QED
  BY <1>5, <1>6 DEF Clash

(* A constraint that an ALTER TABLE drops by a declared name is there.     *)
LEMMA DroppedIsThere ==
  ASSUME NEW t, TypedTable(t), NEW k \in DOMAIN ByName(t), k[1] = "declared"
  PROVE  \E tc \in ConstraintsOf(t) : tc.name # 0 /\ k = Declared(tc.name) /\ ConstraintName(tc) = k
<1>1. PICK i \in DOMAIN t.constraints : ConstraintName(t.constraints[i]) = k
  BY ByNameDomain DEF ByName
<1> DEFINE tc == t.constraints[i]
<1>2. tc \in TableConstraints /\ tc \in ConstraintsOf(t)
  BY DEF TypedTable, ConstraintsOf
<1>3. tc.name # 0
  <2> SUFFICES ASSUME tc.name = 0
               PROVE  FALSE
    OBVIOUS
  <2>1. k = <<tc.kind, tc.columns>>
    BY <1>1 DEF ConstraintName
  <2>2. tc.kind \in {"pk", "uq", "fk", "ck"}
    BY <1>2 DEF TableConstraints
  <2> HIDE DEF tc
  <2> QED
    BY <2>1, <2>2
<1>4. k = Declared(tc.name)
  BY <1>1, <1>3 DEF ConstraintName
<1> QED
  BY <1>1, <1>2, <1>3, <1>4

(* An ALTER TABLE that gives none of the property's reasons is taken.      *)
LEMMA AlterationTaken ==
  ASSUME TypedInput(Input), NEW n \in DOMAIN Desired.tables, n \in Nat, ~Malformed(Desired.tables[n]),
         NEW t, TypedTable(t), ~Malformed(t),
         NEW st, st = ToAlter(t, n, Input), st.table = n, NEW w, LeftOutAnnounced(t, n, Input, w),
         \A m \in DOMAIN Desired.tables : m < n => m \in DOMAIN db.tables,
         \A k \in Dropped(st) : /\ k[1] = "declared"
                                /\ \A tc \in ConstraintsOf(t) :
                                     ConstraintName(tc) = k => ~Uses(tc, Acting(st, "DropColumn")),
         source = "json" => \A tc \in Added(st), other \in ConstraintsOf(t) : ~Clash(tc, other),
         ~RefersAhead(Added(st), n),
         dialect = "mysql" => \A c \in Acting(st, "AlterColumn") : st.columns[c].type # <<>>,
         dialect = "sqlite" => /\ IndexesUsing(n, Acting(st, "DropColumn")) = {}
                               /\ \A tc \in ConstraintsOf(t) : ~Uses(tc, Acting(st, "DropColumn"))
  PROVE  ~CannotAlter(t, st)
<1> DEFINE x == Input
           d == x.desired.tables[n]
           S == ByName(Shown(t, x))
           B == ByName(t)
           D == ByName(d)
<1>1. /\ x.desired = Desired /\ x.source = source /\ x.dialect = dialect
      /\ x.source \in Sources
      /\ DefinedTable(d) /\ TypedTable(d) /\ ~Malformed(d)
  BY InputIs DEF TypedInput, DefinedTable
<1>2. ColumnsAltered(st, t, d, x) /\ ConstraintsAltered(st, t, d, x)
  BY <1>1, ToAlterColumns, ToAlterConstraints
<1>3. IsList(t.constraints) /\ IsList(d.constraints)
  BY <1>1 DEF TypedTable
<1>4. LeftOutAnnounced(t, n, x, w)
  OBVIOUS
<1> HIDE DEF x, d
<1>5. /\ Acting(st, "AddColumn") \cap DOMAIN t.columns = {}
      /\ (Acting(st, "DropColumn") \cup Acting(st, "AlterColumn")) \subseteq DOMAIN t.columns
  BY <1>2 DEF ColumnsAltered, ChangedColumns
<1>6. DOMAIN ColumnsAfter(t, st) = DOMAIN d.columns
  <2>1. DOMAIN ColumnsAfter(t, st) = (DOMAIN t.columns \cup Acting(st, "AddColumn")) \ Acting(st, "DropColumn")
    BY DEF ColumnsAfter
  <2> QED
    BY <1>2, <2>1 DEF ColumnsAltered
<1>7. /\ x.source = "library" => S = B
      /\ x.source = "json" => DOMAIN S = {}
  BY <1>1, ShownByName
<1>8. ASSUME NEW k \in Dropped(st)
      PROVE  \E tc \in ConstraintsOf(t) :
               tc.name # 0 /\ k = Declared(tc.name) /\ ~Uses(tc, Acting(st, "DropColumn"))
  <2>1. k \in DOMAIN S
    BY <1>2, <1>8 DEF ConstraintsAltered
  <2>2. k \in DOMAIN B
    BY <1>1, <1>7, <2>1 DEF Sources
  <2> QED
    BY <1>8, <2>2, DroppedIsThere
<1>9. ASSUME NEW tc \in Added(st)
      PROVE  /\ \E k \in DOMAIN D : ~Same(S, D, k) /\ tc = D[k]
             /\ tc \in TableConstraints
             /\ x.dialect # "sqlite"
  <2>1. PICK k \in DOMAIN D : ~Same(S, D, k) /\ tc = D[k]
    BY <1>2, <1>9 DEF ConstraintsAltered
  <2>2. x.dialect # "sqlite"
    BY <1>4, <2>1 DEF LeftOutAnnounced, d
  <2>3. tc \in TableConstraints
    BY <1>1, <1>3, <2>1, ByNameMember DEF TypedTable
  <2> QED
    BY <2>1, <2>2, <2>3
<1>10. ASSUME NEW tc \in Added(st)
       PROVE  /\ \A other \in Range(Kept(t, st)) \cup (Added(st) \ {tc}) : ~Clash(tc, other)
              /\ Range(tc.columns) \subseteq DOMAIN ColumnsAfter(t, st)
  <2>1. PICK k \in DOMAIN D : ~Same(S, D, k) /\ tc = D[k]
    BY <1>9
  <2>2. Range(tc.columns) \subseteq DOMAIN d.columns
    BY <1>1, <1>3, <2>1, ByNameMember DEF Malformed
  <2>3. ASSUME NEW other \in Range(Kept(t, st))
        PROVE  ~Clash(tc, other)
    <3>1. PICK i \in DOMAIN Kept(t, st) : other = Kept(t, st)[i]
      BY DEF Range
    <3>2. /\ i \in DOMAIN t.constraints /\ other = t.constraints[i]
          /\ ~(other.name # 0 /\ Declared(other.name) \in Dropped(st))
      BY <1>3, <3>1, KeptIs DEF Stays
    <3>3. CASE x.source = "json"
      BY <1>1, <3>2, <3>3 DEF ConstraintsOf
    <3>4. CASE x.source = "library"
      <4>1. x.dialect # "sqlite" /\ S = B
        BY <1>7, <1>9, <3>4
      <4>2. Dropped(st) = {key \in DOMAIN B : ~Same(B, D, key)}
        BY <1>2, <4>1 DEF ConstraintsAltered
      <4>3. \A key \in Dropped(st) : key[1] = "declared"
        OBVIOUS
      <4> HIDE DEF D, B
      <4> QED
        BY <1>1, <2>1, <3>2, <4>1, <4>2, <4>3, AddedGoesWithKept DEF D, B
    <3> QED
      BY <1>1, <3>3, <3>4 DEF Sources
  <2>4. ASSUME NEW other \in Added(st) \ {tc}
        PROVE  ~Clash(tc, other)
    <3>1. PICK k2 \in DOMAIN D : other = D[k2]
      BY <1>9
    <3> QED
      BY <1>1, <1>3, <2>1, <3>1, NoClash
  <2> QED
    BY <1>6, <2>2, <2>3, <2>4
<1>11. ~ReferencesMissing(Added(st), n)
  <2> SUFFICES ASSUME NEW tc \in Added(st), tc.ref # 0, tc.ref \notin DOMAIN db.tables \cup {n}
               PROVE  FALSE
    BY DEF ReferencesMissing
  <2>1. tc.kind = "fk" /\ tc.ref \in Nat
    BY <1>9 DEF TableConstraints
  <2>2. ~(tc.ref > n) /\ tc.ref \in DOMAIN Desired.tables
    BY <2>1 DEF RefersAhead
  <2> QED
    BY <2>1, <2>2
<1> QED
  BY <1>1, <1>5, <1>8, <1>10, <1>11 DEF CannotAlter

(* Tables that come before the first statement are as they will be.        *)
LEMMA EarlierSettled ==
  ASSUME IInv, phase = "applying", pending # {}, OnTable(First),
         NEW m \in DOMAIN db.tables \cup DOMAIN Desired.tables, m < First.table
  PROVE  m \in DOMAIN db.tables \cap DOMAIN Desired.tables /\ TableSettled(db.tables[m], m, Input, warned)
<1>1. TypedInput(Input) /\ TypedCatalog(db) /\ Consistent(db, Input, pending, warned)
  BY DEF IInv, DatabaseOK
<1>2. Input.desired = Desired
  BY InputIs
<1>3. \A st \in pending : Named(st)
  BY <1>1, PlannedNamed DEF Consistent, StillPlanned
<1>4. First \in pending /\ \A other \in pending \ {First} : Before(First, other)
  BY FirstPlanned
<1>5. m \in Nat /\ First.table \in Nat
  <2>1. First.table \in Nat
    BY <1>3, <1>4 DEF Named
  <2> QED
    BY <1>1, <1>2, <2>1 DEF TypedCatalog, TypedInput
<1>6. ~PendingOn(pending, m)
  <2> SUFFICES ASSUME NEW other \in pending, OnTable(other), other.table = m
               PROVE  FALSE
    BY DEF PendingOn
  <2>1. other # First
    BY <1>5
  <2>2. Before(First, other)
    BY <1>4, <2>1
  <2> QED
    BY <1>5, <2>2 DEF Before, OnIndex
<1> QED
  BY <1>1, <1>2, <1>6 DEF Consistent, TablesSettled

(* A table before the first statement does not refer to one that the DDL   *)
(* does not have, but for the reasons of the property.                     *)
LEMMA EarlierRefers ==
  ASSUME IInv, phase = "applying", pending # {}, OnTable(First), dialect # "sqlite",
         NEW m \in DOMAIN db.tables \ {First.table}, Refers(db.tables[m], First.table)
  PROVE  StillRefers(m, First.table)
<1> DEFINE n == First.table
           t == db.tables[m]
           d == Desired.tables[m]
<1>1. TypedInput(Input) /\ TypedCatalog(db) /\ Input.desired = Desired /\ Input.source = source /\ Input.dialect = dialect
  BY InputIs DEF IInv, DatabaseOK
<1>2. PICK tc \in ConstraintsOf(t) : tc.ref = n
  BY DEF Refers
<1>3. m \in Nat /\ n \in Nat
  <2>1. tc.ref \in Nat
    BY <1>1, <1>2 DEF TypedCatalog, TypedTable, TableConstraints, ConstraintsOf
  <2> QED
    BY <1>1, <1>2, <2>1 DEF TypedCatalog
<1>4. CASE m > n
  BY <1>2, <1>4 DEF StillRefers
<1>5. CASE m < n /\ source # "json" /\ m \notin Misdeclared
  <2>1. m \in DOMAIN Desired.tables /\ TableSettled(t, m, Input, warned)
    BY <1>5, EarlierSettled
  <2>2. ~Malformed(d) /\ source = "library"
    BY <1>1, <1>5, <2>1 DEF Misdeclared, TypedInput, Sources
  <2>3. /\ \A k \in DOMAIN ByName(d) : Same(ByName(t), ByName(d), k)
        /\ DOMAIN ByName(t) \subseteq DOMAIN ByName(d)
    <3>1. ConstraintsSettled(t, m, Input, warned)
      BY <1>1, <2>1, <2>2 DEF TableSettled
    <3>2. d = Input.desired.tables[m] /\ Input.source = "library" /\ Input.dialect # "sqlite"
      BY <1>1, <2>2
    <3> HIDE DEF t, d
    <3> QED
      BY <3>1, <3>2 DEF ConstraintsSettled
  <2>4. \A u : Visible(u) = {ByName(u)[k] : k \in DOMAIN ByName(u)}
    BY DEF Visible, ByName
  <2>5. Visible(t) \subseteq Visible(d)
    BY <2>3, <2>4 DEF Same
  <2> QED
    BY <1>2, <2>5 DEF StillRefers
<1>6. CASE source = "json" \/ m \in Misdeclared
  BY <1>2, <1>6 DEF StillRefers
<1> QED
  BY <1>3, <1>4, <1>5, <1>6

LEMMA RejectionsFromInvariant ==
  IInv => RejectionsAreForeseen
<1> DEFINE x == Input
           st == First
           n == st.table
<1> SUFFICES ASSUME IInv, phase = "applying", pending # {}, ~Takes(First), ~ChangesIndex(First)
             PROVE  RejectionsAreForeseen
  BY DEF RejectionsAreForeseen
<1>1. TypedInput(x) /\ TypedCatalog(db) /\ Consistent(db, x, pending, warned)
  BY DEF IInv, DatabaseOK
<1>2. /\ x.desired = Desired /\ x.source = source /\ x.dialect = dialect
      /\ Dangling = {k \in DOMAIN Desired.indices : Dangles(x, k)}
  BY InputIs
<1>3. /\ st \in pending
      /\ \A other \in pending \ {st} : Before(st, other)
      /\ Planned(db, x, st) \/ GoneIndex(db, warned, st)
  BY FirstPlanned
<1>4. CannotApply(st)
  BY DEF Takes
<1> HIDE DEF x
<1>5. CASE GoneIndex(db, warned, st)
  BY <1>5 DEF RejectionsAreForeseen, GoneIndex
<1>6. CASE Planned(db, x, st) /\ st.op = "CreateTable"
  <2> DEFINE d == x.desired.tables[n]
  <2>1. n \in DOMAIN x.desired.tables \ DOMAIN db.tables /\ st = CreateTable(n, d)
    BY <1>1, <1>6, PlannedCases
  <2>2. DOMAIN st.columns = DOMAIN d.columns /\ st.constraints = d.constraints
    BY <2>1, CreateTableIs
  <2>3. CASE Malformed(st)
    <3>1. Malformed(d)
      BY <2>2, <2>3 DEF Malformed
    <3> QED
      BY <1>2, <1>6, <2>1, <3>1 DEF RejectionsAreForeseen, Misdeclared
  <2>4. CASE ReferencesMissing(ConstraintsOf(st), n)
    <3>1. PICK tc \in ConstraintsOf(st) : tc.ref # 0 /\ tc.ref \notin DOMAIN db.tables \cup {n}
      BY <2>4 DEF ReferencesMissing
    <3>2. tc \in TableConstraints
      <4>1. TypedTable(d)
        BY <1>1, <2>1 DEF TypedInput, DefinedTable
      <4>2. tc \in ConstraintsOf(d)
        BY <2>2 DEF ConstraintsOf
      <4> QED
        BY <4>1, <4>2 DEF ConstraintsOf, TypedTable
    <3>3. tc.kind = "fk" /\ tc.ref \in Nat /\ n \in Nat
      BY <1>1, <2>1, <3>1, <3>2 DEF TableConstraints, TypedInput
    <3>4. tc.ref > n \/ tc.ref \notin DOMAIN Desired.tables
      BY <1>6, <3>1, <3>3, EarlierSettled DEF OnTable
    <3>5. RefersAhead(ConstraintsOf(st), n)
      BY <3>1, <3>3, <3>4 DEF RefersAhead
    <3> QED
      BY <1>6, <3>5 DEF RejectionsAreForeseen
  <2> QED
    BY <1>4, <1>6, <2>1, <2>3, <2>4 DEF CannotApply
<1>7. CASE Planned(db, x, st) /\ st.op = "DropTable"
  <2>1. n \in DOMAIN db.tables
    BY <1>1, <1>7, PlannedCases
  <2>2. PICK m \in DOMAIN db.tables \ {n} : dialect # "sqlite" /\ Refers(db.tables[m], n)
    BY <1>4, <1>7, <2>1 DEF CannotApply
  <2>3. StillRefers(m, n)
    BY <1>7, <2>2, EarlierRefers DEF OnTable
  <2> QED
    BY <1>7, <2>3 DEF RejectionsAreForeseen
<1>8. CASE Planned(db, x, st) /\ st.op = "AlterTable"
  <2> DEFINE t == db.tables[n]
  <2>1. /\ n \in DOMAIN db.tables \cap DOMAIN x.desired.tables
        /\ st = ToAlter(t, n, x)
        /\ TypedTable(t) /\ ~Malformed(t)
        /\ LeftOutAnnounced(t, n, x, warned)
    BY <1>8, FirstAlters DEF x
  <2>2. CannotAlter(t, st)
    BY <1>4, <1>8, <2>1 DEF CannotApply
  <2> DEFINE inUse == \/ IndexesUsing(n, Acting(st, "DropColumn")) # {}
                      \/ \E tc \in ConstraintsOf(t) : Uses(tc, Acting(st, "DropColumn"))
  <2>3. \/ n \in Misdeclared
        \/ DropsByNoName(st)
        \/ source = "json" /\ \E tc \in Added(st), other \in ConstraintsOf(t) : Clash(tc, other)
        \/ RefersAhead(Added(st), n)
        \/ dialect = "mysql" /\ \E c \in Acting(st, "AlterColumn") : st.columns[c].type = <<>>
        \/ dialect = "sqlite" /\ inUse
    <3> SUFFICES ASSUME n \notin Misdeclared,
                        ~DropsByNoName(st),
                        source = "json" => \A tc \in Added(st), other \in ConstraintsOf(t) : ~Clash(tc, other),
                        ~RefersAhead(Added(st), n),
                        dialect = "mysql" => \A c \in Acting(st, "AlterColumn") : st.columns[c].type # <<>>,
                        dialect = "sqlite" => ~inUse
                 PROVE  FALSE
      OBVIOUS
    <3>1. n \in DOMAIN Desired.tables /\ ~Malformed(Desired.tables[n])
      BY <1>2, <2>1 DEF Misdeclared
    <3>2. \A k \in Dropped(st) :
            /\ k[1] = "declared"
            /\ \A tc \in ConstraintsOf(t) : ConstraintName(tc) = k => ~Uses(tc, Acting(st, "DropColumn"))
      BY DEF DropsByNoName
    <3>3. \A m \in DOMAIN Desired.tables : m < n => m \in DOMAIN db.tables
      BY <1>8, EarlierSettled DEF OnTable
    <3>4. n \in Nat
      BY <1>1, <2>1 DEF TypedCatalog
    <3>5. dialect = "sqlite" => /\ IndexesUsing(n, Acting(st, "DropColumn")) = {}
                                /\ \A tc \in ConstraintsOf(t) : ~Uses(tc, Acting(st, "DropColumn"))
      OBVIOUS
    <3>6. st.table = n
      OBVIOUS
    <3> HIDE DEF n, t, st, inUse
    <3>7. ~CannotAlter(t, st)
      BY <1>1, <2>1, <3>1, <3>2, <3>3, <3>4, <3>5, <3>6, AlterationTaken DEF x
    <3> QED
      BY <2>2, <3>7
  <2> QED
    BY <1>8, <2>3 DEF RejectionsAreForeseen
<1>9. CASE Planned(db, x, st) /\ st.op = "CreateIndex"
  <2> DEFINE k == KeyOf(st)
  <2>1. k \in DOMAIN x.desired.indices /\ st = CreateIndex(k, x.desired.indices[k])
    BY <1>1, <1>9, PlannedCases
  <2>2. st.index = x.desired.indices[k] /\ k = <<n, st.name>> /\ k[1] = n
    BY <2>1, OpsAre DEF KeyOf
  <2>3. CASE \E i \in DOMAIN db.indices : i[2] = st.name /\ (dialect = "mysql" => i[1] = n)
    <3>1. PICK i \in DOMAIN db.indices : i[2] = st.name /\ i # k
      BY <1>9, <2>2, <2>3 DEF ChangesIndex
    <3>2. i \in Nat \X Nat /\ k \in Nat \X Nat
      BY <1>1, <2>1 DEF TypedCatalog, TypedInput
    <3>3. i[1] # n
      BY <2>2, <3>1, <3>2
    <3>4. ASSUME i \notin DOMAIN Desired.indices
          PROVE  i[1] > n
      <4>1. DropIndex(i) \in pending
        BY <1>1, <1>2, <3>4 DEF Consistent, IndexesPending
      <4>2. DropIndex(i).op = "DropIndex" /\ DropIndex(i).table = i[1]
        BY DEF DropIndex
      <4> HIDE DEF n, st
      <4>3. Before(st, DropIndex(i))
        BY <1>3, <1>9, <4>1, <4>2
      <4> QED
        BY <1>9, <2>2, <3>2, <3>3, <4>2, <4>3 DEF Before, OnTable, OnIndex, n
    <3>5. i[1] > n \/ i \in DOMAIN Desired.indices
      BY <3>4
    <3> QED
      BY <1>9, <3>1, <3>3, <3>5 DEF RejectionsAreForeseen
  <2>4. CASE Dangles(x, k)
    <3>1. <<n, st.name>> \in Dangling
      BY <1>2, <2>1, <2>2, <2>4
    <3> QED
      BY <1>9, <3>1 DEF RejectionsAreForeseen
  <2>5. CASE ~Dangles(x, k)
    <3>1. n \in DOMAIN x.desired.tables /\ Range(st.index.columns) \subseteq DOMAIN x.desired.tables[n].columns
      BY <2>2, <2>5 DEF Dangles
    <3>2. ~OnTable(st)
      BY <1>9 DEF OnTable
    <3>3. ~PendingOn(pending, n)
      BY <1>3, <3>2 DEF PendingOn, Before, OnIndex
    <3>4. n \in DOMAIN db.tables /\ TableSettled(db.tables[n], n, x, warned)
      BY <1>1, <3>1, <3>3 DEF Consistent, TablesSettled
    <3>5. DOMAIN db.tables[n].columns = DOMAIN x.desired.tables[n].columns
      BY <3>4 DEF TableSettled, ColumnsSettled
    <3>6. \E i \in DOMAIN db.indices : i[2] = st.name /\ (dialect = "mysql" => i[1] = n)
      BY <1>4, <1>9, <3>1, <3>4, <3>5 DEF CannotApply
    <3> QED
      BY <2>3, <3>6
  <2> QED
    BY <2>4, <2>5
<1>10. CASE Planned(db, x, st) /\ st.op = "DropIndex"
  <2>1. <<n, st.name>> \in DOMAIN db.indices
    BY <1>1, <1>10, PlannedCases DEF KeyOf
  <2> QED
    BY <1>4, <1>10, <2>1 DEF CannotApply
<1> QED
  BY <1>1, <1>3, <1>5, <1>6, <1>7, <1>8, <1>9, <1>10, PlannedCases

(* A database rejects a statement, other than one that changes an index,   *)
(* only for the reasons that the property names, whatever was applied      *)
(* before it.                                                              *)
THEOREM RejectionsForeseen ==
  Spec => []RejectionsAreForeseen
BY PlanStaysConsistent, RejectionsFromInvariant, PTL

=============================================================================
