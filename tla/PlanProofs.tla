----------------------------- MODULE PlanProofs -----------------------------
(***************************************************************************)
(* Lemmas about the operators of SchemaDiff; then what a run of Migration  *)
(* plans, and what one statement of a plan does, as facts about a catalog  *)
(* s and the inputs x of the run: the desired schema, the dialect and the  *)
(* source of the current catalog.                                          *)
(***************************************************************************)
EXTENDS Migration, FiniteSetTheorems, WellFoundedInduction, TLAPS

-----------------------------------------------------------------------------
(* Lists, and the last entry of each key.                                  *)

(* A set of naturals that is not empty has a least element.                *)
LEMMA LeastElement ==
  ASSUME NEW S \in SUBSET Nat, S # {}
  PROVE  \E m \in S : \A k \in S : m <= k
<1>1. PICK m \in S : \A k \in S : ~ (<<k, m>> \in OpToRel(<, Nat))
  BY NatLessThanWellFounded, WFMin
<1>2. \A k \in S : ~ (k < m)
  BY <1>1 DEF OpToRel
<1> QED
  BY <1>2

(* A set of naturals that is bounded and not empty has a greatest element. *)
LEMMA GreatestElement ==
  ASSUME NEW n \in Nat, NEW S \in SUBSET (1 .. n), S # {}
  PROVE  \E i \in S : \A j \in S : j <= i
<1> DEFINE T == {n - i : i \in S}
<1>1. T \subseteq Nat
  OBVIOUS
<1>a. T # {}
  OBVIOUS
<1>2. PICK m \in T : \A k \in T : m <= k
  BY <1>1, <1>a, LeastElement
<1>3. PICK i \in S : m = n - i
  OBVIOUS
<1>4. \A j \in S : n - i <= n - j
  BY <1>2, <1>3
<1> QED
  BY <1>4

LEMMA ListBound ==
  ASSUME NEW l, IsList(l)
  PROVE  \E n \in Nat : DOMAIN l \subseteq 1 .. n
BY DEF IsList

(* What is on some of the positions of a list is a list.                   *)
LEMMA BoundedIsList ==
  ASSUME NEW l, NEW n \in Nat, DOMAIN l \subseteq 1 .. n
  PROVE  IsList(l)
<1>1. CASE DOMAIN l = {}
  BY <1>1 DEF IsList
<1>2. CASE DOMAIN l # {}
  <2>1. PICK i \in DOMAIN l : \A j \in DOMAIN l : j <= i
    BY <1>2, GreatestElement
  <2> QED
    BY <2>1 DEF IsList
<1> QED
  BY <1>1, <1>2

LEMMA SubList ==
  ASSUME NEW l, IsList(l), NEW m, DOMAIN m \subseteq DOMAIN l
  PROVE  IsList(m)
BY ListBound, BoundedIsList

(* Every key has a last entry, and it is the one that is kept.             *)
LEMMA LastOfKey ==
  ASSUME NEW l, IsList(l), NEW key, NEW i \in DOMAIN l
  PROVE  \E last \in DOMAIN l :
           /\ key[last] = key[i]
           /\ \A j \in DOMAIN l : key[j] = key[i] => j <= last
<1> DEFINE S == {j \in DOMAIN l : key[j] = key[i]}
<1>1. PICK n \in Nat : DOMAIN l \subseteq 1 .. n
  BY ListBound
<1>2. S \in SUBSET (1 .. n) /\ S # {}
  BY <1>1
<1>3. PICK last \in S : \A j \in S : j <= last
  BY <1>1, <1>2, GreatestElement
<1> QED
  BY <1>3

LEMMA LastByKeyIs ==
  ASSUME NEW l, IsList(l), NEW key, NEW i \in DOMAIN l,
         \A j \in DOMAIN l : key[j] = key[i] => j <= i
  PROVE  LastByKey(l, key)[key[i]] = l[i]
<1> DEFINE IsLastOf(j) == key[j] = key[i] /\ \A m \in DOMAIN l : key[m] = key[i] => m <= j
<1>0. DOMAIN l \subseteq Nat
  BY ListBound
<1>1. \A j \in DOMAIN l : IsLastOf(j) => j = i
  BY <1>0
<1>2. IsLastOf(i)
  OBVIOUS
<1>3. LastByKey(l, key)[key[i]] = l[CHOOSE j \in DOMAIN l : IsLastOf(j)]
  BY DEF LastByKey
<1> HIDE DEF IsLastOf
<1> QED
  BY <1>1, <1>2, <1>3

(* The constraints of a table by name.                                     *)
LEMMA ByNameDomain ==
  ASSUME NEW cs
  PROVE  \A k : k \in DOMAIN ConstraintsByName(cs)
                  <=> \E i \in DOMAIN cs : ConstraintName(cs[i]) = k
BY DEF ConstraintsByName, LastByKey

LEMMA ByNameIs ==
  ASSUME NEW cs, IsList(cs), NEW i \in DOMAIN cs,
         \A j \in DOMAIN cs : ConstraintName(cs[j]) = ConstraintName(cs[i]) => j <= i
  PROVE  ConstraintsByName(cs)[ConstraintName(cs[i])] = cs[i]
<1> DEFINE key == [j \in DOMAIN cs |-> ConstraintName(cs[j])]
<1>1. \A j \in DOMAIN cs : key[j] = ConstraintName(cs[j])
  OBVIOUS
<1>2. ConstraintsByName(cs) = LastByKey(cs, key)
  BY DEF ConstraintsByName
<1> HIDE DEF key
<1>3. \A j \in DOMAIN cs : key[j] = key[i] => j <= i
  BY <1>1
<1>4. LastByKey(cs, key)[key[i]] = cs[i]
  BY <1>3, LastByKeyIs
<1> QED
  BY <1>1, <1>2, <1>4

LEMMA ByNameLast ==
  ASSUME NEW cs, IsList(cs), NEW k \in DOMAIN ConstraintsByName(cs)
  PROVE  \E i \in DOMAIN cs : /\ ConstraintName(cs[i]) = k
                              /\ ConstraintsByName(cs)[k] = cs[i]
                              /\ \A j \in DOMAIN cs : ConstraintName(cs[j]) = k => j <= i
<1> DEFINE key == [j \in DOMAIN cs |-> ConstraintName(cs[j])]
<1>1. \A j \in DOMAIN cs : key[j] = ConstraintName(cs[j])
  OBVIOUS
<1>2. PICK i \in DOMAIN cs : ConstraintName(cs[i]) = k
  BY ByNameDomain
<1> HIDE DEF key
<1>3. PICK last \in DOMAIN cs : /\ key[last] = key[i]
                                /\ \A j \in DOMAIN cs : key[j] = key[i] => j <= last
  BY LastOfKey
<1>4. /\ ConstraintName(cs[last]) = k
      /\ \A j \in DOMAIN cs : ConstraintName(cs[j]) = k => j <= last
  BY <1>1, <1>2, <1>3
<1>5. ConstraintsByName(cs)[k] = cs[last]
  BY <1>4, ByNameIs
<1> QED
  BY <1>4, <1>5

LEMMA NoConstraintsByName ==
  /\ IsList(<<>>)
  /\ DOMAIN ConstraintsByName(<<>>) = {}
<1>1. DOMAIN <<>> = {}
  OBVIOUS
<1>2. IsList(<<>>)
  BY <1>1 DEF IsList
<1> QED
  BY <1>1, <1>2, ByNameDomain

(* A declared name is nobody else's.                                       *)
LEMMA DeclaredName ==
  ASSUME NEW tc \in TableConstraints, NEW n \in Nat
  PROVE  ConstraintName(tc) = Declared(n) <=> tc.name # 0 /\ tc.name = n
<1>1. Declared(tc.name) = Declared(n) <=> tc.name = n
  BY DEF Declared
<1>2. <<tc.kind, tc.columns>> # Declared(n)
  BY DEF Declared, TableConstraints
<1> QED
  BY <1>1, <1>2 DEF ConstraintName

-----------------------------------------------------------------------------
(* Columns, and the two ends of a CREATE TABLE.                            *)

LEMMA CatalogColumnType ==
  ASSUME NEW c \in CatalogColumns
  PROVE  CatalogColumn(c) \in CatalogColumns /\ "AutoIncrement" \notin CatalogColumn(c).attrs
<1> DEFINE i == "AutoIncrement" \in c.attrs
           a == c.attrs \ {"AutoIncrement"}
<1>1. i \in BOOLEAN
  OBVIOUS
<1>2. a \in SUBSET STRING
  BY DEF CatalogColumns
<1>3. "AutoIncrement" \notin a
  OBVIOUS
<1>4. CatalogColumn(c) = [[c EXCEPT !.identity = i] EXCEPT !.attrs = a]
  BY DEF CatalogColumn
<1> HIDE DEF i, a
<1> QED
  BY <1>1, <1>2, <1>3, <1>4 DEF CatalogColumns

LEMMA JsonColumnIs ==
  ASSUME NEW c \in CatalogColumns
  PROVE  /\ JsonColumn(c) \in CatalogColumns
         /\ JsonColumn(c).type = c.type
         /\ JsonColumn(c).nullable = c.nullable
         /\ JsonColumn(c).default = 0
BY DEF CatalogColumns, JsonColumn

(* A column is created as it was asked for.                                *)
LEMMA ColumnRoundTrip ==
  ASSUME NEW c \in CatalogColumns, "AutoIncrement" \notin c.attrs
  PROVE  CatalogColumn(ColumnDef(c)) = c
<1> DEFINE d == ColumnDef(c)
           a == d.attrs \ {"AutoIncrement"}
           i == "AutoIncrement" \in d.attrs
<1>1. d = [c EXCEPT !.attrs = IF c.identity THEN c.attrs \cup {"AutoIncrement"} ELSE c.attrs]
  BY DEF ColumnDef
<1>2. d.attrs = IF c.identity THEN c.attrs \cup {"AutoIncrement"} ELSE c.attrs
  BY <1>1 DEF CatalogColumns
<1>3. a = c.attrs /\ i = c.identity
  <2>1. a = c.attrs
    BY <1>2
  <2>2. i <=> c.identity
    BY <1>2
  <2>3. c.identity \in BOOLEAN /\ i \in BOOLEAN
    BY DEF CatalogColumns
  <2> QED
    BY <2>1, <2>2, <2>3
<1>4. CatalogColumn(d) = [[d EXCEPT !.identity = i] EXCEPT !.attrs = a]
  BY DEF CatalogColumn
<1> HIDE DEF a, i
<1>5. CatalogColumn(d) = [[d EXCEPT !.identity = c.identity] EXCEPT !.attrs = c.attrs]
  BY <1>3, <1>4
<1>6. d = [c EXCEPT !.attrs = d.attrs]
  BY <1>1, <1>2
<1> HIDE DEF d
<1>7. CatalogColumn(d) = c
  BY <1>5, <1>6 DEF CatalogColumns
<1> QED
  BY <1>7 DEF d

(* A table as the DDL defines it.                                          *)
DefinedTable(t) ==
  /\ TypedTable(t)
  /\ \A c \in DOMAIN t.columns : "AutoIncrement" \notin t.columns[c].attrs
  /\ t = [columns |-> [c \in DOMAIN t.columns |-> t.columns[c]], constraints |-> t.constraints]

LEMMA CatalogTableIs ==
  ASSUME NEW st, TypedTable(st)
  PROVE  DefinedTable(CatalogTable(st))
<1> DEFINE t == CatalogTable(st)
<1>1. /\ t = [columns |-> [c \in DOMAIN st.columns |-> CatalogColumn(st.columns[c])],
              constraints |-> st.constraints]
      /\ DOMAIN t.columns = DOMAIN st.columns
      /\ \A c \in DOMAIN t.columns : t.columns[c] = CatalogColumn(st.columns[c])
      /\ t.constraints = st.constraints
  BY DEF CatalogTable
<1>2. \A c \in DOMAIN t.columns :
        t.columns[c] \in CatalogColumns /\ "AutoIncrement" \notin t.columns[c].attrs
  BY <1>1, CatalogColumnType DEF TypedTable
<1>3. TypedTable(t)
  BY <1>1, <1>2 DEF TypedTable
<1>4. t = [columns |-> [c \in DOMAIN t.columns |-> t.columns[c]], constraints |-> t.constraints]
  BY <1>1
<1> QED
  BY <1>2, <1>3, <1>4 DEF DefinedTable

LEMMA TableRoundTrip ==
  ASSUME NEW n, NEW t, DefinedTable(t)
  PROVE  CatalogTable(CreateTable(n, t)) = t
<1> DEFINE st == CreateTable(n, t)
<1>1. /\ DOMAIN st.columns = DOMAIN t.columns
      /\ \A c \in DOMAIN t.columns : st.columns[c] = ColumnDef(t.columns[c])
      /\ st.constraints = t.constraints
  BY DEF CreateTable
<1> HIDE DEF st
<1>2. \A c \in DOMAIN t.columns : CatalogColumn(st.columns[c]) = t.columns[c]
  BY <1>1, ColumnRoundTrip DEF DefinedTable, TypedTable
<1>3. [c \in DOMAIN st.columns |-> CatalogColumn(st.columns[c])] = [c \in DOMAIN t.columns |-> t.columns[c]]
  BY <1>1, <1>2
<1>4. CatalogTable(st) = [columns |-> [c \in DOMAIN t.columns |-> t.columns[c]], constraints |-> t.constraints]
  BY <1>1, <1>3 DEF CatalogTable
<1> QED
  BY <1>4 DEF DefinedTable, st

LEMMA DesiredIs ==
  ASSUME NEW script, TypedDdl(script)
  PROVE  /\ DOMAIN BuildDesired(script).tables \subseteq Nat
         /\ DOMAIN BuildDesired(script).indices \subseteq Nat \X Nat
         /\ \A n \in DOMAIN BuildDesired(script).tables : DefinedTable(BuildDesired(script).tables[n])
<1> DEFINE isTable == {i \in DOMAIN script : script[i].op = "CreateTable" /\ Converts(script[i])}
           isIndex == {i \in DOMAIN script : script[i].op = "CreateIndex"}
           made == Restrict(script, isTable)
           name == [i \in isTable |-> script[i].table]
           tables == LastByKey(made, name)
           key == [i \in isIndex |-> <<script[i].table, script[i].name>>]
           indices == LastByKey(Restrict(script, isIndex), key)
<1>1. BuildDesired(script) = [tables |-> [n \in DOMAIN tables |-> CatalogTable(tables[n])],
                           indices |-> [k \in DOMAIN indices |-> indices[k].index]]
  BY DEF BuildDesired
<1>2. DOMAIN tables = {name[i] : i \in isTable} /\ DOMAIN indices = {key[i] : i \in isIndex}
  BY DEF LastByKey, Restrict
<1>3. DOMAIN tables \subseteq Nat
  BY <1>2 DEF TypedDdl
<1>4. DOMAIN indices \subseteq Nat \X Nat
  <2>1. \A i \in isIndex : key[i] = <<script[i].table, script[i].name>>
    OBVIOUS
  <2>2. \A i \in isIndex : script[i].table \in Nat /\ script[i].name \in Nat
    BY DEF TypedDdl
  <2>3. ASSUME NEW k \in DOMAIN indices
        PROVE  k \in Nat \X Nat
    <3>1. PICK i \in isIndex : key[i] = k
      BY <1>2
    <3>2. k = <<script[i].table, script[i].name>>
      BY <2>1, <3>1
    <3>3. script[i].table \in Nat /\ script[i].name \in Nat
      BY <2>2
    <3> HIDE DEF key, isIndex, indices
    <3> QED
      BY <3>2, <3>3
  <2> QED
    BY <2>3
<1>5. ASSUME NEW n \in DOMAIN tables
      PROVE  TypedTable(tables[n])
  <2>1. DOMAIN made = isTable /\ IsList(made)
    <3>1. DOMAIN made = isTable
      BY DEF Restrict
    <3>2. DOMAIN made \subseteq DOMAIN script /\ IsList(script)
      BY <3>1 DEF TypedDdl
    <3> HIDE DEF made
    <3> QED
      BY <3>1, <3>2, SubList
  <2>2. \A i \in isTable : made[i] = script[i] /\ TypedTable(script[i])
    BY DEF Restrict, TypedDdl
  <2>3. PICK i \in isTable : name[i] = n
    BY <1>2
  <2> HIDE DEF made, name, isTable
  <2>4. PICK last \in DOMAIN made : /\ name[last] = n
                                    /\ \A j \in DOMAIN made : name[j] = n => j <= last
    BY <2>1, <2>3, LastOfKey
  <2>5. tables[n] = made[last]
    BY <2>1, <2>4, LastByKeyIs
  <2> QED
    BY <2>1, <2>2, <2>4, <2>5
<1>6. ASSUME NEW n \in DOMAIN tables
      PROVE  DefinedTable(CatalogTable(tables[n]))
  BY <1>5, CatalogTableIs
<1> HIDE DEF tables, indices
<1> QED
  BY <1>1, <1>3, <1>4, <1>6

-----------------------------------------------------------------------------
(* Differences, and what is planned for them.                              *)

LEMMA DiffByKeyIs ==
  ASSUME NEW cur, NEW des
  PROVE  /\ \A k : k \in DOMAIN DiffByKey(cur, des)
                     <=> /\ k \in DOMAIN cur \cup DOMAIN des
                         /\ ~ (k \in DOMAIN cur /\ k \in DOMAIN des /\ cur[k] = des[k])
         /\ \A k \in DOMAIN DiffByKey(cur, des) : DiffByKey(cur, des)[k] = Diff1(cur, des, k)
BY DEF DiffByKey, Keys

(* Of an entry that either side has.                                       *)
LEMMA Diff1Is ==
  ASSUME NEW cur, NEW des, NEW k, k \in DOMAIN cur \/ k \in DOMAIN des
  PROVE  /\ k \notin DOMAIN cur
              => /\ Diff1(cur, des, k).kind = "Added"
                 /\ Diff1(cur, des, k).to = des[k]
         /\ k \in DOMAIN cur /\ k \notin DOMAIN des => Diff1(cur, des, k).kind = "Removed"
         /\ k \in DOMAIN cur /\ k \in DOMAIN des
              => /\ Diff1(cur, des, k).kind = "Modified"
                 /\ Diff1(cur, des, k).to = des[k]
<1>1. k \notin DOMAIN cur => Diff1(cur, des, k) = [kind |-> "Added", to |-> des[k]]
  BY DEF Diff1
<1>2. k \in DOMAIN cur /\ k \notin DOMAIN des => Diff1(cur, des, k) = [kind |-> "Removed"]
  BY DEF Diff1
<1>3. k \in DOMAIN cur /\ k \in DOMAIN des => Diff1(cur, des, k) = [kind |-> "Modified", to |-> des[k]]
  BY DEF Diff1
<1>4. CASE k \notin DOMAIN cur
  BY <1>1, <1>4
<1>5. CASE k \in DOMAIN cur /\ k \notin DOMAIN des
  BY <1>2, <1>5
<1>6. CASE k \in DOMAIN cur /\ k \in DOMAIN des
  BY <1>3, <1>6
<1> QED
  BY <1>4, <1>5, <1>6

LEMMA DiffColumnsIs ==
  ASSUME NEW cur, NEW des
  PROVE  /\ \A c : c \in DOMAIN DiffColumns(cur, des)
                     <=> /\ c \in DOMAIN cur \cup DOMAIN des
                         /\ c \in DOMAIN cur /\ c \in DOMAIN des => Changed(cur[c], des[c]) # {}
         /\ \A c \in DOMAIN DiffColumns(cur, des) : DiffColumns(cur, des)[c] = ColumnDiff(cur, des, c)
BY DEF DiffColumns, Keys

LEMMA ColumnDiffIs ==
  ASSUME NEW cur, NEW des, NEW c, c \in DOMAIN cur \/ c \in DOMAIN des
  PROVE  /\ c \notin DOMAIN cur
              => /\ ColumnDiff(cur, des, c).kind = "Added"
                 /\ ColumnDiff(cur, des, c).to = ColumnDef(des[c])
         /\ c \in DOMAIN cur /\ c \notin DOMAIN des => ColumnDiff(cur, des, c).kind = "Removed"
         /\ c \in DOMAIN cur /\ c \in DOMAIN des
              => /\ ColumnDiff(cur, des, c).kind = "Modified"
                 /\ ColumnDiff(cur, des, c).to = ColumnDef(des[c])
                 /\ ColumnDiff(cur, des, c).changes = Changed(cur[c], des[c])
<1>1. c \notin DOMAIN cur => ColumnDiff(cur, des, c) = [kind |-> "Added", to |-> ColumnDef(des[c])]
  BY DEF ColumnDiff
<1>2. c \in DOMAIN cur /\ c \notin DOMAIN des => ColumnDiff(cur, des, c) = [kind |-> "Removed"]
  BY DEF ColumnDiff
<1>3. c \in DOMAIN cur /\ c \in DOMAIN des
        => ColumnDiff(cur, des, c)
             = [kind |-> "Modified", to |-> ColumnDef(des[c]), changes |-> Changed(cur[c], des[c])]
  BY DEF ColumnDiff
<1>4. CASE c \notin DOMAIN cur
  BY <1>1, <1>4
<1>5. CASE c \in DOMAIN cur /\ c \notin DOMAIN des
  BY <1>2, <1>5
<1>6. CASE c \in DOMAIN cur /\ c \in DOMAIN des
  BY <1>3, <1>6
<1> QED
  BY <1>4, <1>5, <1>6

LEMMA ColumnDefKeeps ==
  ASSUME NEW c \in CatalogColumns
  PROVE  /\ ColumnDef(c).type = c.type
         /\ ColumnDef(c).nullable = c.nullable
         /\ ColumnDef(c).default = c.default
BY DEF ColumnDef, CatalogColumns

LEMMA ChangedIs ==
  ASSUME NEW from, NEW to
  PROVE  /\ "type" \in Changed(from, to) <=> from.type # to.type
         /\ "nullable" \in Changed(from, to) <=> from.nullable # to.nullable
         /\ "default" \in Changed(from, to) <=> from.default # to.default
         /\ Changed(from, to) = {} <=> /\ from.type = to.type
                                       /\ from.nullable = to.nullable
                                       /\ from.default = to.default
<1>1. Changed(from, to) = {f \in {"type", "nullable", "default"} : from[f] # to[f]}
  BY DEF Changed
<1> QED
  BY <1>1

(* The table that both catalogs have, and its difference.                  *)
Alteration(n, cur, des) ==
  [kind |-> "Modified", columns |-> DiffColumns(cur.columns, des.columns),
   constraints |-> DiffConstraints(cur.constraints, des.constraints)]

Differs(cur, des) ==
  \/ DOMAIN DiffColumns(cur.columns, des.columns) # {}
  \/ DOMAIN DiffConstraints(cur.constraints, des.constraints) # {}

(* Of what is planned from a difference t of the tables ct and dt.         *)
LEMMA TablesPlanned ==
  ASSUME NEW ct, NEW dt, NEW t, t = DiffTables(ct, dt), NEW n
  PROVE  /\ n \in DOMAIN t <=> n \in DOMAIN ct \/ n \in DOMAIN dt
         /\ n \in DOMAIN dt /\ n \notin DOMAIN ct => t[n].kind = "Added" /\ t[n].to = dt[n]
         /\ n \in DOMAIN ct /\ n \notin DOMAIN dt => t[n].kind = "Removed"
         /\ n \in DOMAIN ct /\ n \in DOMAIN dt /\ Differs(ct[n], dt[n])
              => t[n].kind = "Modified" /\ t[n] = Alteration(n, ct[n], dt[n])
         /\ n \in DOMAIN ct /\ n \in DOMAIN dt /\ ~ Differs(ct[n], dt[n]) => t[n].kind = "Unchanged"
<1>1. n \in DOMAIN t <=> n \in DOMAIN ct \/ n \in DOMAIN dt
  BY DEF DiffTables, Keys
<1>2. CASE n \in DOMAIN dt /\ n \notin DOMAIN ct
  <2>1. t[n] = [kind |-> "Added", to |-> dt[n]]
    BY <1>2 DEF DiffTables, Keys
  <2> QED
    BY <1>1, <1>2, <2>1
<1>3. CASE n \in DOMAIN ct /\ n \notin DOMAIN dt
  <2>1. t[n] = [kind |-> "Removed"]
    BY <1>3 DEF DiffTables, Keys
  <2> QED
    BY <1>1, <1>3, <2>1
<1>4. CASE n \in DOMAIN ct /\ n \in DOMAIN dt
  <2>1. t[n] = DiffSingleTable(ct[n], dt[n])
    BY <1>4 DEF DiffTables, Keys
  <2>2. CASE Differs(ct[n], dt[n])
    <3>1. t[n] = Alteration(n, ct[n], dt[n])
      BY <2>1, <2>2 DEF DiffSingleTable, Differs, Alteration
    <3>2. Alteration(n, ct[n], dt[n]).kind = "Modified"
      BY DEF Alteration
    <3> QED
      BY <1>1, <1>4, <2>2, <3>1, <3>2
  <2>3. CASE ~ Differs(ct[n], dt[n])
    <3>1. t[n] = [kind |-> "Unchanged"]
      BY <2>1, <2>3 DEF DiffSingleTable, Differs
    <3> QED
      BY <1>1, <1>4, <2>3, <3>1
  <2> QED
    BY <2>2, <2>3
<1>5. CASE n \notin DOMAIN ct /\ n \notin DOMAIN dt
  BY <1>1, <1>5
<1> QED
  BY <1>2, <1>3, <1>4, <1>5

LEMMA PlannedIs ==
  ASSUME NEW cur, NEW des, NEW st
  PROVE  st \in PlanOperations(DiffSchema(cur, des)) <=>
           \/ \E n \in DOMAIN des.tables \ DOMAIN cur.tables : st = CreateTable(n, des.tables[n])
           \/ \E n \in DOMAIN cur.tables \ DOMAIN des.tables : st = [op |-> "DropTable", table |-> n]
           \/ \E n \in DOMAIN cur.tables \cap DOMAIN des.tables :
                /\ Differs(cur.tables[n], des.tables[n])
                /\ st = AlterTable(n, Alteration(n, cur.tables[n], des.tables[n]))
           \/ \E k \in DOMAIN des.indices :
                /\ ~ (k \in DOMAIN cur.indices /\ cur.indices[k] = des.indices[k])
                /\ st = CreateIndex(k, des.indices[k])
           \/ \E k \in DOMAIN cur.indices \ DOMAIN des.indices :
                st = [op |-> "DropIndex", table |-> k[1], name |-> k[2]]
<1> DEFINE diff == DiffSchema(cur, des)
           t == diff.tables
           x == diff.indices
<1>1. t = DiffTables(cur.tables, des.tables) /\ x = DiffByKey(cur.indices, des.indices)
  BY DEF DiffSchema, DiffIndices
<1>2. st \in PlanOperations(diff) <=>
        \/ \E n \in DOMAIN t : t[n].kind = "Added" /\ st = CreateTable(n, t[n].to)
        \/ \E n \in DOMAIN t : t[n].kind = "Removed" /\ st = [op |-> "DropTable", table |-> n]
        \/ \E n \in DOMAIN t : t[n].kind = "Modified" /\ st = AlterTable(n, t[n])
        \/ \E k \in DOMAIN x : x[k].kind \in {"Added", "Modified"} /\ st = CreateIndex(k, x[k].to)
        \/ \E k \in DOMAIN x : /\ x[k].kind = "Removed"
                               /\ st = [op |-> "DropIndex", table |-> k[1], name |-> k[2]]
  <2> HIDE DEF diff
  <2> QED
    BY DEF PlanOperations, OfKind
<1> HIDE DEF diff, t, x
<1>3. ASSUME NEW n
      PROVE  /\ n \in DOMAIN t <=> n \in DOMAIN cur.tables \/ n \in DOMAIN des.tables
             /\ n \in DOMAIN des.tables /\ n \notin DOMAIN cur.tables
                  => t[n].kind = "Added" /\ t[n].to = des.tables[n]
             /\ n \in DOMAIN cur.tables /\ n \notin DOMAIN des.tables => t[n].kind = "Removed"
             /\ n \in DOMAIN cur.tables /\ n \in DOMAIN des.tables /\ Differs(cur.tables[n], des.tables[n])
                  => /\ t[n].kind = "Modified"
                     /\ t[n] = Alteration(n, cur.tables[n], des.tables[n])
             /\ n \in DOMAIN cur.tables /\ n \in DOMAIN des.tables /\ ~ Differs(cur.tables[n], des.tables[n])
                  => t[n].kind = "Unchanged"
  <2> SUFFICES ASSUME NEW ct, NEW dt, ct = cur.tables, dt = des.tables
               PROVE  /\ n \in DOMAIN t <=> n \in DOMAIN ct \/ n \in DOMAIN dt
                      /\ n \in DOMAIN dt /\ n \notin DOMAIN ct => t[n].kind = "Added" /\ t[n].to = dt[n]
                      /\ n \in DOMAIN ct /\ n \notin DOMAIN dt => t[n].kind = "Removed"
                      /\ n \in DOMAIN ct /\ n \in DOMAIN dt /\ Differs(ct[n], dt[n])
                           => t[n].kind = "Modified" /\ t[n] = Alteration(n, ct[n], dt[n])
                      /\ n \in DOMAIN ct /\ n \in DOMAIN dt /\ ~ Differs(ct[n], dt[n])
                           => t[n].kind = "Unchanged"
    OBVIOUS
  <2>1. t = DiffTables(ct, dt)
    BY <1>1
  <2> QED
    BY <2>1, TablesPlanned
<1>4. (\E n \in DOMAIN t : t[n].kind = "Added" /\ st = CreateTable(n, t[n].to))
        <=> \E n \in DOMAIN des.tables \ DOMAIN cur.tables : st = CreateTable(n, des.tables[n])
  BY <1>3
<1>5. (\E n \in DOMAIN t : t[n].kind = "Removed" /\ st = [op |-> "DropTable", table |-> n])
        <=> \E n \in DOMAIN cur.tables \ DOMAIN des.tables : st = [op |-> "DropTable", table |-> n]
  BY <1>3
<1>a. (\E n \in DOMAIN t : t[n].kind = "Modified" /\ st = AlterTable(n, t[n]))
        <=> \E n \in DOMAIN cur.tables \cap DOMAIN des.tables :
              /\ Differs(cur.tables[n], des.tables[n])
              /\ st = AlterTable(n, Alteration(n, cur.tables[n], des.tables[n]))
  BY <1>3
<1>6. \A k \in DOMAIN x :
        /\ k \in DOMAIN des.indices <=> x[k].kind \in {"Added", "Modified"}
        /\ k \in DOMAIN des.indices => x[k].to = des.indices[k]
        /\ k \notin DOMAIN des.indices <=> x[k].kind = "Removed"
  BY <1>1, DiffByKeyIs, Diff1Is
<1>7. \A k : k \in DOMAIN x <=> /\ k \in DOMAIN cur.indices \cup DOMAIN des.indices
                                /\ ~ (/\ k \in DOMAIN cur.indices /\ k \in DOMAIN des.indices
                                      /\ cur.indices[k] = des.indices[k])
  BY <1>1, DiffByKeyIs
<1>8. (\E k \in DOMAIN x : x[k].kind \in {"Added", "Modified"} /\ st = CreateIndex(k, x[k].to))
        <=> \E k \in DOMAIN des.indices :
              /\ ~ (k \in DOMAIN cur.indices /\ cur.indices[k] = des.indices[k])
              /\ st = CreateIndex(k, des.indices[k])
  BY <1>6, <1>7
<1>9. (\E k \in DOMAIN x : /\ x[k].kind = "Removed"
                           /\ st = [op |-> "DropIndex", table |-> k[1], name |-> k[2]])
        <=> \E k \in DOMAIN cur.indices \ DOMAIN des.indices :
              st = [op |-> "DropIndex", table |-> k[1], name |-> k[2]]
  BY <1>6, <1>7
<1> QED
  BY <1>2, <1>4, <1>5, <1>a, <1>8, <1>9 DEF diff

-----------------------------------------------------------------------------
(* The actions of an ALTER TABLE.                                          *)

(* What becomes of a column of the table cur that is to be des.            *)
LEMMA ColumnActionIs ==
  ASSUME NEW cur, NEW des, NEW c, c \in DOMAIN cur \/ c \in DOMAIN des,
         c \in DOMAIN des => des[c] \in CatalogColumns,
         NEW a, a = ColumnAction(ColumnDiff(cur, des, c))
  PROVE  /\ c \notin DOMAIN cur => a.act = "AddColumn" /\ a.def = ColumnDef(des[c])
         /\ c \notin DOMAIN des => a.act = "DropColumn"
         /\ c \in DOMAIN cur /\ c \in DOMAIN des
              => /\ a.act = "AlterColumn"
                 /\ a.type = IF cur[c].type # des[c].type THEN <<des[c].type>> ELSE <<>>
                 /\ a.default = IF cur[c].default # des[c].default THEN <<des[c].default>> ELSE <<>>
                 /\ a.nullable = des[c].nullable
<1> DEFINE d == ColumnDiff(cur, des, c)
<1>1. CASE c \notin DOMAIN cur
  <2>1. d = [kind |-> "Added", to |-> ColumnDef(des[c])]
    BY <1>1 DEF ColumnDiff
  <2> HIDE DEF d
  <2>2. d.kind = "Added" /\ d.to = ColumnDef(des[c])
    BY <2>1
  <2>3. ColumnAction(d) = [act |-> "AddColumn", def |-> d.to]
    BY <2>2 DEF ColumnAction
  <2> QED
    BY <1>1, <2>2, <2>3 DEF d
<1>2. CASE c \notin DOMAIN des
  <2>1. d = [kind |-> "Removed"]
    BY <1>2 DEF ColumnDiff
  <2> HIDE DEF d
  <2>2. d.kind = "Removed"
    BY <2>1
  <2>3. ColumnAction(d) = [act |-> "DropColumn"]
    BY <2>2 DEF ColumnAction
  <2> QED
    BY <1>2, <2>3 DEF d
<1>3. CASE c \in DOMAIN cur /\ c \in DOMAIN des
  <2> DEFINE to == ColumnDef(des[c])
             ch == Changed(cur[c], des[c])
  <2>1. d = [kind |-> "Modified", to |-> to, changes |-> ch]
    BY <1>3 DEF ColumnDiff
  <2>2. /\ to.type = des[c].type /\ to.nullable = des[c].nullable /\ to.default = des[c].default
    BY <1>3, ColumnDefKeeps
  <2>3. ("type" \in ch <=> cur[c].type # des[c].type) /\ ("default" \in ch <=> cur[c].default # des[c].default)
    BY DEF Changed
  <2> HIDE DEF d, to, ch
  <2>4. d.kind = "Modified" /\ d.to = to /\ d.changes = ch
    BY <2>1
  <2>5. ColumnAction(d) = [act |-> "AlterColumn",
                           type |-> IF "type" \in d.changes THEN <<d.to.type>> ELSE <<>>,
                           default |-> IF "default" \in d.changes THEN <<d.to.default>> ELSE <<>>,
                           nullable |-> d.to.nullable]
    BY <2>4 DEF ColumnAction
  <2>6. a.act = "AlterColumn"
    BY <2>5 DEF d
  <2>7. a.type = IF cur[c].type # des[c].type THEN <<des[c].type>> ELSE <<>>
    BY <2>2, <2>3, <2>4, <2>5 DEF d
  <2>8. a.default = IF cur[c].default # des[c].default THEN <<des[c].default>> ELSE <<>>
    BY <2>2, <2>3, <2>4, <2>5 DEF d
  <2>9. a.nullable = des[c].nullable
    BY <2>2, <2>4, <2>5 DEF d
  <2> QED
    BY <1>3, <2>6, <2>7, <2>8, <2>9
<1> QED
  BY <1>1, <1>2, <1>3

(* What becomes of a key of the constraints cur that are to be des.        *)
LEMMA ConstraintActionIs ==
  ASSUME NEW cur, NEW des, NEW k, k \in DOMAIN cur \/ k \in DOMAIN des,
         NEW a, a = ConstraintAction(Diff1(cur, des, k))
  PROVE  /\ a.drop <=> k \in DOMAIN cur
         /\ a.add = IF k \in DOMAIN des THEN <<des[k]>> ELSE <<>>
<1> DEFINE d == Diff1(cur, des, k)
           drop == d.kind \in {"Removed", "Modified"}
           add == IF d.kind = "Removed" THEN <<>> ELSE <<d.to>>
<1>0. a.drop = drop /\ a.add = add
  <2>1. a = [drop |-> drop, add |-> add]
    BY DEF ConstraintAction
  <2> HIDE DEF drop, add
  <2> QED
    BY <2>1
<1>1. CASE k \notin DOMAIN cur
  <2>1. d = [kind |-> "Added", to |-> des[k]]
    BY <1>1 DEF Diff1
  <2> HIDE DEF d
  <2>2. d.kind = "Added" /\ d.to = des[k]
    BY <2>1
  <2>3. ~ drop /\ add = <<des[k]>>
    BY <2>2
  <2> QED
    BY <1>0, <1>1, <2>3
<1>2. CASE k \notin DOMAIN des
  <2>1. d = [kind |-> "Removed"]
    BY <1>2 DEF Diff1
  <2> HIDE DEF d
  <2>2. d.kind = "Removed"
    BY <2>1
  <2>3. drop /\ add = <<>>
    BY <2>2
  <2> QED
    BY <1>0, <1>2, <2>3
<1>3. CASE k \in DOMAIN cur /\ k \in DOMAIN des
  <2>1. d = [kind |-> "Modified", to |-> des[k]]
    BY <1>3 DEF Diff1
  <2> HIDE DEF d
  <2>2. d.kind = "Modified" /\ d.to = des[k]
    BY <2>1
  <2>3. drop /\ add = <<des[k]>>
    BY <2>2
  <2> QED
    BY <1>0, <1>3, <2>3
<1> QED
  BY <1>1, <1>2, <1>3

------------------------------------------------------------------------------
(* Plans, and the effect of their statements.                              *)

TypedInput(x) ==
  /\ DOMAIN x.desired.tables \subseteq Nat
  /\ DOMAIN x.desired.indices \subseteq Nat \X Nat
  /\ \A n \in DOMAIN x.desired.tables : DefinedTable(x.desired.tables[n])
  /\ x.dialect \in Dialects
  /\ x.source \in Sources

DatabaseOK(s) == TypedCatalog(s) /\ \A n \in DOMAIN s.tables : ~Malformed(s.tables[n])

(* What the program sees of a table.                                       *)
Shown(t, x) ==
  IF x.source = "json"
  THEN [columns |-> [c \in DOMAIN t.columns |-> JsonColumn(t.columns[c])],
        constraints |-> JsonConstraints(t.constraints)]
  ELSE t

LoadedFrom(s, x) == IF x.source = "json" THEN LoadJson(s) ELSE s

(* The statements planned for s, one disjunct for each kind.               *)
DropTable(n) == [op |-> "DropTable", table |-> n]
DropIndex(k) == [op |-> "DropIndex", table |-> k[1], name |-> k[2]]

FullAlter(t, n, x) == AlterTable(n, Alteration(n, Shown(t, x), x.desired.tables[n]))
ToAlter(t, n, x) == IF x.dialect = "sqlite" THEN WithoutUnsupported(FullAlter(t, n, x)) ELSE FullAlter(t, n, x)

Needs(t, n, x) ==
  /\ Differs(Shown(t, x), x.desired.tables[n])
  /\ x.dialect = "sqlite" => ~NoActions(ToAlter(t, n, x))

Planned(s, x, st) ==
  \/ \E n \in DOMAIN x.desired.tables \ DOMAIN s.tables : st = CreateTable(n, x.desired.tables[n])
  \/ \E n \in DOMAIN s.tables \ DOMAIN x.desired.tables : st = DropTable(n)
  \/ \E n \in DOMAIN s.tables \cap DOMAIN x.desired.tables :
       Needs(s.tables[n], n, x) /\ st = ToAlter(s.tables[n], n, x)
  \/ \E k \in DOMAIN x.desired.indices :
       /\ ~ (k \in DOMAIN s.indices /\ s.indices[k] = x.desired.indices[k])
       /\ st = CreateIndex(k, x.desired.indices[k])
  \/ \E k \in DOMAIN s.indices \ DOMAIN x.desired.indices : st = DropIndex(k)

-----------------------------------------------------------------------------
(* What the program sees.                                                  *)

LEMMA LoadedIs ==
  ASSUME NEW s, TypedCatalog(s), NEW x
  PROVE  /\ DOMAIN LoadedFrom(s, x).tables = DOMAIN s.tables
         /\ LoadedFrom(s, x).indices = s.indices
         /\ \A n \in DOMAIN s.tables : LoadedFrom(s, x).tables[n] = Shown(s.tables[n], x)
<1>1. CASE x.source # "json"
  BY <1>1 DEF LoadedFrom, Shown
<1>2. CASE x.source = "json"
  <2> DEFINE tables == [n \in DOMAIN s.tables |->
                          [columns |-> [c \in DOMAIN s.tables[n].columns |-> JsonColumn(s.tables[n].columns[c])],
                           constraints |-> JsonConstraints(s.tables[n].constraints)]]
  <2>1. LoadedFrom(s, x) = [s EXCEPT !.tables = tables]
    BY <1>2 DEF LoadedFrom, LoadJson
  <2>2. \A n \in DOMAIN s.tables : tables[n] = Shown(s.tables[n], x)
    BY <1>2 DEF Shown
  <2>3. DOMAIN tables = DOMAIN s.tables
    OBVIOUS
  <2> HIDE DEF tables
  <2>4. s = [tables |-> s.tables, indices |-> s.indices]
    BY DEF TypedCatalog
  <2>5. LoadedFrom(s, x).tables = tables /\ LoadedFrom(s, x).indices = s.indices
    BY <2>1, <2>4
  <2> QED
    BY <2>2, <2>3, <2>5
<1> QED
  BY <1>1, <1>2

LEMMA ShownIs ==
  ASSUME NEW t, TypedTable(t), NEW x
  PROVE  /\ DOMAIN Shown(t, x).columns = DOMAIN t.columns
         /\ \A c \in DOMAIN t.columns :
              /\ Shown(t, x).columns[c].type = t.columns[c].type
              /\ Shown(t, x).columns[c].nullable = t.columns[c].nullable
              /\ Shown(t, x).columns[c].default = IF x.source = "json" THEN 0 ELSE t.columns[c].default
         /\ Shown(t, x).constraints = IF x.source = "json" THEN <<>> ELSE t.constraints
<1>1. CASE x.source # "json"
  BY <1>1 DEF Shown
<1>2. CASE x.source = "json"
  <2> DEFINE cols == [c \in DOMAIN t.columns |-> JsonColumn(t.columns[c])]
  <2>1. Shown(t, x) = [columns |-> cols, constraints |-> <<>>]
    BY <1>2 DEF Shown, JsonConstraints
  <2>2. Shown(t, x).columns = cols /\ Shown(t, x).constraints = <<>>
    <3> HIDE DEF cols
    <3> QED
      BY <2>1
  <2>3. \A c \in DOMAIN t.columns : /\ cols[c].type = t.columns[c].type
                                    /\ cols[c].nullable = t.columns[c].nullable
                                    /\ cols[c].default = 0
    BY JsonColumnIs DEF TypedTable
  <2>4. DOMAIN cols = DOMAIN t.columns
    OBVIOUS
  <2> HIDE DEF cols
  <2> QED
    BY <1>2, <2>2, <2>3, <2>4
<1> QED
  BY <1>1, <1>2

-----------------------------------------------------------------------------
(* The statements.                                                         *)

LEMMA AlterTableIs ==
  ASSUME NEW n, NEW d, NEW st, st = AlterTable(n, d)
  PROVE  /\ st.op = "AlterTable"
         /\ st.table = n
         /\ DOMAIN st.columns = DOMAIN d.columns
         /\ \A c \in DOMAIN st.columns : st.columns[c] = ColumnAction(d.columns[c])
         /\ DOMAIN st.constraints = DOMAIN d.constraints
         /\ \A k \in DOMAIN st.constraints : st.constraints[k] = ConstraintAction(d.constraints[k])
<1> DEFINE cols == [c \in DOMAIN d.columns |-> ColumnAction(d.columns[c])]
           cons == [k \in DOMAIN d.constraints |-> ConstraintAction(d.constraints[k])]
<1>1. st = [op |-> "AlterTable", table |-> n, columns |-> cols, constraints |-> cons]
  BY DEF AlterTable
<1>2. DOMAIN cols = DOMAIN d.columns /\ \A c \in DOMAIN cols : cols[c] = ColumnAction(d.columns[c])
  OBVIOUS
<1>3. DOMAIN cons = DOMAIN d.constraints /\ \A k \in DOMAIN cons : cons[k] = ConstraintAction(d.constraints[k])
  OBVIOUS
<1> HIDE DEF cols, cons
<1>4. st.op = "AlterTable" /\ st.table = n /\ st.columns = cols /\ st.constraints = cons
  BY <1>1
<1> QED
  BY <1>2, <1>3, <1>4

LEMMA WithoutUnsupportedIs ==
  ASSUME NEW n, NEW d, NEW st, st = AlterTable(n, d), NEW w, w = WithoutUnsupported(st)
  PROVE  /\ w.op = "AlterTable"
         /\ w.table = n
         /\ \A c : c \in DOMAIN w.columns <=> c \in DOMAIN st.columns /\ st.columns[c].act # "AlterColumn"
         /\ \A c \in DOMAIN w.columns : w.columns[c] = st.columns[c]
         /\ \A k : k \in DOMAIN w.constraints <=> k \in DOMAIN st.constraints /\ st.constraints[k].add # <<>>
         /\ \A k \in DOMAIN w.constraints : w.constraints[k] = [st.constraints[k] EXCEPT !.drop = FALSE]
<1> DEFINE A == [c \in {c \in DOMAIN st.columns : st.columns[c].act # "AlterColumn"} |-> st.columns[c]]
           B == [k \in {k \in DOMAIN st.constraints : st.constraints[k].add # <<>>} |->
                   [st.constraints[k] EXCEPT !.drop = FALSE]]
           cols == [c \in DOMAIN d.columns |-> ColumnAction(d.columns[c])]
           cons == [k \in DOMAIN d.constraints |-> ConstraintAction(d.constraints[k])]
<1>1. st = [op |-> "AlterTable", table |-> n, columns |-> cols, constraints |-> cons]
  BY DEF AlterTable
<1>2. /\ \A c : c \in DOMAIN A <=> c \in DOMAIN st.columns /\ st.columns[c].act # "AlterColumn"
      /\ \A c \in DOMAIN A : A[c] = st.columns[c]
      /\ \A k : k \in DOMAIN B <=> k \in DOMAIN st.constraints /\ st.constraints[k].add # <<>>
      /\ \A k \in DOMAIN B : B[k] = [st.constraints[k] EXCEPT !.drop = FALSE]
  <2> HIDE DEF cols, cons
  <2>1. /\ \A c : c \in DOMAIN A <=> c \in DOMAIN st.columns /\ st.columns[c].act # "AlterColumn"
        /\ \A c \in DOMAIN A : A[c] = st.columns[c]
    OBVIOUS
  <2>2. /\ \A k : k \in DOMAIN B <=> k \in DOMAIN st.constraints /\ st.constraints[k].add # <<>>
        /\ \A k \in DOMAIN B : B[k] = [st.constraints[k] EXCEPT !.drop = FALSE]
    OBVIOUS
  <2> QED
    BY <2>1, <2>2
<1>3. w = [st EXCEPT !.columns = A, !.constraints = B]
  BY DEF WithoutUnsupported
<1> HIDE DEF A, B, cols, cons
<1>4. w.op = "AlterTable" /\ w.table = n /\ w.columns = A /\ w.constraints = B
  <2> DEFINE v == [st EXCEPT !.columns = A]
  <2>1. v = [op |-> "AlterTable", table |-> n, columns |-> A, constraints |-> cons]
    BY <1>1
  <2>2. w = [v EXCEPT !.constraints = B]
    BY <1>3
  <2> HIDE DEF v
  <2>3. w = [op |-> "AlterTable", table |-> n, columns |-> A, constraints |-> B]
    BY <2>1, <2>2
  <2> QED
    BY <2>3
<1> QED
  BY <1>2, <1>4

LEMMA ToAlterIs ==
  ASSUME NEW t, NEW n, NEW x
  PROVE  ToAlter(t, n, x).op = "AlterTable" /\ ToAlter(t, n, x).table = n
<1> DEFINE d == Alteration(n, Shown(t, x), x.desired.tables[n])
           st == AlterTable(n, d)
<1>1. ToAlter(t, n, x) = IF x.dialect = "sqlite" THEN WithoutUnsupported(st) ELSE st
  BY DEF ToAlter, FullAlter
<1>2. st.op = "AlterTable" /\ st.table = n
  BY AlterTableIs
<1>3. WithoutUnsupported(st).op = "AlterTable" /\ WithoutUnsupported(st).table = n
  BY WithoutUnsupportedIs
<1> HIDE DEF st
<1> QED
  BY <1>1, <1>2, <1>3

LEMMA OpsAre ==
  ASSUME NEW n, NEW t, NEW k, NEW i
  PROVE  /\ CreateTable(n, t).op = "CreateTable" /\ CreateTable(n, t).table = n
         /\ DropTable(n).op = "DropTable" /\ DropTable(n).table = n
         /\ CreateIndex(k, i).op = "CreateIndex" /\ CreateIndex(k, i).table = k[1]
         /\ CreateIndex(k, i).name = k[2] /\ CreateIndex(k, i).index = i
         /\ DropIndex(k).op = "DropIndex" /\ DropIndex(k).table = k[1] /\ DropIndex(k).name = k[2]
<1>1. CreateTable(n, t).op = "CreateTable" /\ CreateTable(n, t).table = n
  BY DEF CreateTable
<1> QED
  BY <1>1 DEF DropTable, CreateIndex, DropIndex

LEMMA PlanIs ==
  ASSUME NEW s, TypedCatalog(s), NEW x, NEW st
  PROVE  st \in StatementsForDialect(PlanOperations(DiffSchema(LoadedFrom(s, x), x.desired)), x.dialect)
           <=> Planned(s, x, st)
<1> DEFINE des == x.desired
           cur == LoadedFrom(s, x)
           ops == PlanOperations(DiffSchema(cur, des))
           Alters_(a) == \E n \in DOMAIN s.tables \cap DOMAIN des.tables :
                           /\ Differs(Shown(s.tables[n], x), des.tables[n])
                           /\ a = FullAlter(s.tables[n], n, x)
           Other(a) ==
             \/ \E n \in DOMAIN des.tables \ DOMAIN s.tables : a = CreateTable(n, des.tables[n])
             \/ \E n \in DOMAIN s.tables \ DOMAIN des.tables : a = DropTable(n)
             \/ \E k \in DOMAIN des.indices :
                  /\ ~ (k \in DOMAIN s.indices /\ s.indices[k] = des.indices[k])
                  /\ a = CreateIndex(k, des.indices[k])
             \/ \E k \in DOMAIN s.indices \ DOMAIN des.indices : a = DropIndex(k)
<1>1. /\ DOMAIN cur.tables = DOMAIN s.tables
      /\ cur.indices = s.indices
      /\ \A n \in DOMAIN s.tables : cur.tables[n] = Shown(s.tables[n], x)
  BY LoadedIs
<1>2. ASSUME NEW a
      PROVE  a \in ops <=> Alters_(a) \/ Other(a)
  <2> HIDE DEF cur
  <2>1. a \in ops <=>
           \/ \E n \in DOMAIN des.tables \ DOMAIN cur.tables : a = CreateTable(n, des.tables[n])
           \/ \E n \in DOMAIN cur.tables \ DOMAIN des.tables : a = [op |-> "DropTable", table |-> n]
           \/ \E n \in DOMAIN cur.tables \cap DOMAIN des.tables :
                /\ Differs(cur.tables[n], des.tables[n])
                /\ a = AlterTable(n, Alteration(n, cur.tables[n], des.tables[n]))
           \/ \E k \in DOMAIN des.indices :
                /\ ~ (k \in DOMAIN cur.indices /\ cur.indices[k] = des.indices[k])
                /\ a = CreateIndex(k, des.indices[k])
           \/ \E k \in DOMAIN cur.indices \ DOMAIN des.indices :
                a = [op |-> "DropIndex", table |-> k[1], name |-> k[2]]
    BY PlannedIs
  <2>2. (\E n \in DOMAIN cur.tables \cap DOMAIN des.tables :
                /\ Differs(cur.tables[n], des.tables[n])
                /\ a = AlterTable(n, Alteration(n, cur.tables[n], des.tables[n])))
         <=> Alters_(a)
    BY <1>1 DEF FullAlter
  <2> QED
    BY <1>1, <2>1, <2>2 DEF DropTable, DropIndex
<1>3. ASSUME NEW a
      PROVE  /\ Alters_(a) => a.op = "AlterTable"
             /\ Other(a) => a.op # "AlterTable"
  <2>1. Alters_(a) => a.op = "AlterTable"
    BY AlterTableIs DEF FullAlter
  <2>2. Other(a) => a.op # "AlterTable"
    <3>1. \A n : CreateTable(n, des.tables[n]).op = "CreateTable"
      BY OpsAre
    <3>2. \A k : CreateIndex(k, des.indices[k]).op = "CreateIndex"
      BY OpsAre
    <3>3. \A n : DropTable(n).op = "DropTable" /\ DropIndex(n).op = "DropIndex"
      BY OpsAre
    <3> QED
      BY <3>1, <3>2, <3>3
  <2> QED
    BY <2>1, <2>2
<1>4. Planned(s, x, st) <=>
        \/ Other(st)
        \/ \E n \in DOMAIN s.tables \cap DOMAIN des.tables :
             Needs(s.tables[n], n, x) /\ st = ToAlter(s.tables[n], n, x)
  BY DEF Planned
<1> HIDE DEF Other, ops
<1>5. CASE x.dialect # "sqlite"
  <2>1. StatementsForDialect(ops, x.dialect) = ops
    BY <1>5 DEF StatementsForDialect
  <2>2. Alters_(st) <=> \E n \in DOMAIN s.tables \cap DOMAIN des.tables :
             Needs(s.tables[n], n, x) /\ st = ToAlter(s.tables[n], n, x)
    BY <1>5 DEF Needs, ToAlter
  <2> QED
    BY <1>2, <1>4, <2>1, <2>2 DEF ops
<1>6. CASE x.dialect = "sqlite"
  <2>1. st \in StatementsForDialect(ops, x.dialect)
          <=> \/ st \in ops /\ st.op # "AlterTable"
              \/ \E a \in ops : a.op = "AlterTable" /\ st = WithoutUnsupported(a) /\ ~ NoActions(st)
    BY <1>6 DEF StatementsForDialect, Alters
  <2>2. (st \in ops /\ st.op # "AlterTable") <=> Other(st)
    BY <1>2, <1>3
  <2>3. (\E a \in ops : a.op = "AlterTable" /\ st = WithoutUnsupported(a) /\ ~ NoActions(st))
          <=> \E n \in DOMAIN s.tables \cap DOMAIN des.tables :
                Needs(s.tables[n], n, x) /\ st = ToAlter(s.tables[n], n, x)
    <3>1. ASSUME NEW a \in ops, a.op = "AlterTable", st = WithoutUnsupported(a), ~ NoActions(st)
          PROVE  \E n \in DOMAIN s.tables \cap DOMAIN des.tables :
                   Needs(s.tables[n], n, x) /\ st = ToAlter(s.tables[n], n, x)
      <4>1. Alters_(a)
        BY <1>2, <1>3, <3>1
      <4> QED
        BY <1>6, <3>1, <4>1 DEF Needs, ToAlter
    <3>2. ASSUME NEW n \in DOMAIN s.tables \cap DOMAIN des.tables,
                 Needs(s.tables[n], n, x), st = ToAlter(s.tables[n], n, x)
          PROVE  \E a \in ops : a.op = "AlterTable" /\ st = WithoutUnsupported(a) /\ ~ NoActions(st)
      <4> DEFINE a == FullAlter(s.tables[n], n, x)
      <4>1. Alters_(a) /\ st = WithoutUnsupported(a) /\ ~ NoActions(st)
        BY <1>6, <3>2 DEF Needs, ToAlter
      <4> HIDE DEF a
      <4> QED
        BY <1>2, <1>3, <4>1
    <3> QED
      BY <3>1, <3>2
  <2> QED
    BY <1>4, <2>1, <2>2, <2>3 DEF ops
<1> QED
  BY <1>5, <1>6

-----------------------------------------------------------------------------
(* What an ALTER TABLE that is planned for the table t acts on.            *)

ChangedColumns(t, d, x) ==
  {c \in DOMAIN t.columns \cap DOMAIN d.columns : Changed(Shown(t, x).columns[c], d.columns[c]) # {}}

ColumnsAltered(st, t, d, x) ==
  /\ Acting(st, "AddColumn") = DOMAIN d.columns \ DOMAIN t.columns
  /\ Acting(st, "DropColumn") = DOMAIN t.columns \ DOMAIN d.columns
  /\ Acting(st, "AlterColumn") = IF x.dialect = "sqlite" THEN {} ELSE ChangedColumns(t, d, x)
  /\ \A c \in DOMAIN st.columns : st.columns[c].act \in {"AddColumn", "DropColumn", "AlterColumn"}
  /\ \A c \in Acting(st, "AddColumn") : st.columns[c].def = ColumnDef(d.columns[c])
  /\ \A c \in Acting(st, "AlterColumn") :
       /\ st.columns[c].type = IF t.columns[c].type # d.columns[c].type THEN <<d.columns[c].type>> ELSE <<>>
       /\ st.columns[c].default = IF Shown(t, x).columns[c].default # d.columns[c].default
                                  THEN <<d.columns[c].default>> ELSE <<>>
       /\ st.columns[c].nullable = d.columns[c].nullable

LEMMA ToAlterColumns ==
  ASSUME NEW t, TypedTable(t), NEW n, NEW x, DefinedTable(x.desired.tables[n])
  PROVE  ColumnsAltered(ToAlter(t, n, x), t, x.desired.tables[n], x)
<1> DEFINE d == x.desired.tables[n]
           cur == Shown(t, x).columns
           des == d.columns
           diff == DiffColumns(cur, des)
           full == FullAlter(t, n, x)
           st == ToAlter(t, n, x)
<1>1. /\ DOMAIN cur = DOMAIN t.columns
      /\ \A c \in DOMAIN t.columns : cur[c].type = t.columns[c].type
  BY ShownIs
<1>2. \A c \in DOMAIN des : des[c] \in CatalogColumns
  BY DEF DefinedTable, TypedTable
<1>3. /\ DOMAIN full.columns = DOMAIN diff
      /\ \A c \in DOMAIN full.columns : full.columns[c] = ColumnAction(diff[c])
  <2>1. Alteration(n, Shown(t, x), d).columns = diff
    BY DEF Alteration
  <2> QED
    BY <2>1, AlterTableIs DEF FullAlter
<1>4. /\ \A c : c \in DOMAIN diff <=> /\ c \in DOMAIN cur \cup DOMAIN des
                                      /\ c \in DOMAIN cur /\ c \in DOMAIN des => Changed(cur[c], des[c]) # {}
      /\ \A c \in DOMAIN diff : diff[c] = ColumnDiff(cur, des, c)
  BY DiffColumnsIs
<1> HIDE DEF diff, cur, des, full, d
<1>5. ASSUME NEW c \in DOMAIN full.columns
      PROVE  /\ c \notin DOMAIN cur => full.columns[c].act = "AddColumn" /\ full.columns[c].def = ColumnDef(des[c])
             /\ c \notin DOMAIN des => full.columns[c].act = "DropColumn"
             /\ c \in DOMAIN cur /\ c \in DOMAIN des
                  => /\ full.columns[c].act = "AlterColumn"
                     /\ full.columns[c].type = IF cur[c].type # des[c].type THEN <<des[c].type>> ELSE <<>>
                     /\ full.columns[c].default = IF cur[c].default # des[c].default THEN <<des[c].default>> ELSE <<>>
                     /\ full.columns[c].nullable = des[c].nullable
  <2> DEFINE a == full.columns[c]
  <2>1. a = ColumnAction(ColumnDiff(cur, des, c)) /\ (c \in DOMAIN cur \/ c \in DOMAIN des)
    BY <1>3, <1>4
  <2> HIDE DEF a
  <2>2. /\ c \notin DOMAIN cur => a.act = "AddColumn" /\ a.def = ColumnDef(des[c])
        /\ c \notin DOMAIN des => a.act = "DropColumn"
        /\ c \in DOMAIN cur /\ c \in DOMAIN des
             => /\ a.act = "AlterColumn"
                /\ a.type = IF cur[c].type # des[c].type THEN <<des[c].type>> ELSE <<>>
                /\ a.default = IF cur[c].default # des[c].default THEN <<des[c].default>> ELSE <<>>
                /\ a.nullable = des[c].nullable
    BY <1>2, <2>1, ColumnActionIs
  <2> QED
    BY <2>2 DEF a
<1>6. \A c : c \in DOMAIN full.columns
               <=> \/ c \in DOMAIN des \ DOMAIN cur
                   \/ c \in DOMAIN cur \ DOMAIN des
                   \/ c \in DOMAIN cur \cap DOMAIN des /\ Changed(cur[c], des[c]) # {}
  BY <1>3, <1>4
<1>a. \A c \in DOMAIN full.columns :
        /\ full.columns[c].act = "AddColumn" <=> c \in DOMAIN des \ DOMAIN cur
        /\ full.columns[c].act = "DropColumn" <=> c \in DOMAIN cur \ DOMAIN des
        /\ full.columns[c].act = "AlterColumn" <=> c \in DOMAIN cur \cap DOMAIN des
  <2> SUFFICES ASSUME NEW c \in DOMAIN full.columns
               PROVE  /\ full.columns[c].act = "AddColumn" <=> c \in DOMAIN des \ DOMAIN cur
                      /\ full.columns[c].act = "DropColumn" <=> c \in DOMAIN cur \ DOMAIN des
                      /\ full.columns[c].act = "AlterColumn" <=> c \in DOMAIN cur \cap DOMAIN des
    OBVIOUS
  <2>1. c \in DOMAIN cur \/ c \in DOMAIN des
    BY <1>6
  <2> QED
    BY <1>5, <2>1
<1>7. CASE x.dialect # "sqlite"
  <2>1. st = full
    BY <1>7 DEF ToAlter, full
  <2>2. Acting(st, "AddColumn") = DOMAIN des \ DOMAIN cur
    <3>1. \A c : c \in DOMAIN des \ DOMAIN cur => c \in DOMAIN full.columns
      BY <1>6
    <3> QED
      BY <1>a, <2>1, <3>1 DEF Acting
  <2>3. Acting(st, "DropColumn") = DOMAIN cur \ DOMAIN des
    BY <1>5, <1>6, <2>1 DEF Acting
  <2>4. Acting(st, "AlterColumn") = {c \in DOMAIN cur \cap DOMAIN des : Changed(cur[c], des[c]) # {}}
    BY <1>5, <1>6, <2>1 DEF Acting
  <2>5. \A c \in DOMAIN st.columns : st.columns[c].act \in {"AddColumn", "DropColumn", "AlterColumn"}
    BY <1>5, <2>1
  <2>6. \A c \in Acting(st, "AddColumn") : st.columns[c].def = ColumnDef(des[c])
    BY <1>5, <2>1 DEF Acting
  <2>7. \A c \in Acting(st, "AlterColumn") :
          /\ st.columns[c].type = IF t.columns[c].type # des[c].type THEN <<des[c].type>> ELSE <<>>
          /\ st.columns[c].default = IF cur[c].default # des[c].default THEN <<des[c].default>> ELSE <<>>
          /\ st.columns[c].nullable = des[c].nullable
    BY <1>1, <1>5, <2>1 DEF Acting
  <2> HIDE DEF st
  <2> QED
    BY <1>1, <1>7, <2>2, <2>3, <2>4, <2>5, <2>6, <2>7 DEF ColumnsAltered, ChangedColumns, cur, des, d, st
<1>8. CASE x.dialect = "sqlite"
  <2>1. /\ \A c : c \in DOMAIN st.columns <=> c \in DOMAIN full.columns /\ full.columns[c].act # "AlterColumn"
        /\ \A c \in DOMAIN st.columns : st.columns[c] = full.columns[c]
    BY <1>8, WithoutUnsupportedIs DEF ToAlter, FullAlter, full
  <2> HIDE DEF st
  <2>2. Acting(st, "AddColumn") = DOMAIN des \ DOMAIN cur
    <3>1. \A c : c \in DOMAIN des \ DOMAIN cur => c \in DOMAIN full.columns
      BY <1>6
    <3>2. \A c : c \in DOMAIN des \ DOMAIN cur => full.columns[c].act = "AddColumn"
      BY <1>a, <3>1
    <3>3. \A c : c \in DOMAIN des \ DOMAIN cur => c \in DOMAIN st.columns /\ st.columns[c].act = "AddColumn"
      BY <2>1, <3>1, <3>2
    <3>4. \A c \in DOMAIN st.columns : st.columns[c].act = "AddColumn" => c \in DOMAIN des \ DOMAIN cur
      BY <1>a, <2>1
    <3> QED
      BY <3>3, <3>4 DEF Acting
  <2>3. Acting(st, "DropColumn") = DOMAIN cur \ DOMAIN des
    BY <1>5, <1>6, <2>1 DEF Acting
  <2>4. Acting(st, "AlterColumn") = {}
    BY <2>1 DEF Acting
  <2>5. \A c \in DOMAIN st.columns : st.columns[c].act \in {"AddColumn", "DropColumn", "AlterColumn"}
    BY <1>5, <2>1
  <2>6. \A c \in Acting(st, "AddColumn") : st.columns[c].def = ColumnDef(des[c])
    BY <1>5, <2>1 DEF Acting
  <2> QED
    BY <1>1, <1>8, <2>2, <2>3, <2>4, <2>5, <2>6 DEF ColumnsAltered, cur, des, d, st
<1> QED
  BY <1>7, <1>8

(* The keys of the constraints, as the program sees them and as desired.   *)
ByName(t) == ConstraintsByName(t.constraints)

Same(f, g, k) == k \in DOMAIN f /\ k \in DOMAIN g /\ f[k] = g[k]

ConstraintsAltered(st, t, d, x) ==
  LET cur == ByName(Shown(t, x))
      des == ByName(d)
  IN  /\ Dropped(st) = IF x.dialect = "sqlite" THEN {} ELSE {k \in DOMAIN cur : ~Same(cur, des, k)}
      /\ \A k : (k \in DOMAIN st.constraints /\ st.constraints[k].add # <<>>)
                  <=> k \in DOMAIN des /\ ~Same(cur, des, k)
      /\ \A tc : tc \in Added(st) <=> \E k \in DOMAIN des : ~Same(cur, des, k) /\ tc = des[k]
      /\ \A k \in DOMAIN st.constraints :
           \/ k \in DOMAIN des /\ ~Same(cur, des, k)
           \/ x.dialect # "sqlite" /\ k \in DOMAIN cur /\ ~Same(cur, des, k)
      /\ \A k \in DOMAIN st.constraints : st.constraints[k].drop => k \in Dropped(st)

LEMMA ToAlterConstraints ==
  ASSUME NEW t, NEW n, NEW x
  PROVE  ConstraintsAltered(ToAlter(t, n, x), t, x.desired.tables[n], x)
<1> DEFINE d == x.desired.tables[n]
           cur == ByName(Shown(t, x))
           des == ByName(d)
           diff == DiffByKey(cur, des)
           full == FullAlter(t, n, x)
           st == ToAlter(t, n, x)
<1>1. /\ DOMAIN full.constraints = DOMAIN diff
      /\ \A k \in DOMAIN full.constraints : full.constraints[k] = ConstraintAction(diff[k])
  <2>1. Alteration(n, Shown(t, x), d).constraints = diff
    BY DEF Alteration, DiffConstraints, ByName
  <2> QED
    BY <2>1, AlterTableIs DEF FullAlter
<1>2. /\ \A k : k \in DOMAIN diff <=> k \in DOMAIN cur \cup DOMAIN des /\ ~Same(cur, des, k)
      /\ \A k \in DOMAIN diff : diff[k] = Diff1(cur, des, k)
  BY DiffByKeyIs DEF Same
<1> HIDE DEF diff, cur, des, full, d
<1>3. ASSUME NEW k \in DOMAIN full.constraints
      PROVE  /\ full.constraints[k].drop <=> k \in DOMAIN cur
             /\ full.constraints[k].add = IF k \in DOMAIN des THEN <<des[k]>> ELSE <<>>
  <2> DEFINE a == full.constraints[k]
  <2>1. a = ConstraintAction(Diff1(cur, des, k)) /\ (k \in DOMAIN cur \/ k \in DOMAIN des)
    BY <1>1, <1>2
  <2> HIDE DEF a
  <2>2. /\ a.drop <=> k \in DOMAIN cur
        /\ a.add = IF k \in DOMAIN des THEN <<des[k]>> ELSE <<>>
    BY <2>1, ConstraintActionIs
  <2> QED
    BY <2>2 DEF a
<1>4. \A k : k \in DOMAIN full.constraints <=> k \in DOMAIN cur \cup DOMAIN des /\ ~Same(cur, des, k)
  BY <1>1, <1>2
<1>5. \A k \in DOMAIN full.constraints :
        /\ full.constraints[k].add # <<>> <=> k \in DOMAIN des
        /\ k \in DOMAIN des => full.constraints[k].add[1] = des[k]
  <2> SUFFICES ASSUME NEW k \in DOMAIN full.constraints
               PROVE  /\ full.constraints[k].add # <<>> <=> k \in DOMAIN des
                      /\ k \in DOMAIN des => full.constraints[k].add[1] = des[k]
    OBVIOUS
  <2>1. full.constraints[k].add = IF k \in DOMAIN des THEN <<des[k]>> ELSE <<>>
    BY <1>3
  <2>2. CASE k \in DOMAIN des
    <3>1. full.constraints[k].add = <<des[k]>>
      BY <2>1, <2>2
    <3> QED
      BY <2>2, <3>1
  <2>3. CASE k \notin DOMAIN des
    BY <2>1, <2>3
  <2> QED
    BY <2>2, <2>3
<1>6. CASE x.dialect # "sqlite"
  <2>1. st = full
    BY <1>6 DEF ToAlter, full
  <2>2. Dropped(st) = {k \in DOMAIN cur : ~Same(cur, des, k)}
    BY <1>3, <1>4, <2>1 DEF Dropped
  <2>3. \A k : (k \in DOMAIN st.constraints /\ st.constraints[k].add # <<>>)
                  <=> k \in DOMAIN des /\ ~Same(cur, des, k)
    BY <1>4, <1>5, <2>1
  <2>4. \A tc : tc \in Added(st) <=> \E k \in DOMAIN des : ~Same(cur, des, k) /\ tc = des[k]
    BY <1>4, <1>5, <2>1 DEF Added
  <2>5. \A k \in DOMAIN st.constraints :
           \/ k \in DOMAIN des /\ ~Same(cur, des, k)
           \/ x.dialect # "sqlite" /\ k \in DOMAIN cur /\ ~Same(cur, des, k)
    BY <1>4, <1>6, <2>1
  <2>6. \A k \in DOMAIN st.constraints : st.constraints[k].drop => k \in Dropped(st)
    BY DEF Dropped
  <2> HIDE DEF st
  <2> QED
    BY <1>6, <2>2, <2>3, <2>4, <2>5, <2>6 DEF ConstraintsAltered, cur, des, d, st
<1>7. CASE x.dialect = "sqlite"
  <2>1. /\ \A k : k \in DOMAIN st.constraints <=> k \in DOMAIN full.constraints /\ full.constraints[k].add # <<>>
        /\ \A k \in DOMAIN st.constraints : st.constraints[k] = [full.constraints[k] EXCEPT !.drop = FALSE]
    BY <1>7, WithoutUnsupportedIs DEF ToAlter, FullAlter, full
  <2>2. \A k \in DOMAIN full.constraints : full.constraints[k] = [drop |-> full.constraints[k].drop, add |-> full.constraints[k].add]
    <3>1. \A e : ConstraintAction(e) = [drop |-> ConstraintAction(e).drop, add |-> ConstraintAction(e).add]
      BY DEF ConstraintAction
    <3> QED
      BY <1>1, <3>1
  <2> HIDE DEF st, full
  <2>3. \A k \in DOMAIN st.constraints : ~ st.constraints[k].drop /\ st.constraints[k].add = full.constraints[k].add
    <3>1. TAKE k \in DOMAIN st.constraints
    <3> DEFINE c == full.constraints[k]
               drop == c.drop
               add == c.add
    <3>2. c = [drop |-> drop, add |-> add] /\ st.constraints[k] = [c EXCEPT !.drop = FALSE]
      BY <2>1, <2>2
    <3> HIDE DEF c, drop, add
    <3>3. st.constraints[k] = [drop |-> FALSE, add |-> add]
      BY <3>2
    <3> QED
      BY <3>3 DEF add, c
  <2>4. \A k : k \in DOMAIN st.constraints <=> k \in DOMAIN des /\ ~Same(cur, des, k)
    BY <1>4, <1>5, <2>1
  <2>5. \A k \in DOMAIN st.constraints : st.constraints[k].add # <<>> /\ st.constraints[k].add[1] = des[k]
    BY <1>5, <2>1, <2>3, <2>4
  <2>6. Dropped(st) = {}
    BY <2>3 DEF Dropped
  <2>7. \A tc : tc \in Added(st) <=> \E k \in DOMAIN des : ~Same(cur, des, k) /\ tc = des[k]
    BY <2>4, <2>5 DEF Added
  <2> QED
    BY <1>7, <2>3, <2>4, <2>5, <2>6, <2>7 DEF ConstraintsAltered, cur, des, d, st
<1> QED
  BY <1>6, <1>7

-----------------------------------------------------------------------------
(* A list with the members of a set after it.                              *)

LEMMA ListRangeFinite ==
  ASSUME NEW l, IsList(l)
  PROVE  IsFiniteSet({l[i] : i \in DOMAIN l})
<1> DEFINE f == [i \in DOMAIN l |-> l[i]]
           R == {l[i] : i \in DOMAIN l}
<1>1. PICK n \in Nat : DOMAIN l \subseteq 1 .. n
  BY ListBound
<1>2. IsFiniteSet(DOMAIN l)
  <2>1. IsFiniteSet(1 .. n)
    BY FS_Interval
  <2>2. DOMAIN l \in SUBSET (1 .. n)
    BY <1>1
  <2> QED
    BY <2>1, <2>2, FS_Subset
<1>3. f \in Surjection(DOMAIN l, R)
  <2>1. f \in [DOMAIN l -> R]
    OBVIOUS
  <2>2. \A y \in R : \E i \in DOMAIN l : f[i] = y
    OBVIOUS
  <2> QED
    BY <2>1, <2>2 DEF Surjection
<1> QED
  BY <1>2, <1>3, FS_Surjection

LEMMA SetToSeqIs ==
  ASSUME NEW S, IsFiniteSet(S)
  PROVE  /\ Cardinality(S) \in Nat
         /\ DOMAIN SetToSeq(S) = 1 .. Cardinality(S)
         /\ \A i \in 1 .. Cardinality(S) : SetToSeq(S)[i] \in S
         /\ \A i, j \in 1 .. Cardinality(S) : SetToSeq(S)[i] = SetToSeq(S)[j] => i = j
         /\ \A y \in S : \E i \in 1 .. Cardinality(S) : SetToSeq(S)[i] = y
<1> DEFINE I == 1 .. Cardinality(S)
           f == SetToSeq(S)
<1>1. Cardinality(S) \in Nat /\ ExistsBijection(I, S)
  BY FS_CardinalityType
<1>2. \E g \in [I -> S] : IsInjective(g)
  BY <1>1 DEF ExistsBijection, Bijection, Injection
<1>3. f \in [I -> S] /\ IsInjective(f)
  BY <1>2 DEF SetToSeq
<1>4. Cardinality(I) = Cardinality(S)
  BY <1>1, FS_Interval
<1> HIDE DEF f
<1>5. f \in Surjection(I, S)
  BY <1>3, <1>4, FS_Injection DEF Injection
<1>6. \A y \in S : \E i \in I : f[i] = y
  BY <1>5 DEF Surjection
<1> QED
  BY <1>1, <1>3, <1>6 DEF IsInjective, f

IsExtension(e, l, S) ==
  /\ IsList(e)
  /\ DOMAIN l \subseteq DOMAIN e
  /\ \A i \in DOMAIN l : e[i] = l[i]
  /\ \A i \in DOMAIN e \ DOMAIN l : e[i] \in S /\ \A j \in DOMAIN l : j < i
  /\ \A i, j \in DOMAIN e \ DOMAIN l : e[i] = e[j] => i = j
  /\ \A y \in S : \E i \in DOMAIN e \ DOMAIN l : e[i] = y

(* The members come after the list, each of them once.                     *)
LEMMA ExtendedIs ==
  ASSUME NEW l, IsList(l), NEW S, IsFiniteSet(S)
  PROVE  IsExtension(Extended(l, S), l, S)
<1> DEFINE end == Max({0} \cup DOMAIN l)
           new == SetToSeq(S)
           N == Cardinality(S)
           e == Extended(l, S)
<1>1. /\ N \in Nat
      /\ DOMAIN new = 1 .. N
      /\ \A i \in 1 .. N : new[i] \in S
      /\ \A i, j \in 1 .. N : new[i] = new[j] => i = j
      /\ \A y \in S : \E i \in 1 .. N : new[i] = y
  BY SetToSeqIs
<1>2. end \in Nat /\ \A j \in DOMAIN l : j <= end
  <2>1. PICK n \in Nat : DOMAIN l \subseteq 1 .. n
    BY ListBound
  <2>2. \E i \in {0} \cup DOMAIN l : \A j \in {0} \cup DOMAIN l : i >= j
    <3>1. CASE DOMAIN l = {}
      BY <3>1
    <3>2. CASE DOMAIN l # {}
      <4>1. PICK i \in DOMAIN l : \A j \in DOMAIN l : j <= i
        BY <2>1, <3>2, GreatestElement
      <4> QED
        BY <2>1, <4>1
    <3> QED
      BY <3>1, <3>2
  <2>3. end \in {0} \cup DOMAIN l /\ \A j \in {0} \cup DOMAIN l : end >= j
    BY <2>2 DEF Max
  <2> HIDE DEF end
  <2> QED
    BY <2>1, <2>3
<1>3. e = [i \in DOMAIN l \cup {end + j : j \in DOMAIN new} |-> IF i \in DOMAIN l THEN l[i] ELSE new[i - end]]
  BY DEF Extended
<1>4. PICK n \in Nat : DOMAIN l \subseteq 1 .. n
  BY ListBound
<1> HIDE DEF end, new, N, e
<1>5. DOMAIN e = DOMAIN l \cup {end + j : j \in 1 .. N}
  BY <1>1, <1>3
<1>6. \A i \in DOMAIN l : i \in DOMAIN e /\ e[i] = l[i]
  BY <1>3
<1>7. \A j \in 1 .. N : /\ end + j \in DOMAIN e \ DOMAIN l
                        /\ e[end + j] = new[j]
  <2> SUFFICES ASSUME NEW j \in 1 .. N
               PROVE  end + j \in DOMAIN e \ DOMAIN l /\ e[end + j] = new[j]
    OBVIOUS
  <2>1. end + j \notin DOMAIN l /\ (end + j) - end = j
    BY <1>1, <1>2, <1>4
  <2> QED
    BY <1>1, <1>3, <1>5, <2>1
<1>8. ASSUME NEW i \in DOMAIN e \ DOMAIN l
      PROVE  \E j \in 1 .. N : i = end + j
  BY <1>5
<1>9. IsList(e)
  <2>1. DOMAIN e \subseteq 1 .. (end + N)
    BY <1>1, <1>2, <1>4, <1>5
  <2> QED
    BY <1>1, <1>2, <2>1, BoundedIsList
<1>10. ASSUME NEW i \in DOMAIN e \ DOMAIN l
       PROVE  e[i] \in S /\ \A j \in DOMAIN l : j < i
  <2>1. PICK j \in 1 .. N : i = end + j
    BY <1>8
  <2> QED
    BY <1>1, <1>2, <1>4, <1>7, <2>1
<1>11. ASSUME NEW i \in DOMAIN e \ DOMAIN l, NEW j \in DOMAIN e \ DOMAIN l, e[i] = e[j]
       PROVE  i = j
  <2>1. PICK a \in 1 .. N : i = end + a
    BY <1>8
  <2>2. PICK b \in 1 .. N : j = end + b
    BY <1>8
  <2> QED
    BY <1>1, <1>7, <1>11, <2>1, <2>2
<1>12. ASSUME NEW y \in S
       PROVE  \E i \in DOMAIN e \ DOMAIN l : e[i] = y
  BY <1>1, <1>7
<1> QED
  BY <1>6, <1>9, <1>10, <1>11, <1>12 DEF IsExtension, e

-----------------------------------------------------------------------------
(* The table t once an ALTER TABLE that was planned for it is applied.     *)

Altering(t, n, st, x) ==
  /\ TypedInput(x)
  /\ x.dialect = dialect
  /\ n \in DOMAIN x.desired.tables
  /\ TypedTable(t)
  /\ ~Malformed(t)
  /\ st = ToAlter(t, n, x)
  /\ ~CannotAlter(t, st)

LEMMA AlteringIs ==
  ASSUME NEW t, NEW n, NEW st, NEW x, Altering(t, n, st, x)
  PROVE  /\ ColumnsAltered(st, t, x.desired.tables[n], x)
         /\ ConstraintsAltered(st, t, x.desired.tables[n], x)
         /\ DefinedTable(x.desired.tables[n])
         /\ TypedTable(x.desired.tables[n])
         /\ TypedTable(t)
<1>1. DefinedTable(x.desired.tables[n]) /\ TypedTable(x.desired.tables[n])
  BY DEF Altering, TypedInput, DefinedTable
<1>2. TypedTable(t) /\ st = ToAlter(t, n, x)
  BY DEF Altering
<1> QED
  BY <1>1, <1>2, ToAlterColumns, ToAlterConstraints

(* The three kinds of columns an ALTER TABLE acts on.                      *)
LEMMA AlteredColumns ==
  ASSUME NEW t, NEW n, NEW st, NEW x, Altering(t, n, st, x), NEW d, d = x.desired.tables[n]
  PROVE  /\ Acting(st, "AddColumn") = DOMAIN d.columns \ DOMAIN t.columns
         /\ Acting(st, "DropColumn") = DOMAIN t.columns \ DOMAIN d.columns
         /\ Acting(st, "AlterColumn") = IF x.dialect = "sqlite" THEN {} ELSE ChangedColumns(t, d, x)
<1>1. ColumnsAltered(st, t, d, x)
  BY AlteringIs
<1> QED
  BY <1>1 DEF ColumnsAltered

LEMMA ColumnsAfterDomain ==
  ASSUME NEW t, NEW n, NEW st, NEW x, Altering(t, n, st, x)
  PROVE  DOMAIN ColumnsAfter(t, st) = DOMAIN x.desired.tables[n].columns
<1> DEFINE d == x.desired.tables[n]
<1>1. /\ Acting(st, "AddColumn") = DOMAIN d.columns \ DOMAIN t.columns
      /\ Acting(st, "DropColumn") = DOMAIN t.columns \ DOMAIN d.columns
  BY AlteredColumns
<1>2. DOMAIN ColumnsAfter(t, st) = (DOMAIN t.columns \cup Acting(st, "AddColumn")) \ Acting(st, "DropColumn")
  BY DEF ColumnsAfter
<1> QED
  BY <1>1, <1>2

LEMMA AddedColumnIs ==
  ASSUME NEW t, NEW n, NEW st, NEW x, Altering(t, n, st, x),
         NEW d, d = x.desired.tables[n],
         NEW c \in DOMAIN d.columns \ DOMAIN t.columns,
         NEW is, is = ColumnsAfter(t, st)[c]
  PROVE  is = d.columns[c]
<1>1. /\ Acting(st, "AddColumn") = DOMAIN d.columns \ DOMAIN t.columns
      /\ Acting(st, "DropColumn") = DOMAIN t.columns \ DOMAIN d.columns
      /\ \A e \in Acting(st, "AddColumn") : st.columns[e].def = ColumnDef(d.columns[e])
  <2>1. ColumnsAltered(st, t, d, x)
    BY AlteringIs
  <2> QED
    BY <2>1 DEF ColumnsAltered
<1>2. c \in (DOMAIN t.columns \cup Acting(st, "AddColumn")) \ Acting(st, "DropColumn")
  BY <1>1
<1>3. is = CatalogColumn(st.columns[c].def)
  BY <1>1, <1>2 DEF ColumnsAfter
<1>4. d.columns[c] \in CatalogColumns /\ "AutoIncrement" \notin d.columns[c].attrs
  BY AlteringIs DEF DefinedTable, TypedTable
<1>5. st.columns[c].def = ColumnDef(d.columns[c])
  BY <1>1
<1> QED
  BY <1>3, <1>4, <1>5, ColumnRoundTrip

LEMMA KeptColumnIs ==
  ASSUME NEW t, NEW n, NEW st, NEW x, Altering(t, n, st, x),
         NEW d, d = x.desired.tables[n],
         NEW c \in DOMAIN d.columns \cap DOMAIN t.columns, c \notin Acting(st, "AlterColumn"),
         NEW is, is = ColumnsAfter(t, st)[c]
  PROVE  is = t.columns[c]
<1>1. /\ Acting(st, "AddColumn") = DOMAIN d.columns \ DOMAIN t.columns
      /\ Acting(st, "DropColumn") = DOMAIN t.columns \ DOMAIN d.columns
  BY AlteredColumns
<1>2. /\ c \in (DOMAIN t.columns \cup Acting(st, "AddColumn")) \ Acting(st, "DropColumn")
      /\ c \notin Acting(st, "AddColumn")
  BY <1>1
<1> QED
  BY <1>2 DEF ColumnsAfter

LEMMA AlteredColumnIs ==
  ASSUME NEW t, NEW n, NEW st, NEW x, Altering(t, n, st, x),
         NEW d, d = x.desired.tables[n],
         NEW c \in Acting(st, "AlterColumn"),
         NEW is, is = ColumnsAfter(t, st)[c]
  PROVE  /\ is \in CatalogColumns
         /\ is.type = d.columns[c].type
         /\ is.nullable = d.columns[c].nullable
         /\ is.default = IF Shown(t, x).columns[c].default # d.columns[c].default THEN d.columns[c].default
                         ELSE IF x.dialect = "mysql" THEN 0 ELSE t.columns[c].default
         /\ x.dialect # "sqlite"
         /\ c \in DOMAIN t.columns \cap DOMAIN d.columns
<1> DEFINE a == st.columns[c]
           col == t.columns[c]
           asked == d.columns[c]
           shown == Shown(t, x).columns[c].default
           ty == IF a.type = <<>> THEN col.type ELSE a.type[1]
           de == IF a.default # <<>> THEN a.default[1] ELSE IF dialect = "mysql" THEN 0 ELSE col.default
           id == IF dialect = "mysql" THEN FALSE ELSE col.identity
<1>1. /\ Acting(st, "AddColumn") = DOMAIN d.columns \ DOMAIN t.columns
      /\ Acting(st, "DropColumn") = DOMAIN t.columns \ DOMAIN d.columns
      /\ Acting(st, "AlterColumn") = IF x.dialect = "sqlite" THEN {} ELSE ChangedColumns(t, d, x)
      /\ a.type = IF col.type # asked.type THEN <<asked.type>> ELSE <<>>
      /\ a.default = IF shown # asked.default THEN <<asked.default>> ELSE <<>>
      /\ a.nullable = asked.nullable
  <2>1. ColumnsAltered(st, t, d, x)
    BY AlteringIs
  <2> QED
    BY <2>1 DEF ColumnsAltered
<1>2. /\ x.dialect # "sqlite"
      /\ c \in DOMAIN t.columns \cap DOMAIN d.columns
      /\ x.dialect = dialect
  BY <1>1 DEF ChangedColumns, Altering
<1>3. col \in CatalogColumns /\ asked \in CatalogColumns
  BY <1>2, AlteringIs DEF TypedTable
<1>4. /\ c \in (DOMAIN t.columns \cup Acting(st, "AddColumn")) \ Acting(st, "DropColumn")
      /\ c \notin Acting(st, "AddColumn")
  BY <1>1, <1>2
<1>5. is = [col EXCEPT !.type = ty, !.nullable = a.nullable, !.default = de, !.identity = id]
  BY <1>4 DEF ColumnsAfter
<1> HIDE DEF a, col, asked, shown
<1>6. ty = asked.type
  <2>1. CASE col.type # asked.type
    <3>1. a.type = <<asked.type>>
      BY <1>1, <2>1
    <3> QED
      BY <3>1
  <2>2. CASE col.type = asked.type
    <3>1. a.type = <<>>
      BY <1>1, <2>2
    <3> QED
      BY <2>2, <3>1
  <2> QED
    BY <2>1, <2>2
<1>7. de = IF shown # asked.default THEN asked.default ELSE IF x.dialect = "mysql" THEN 0 ELSE col.default
  <2>1. CASE shown # asked.default
    <3>1. a.default = <<asked.default>>
      BY <1>1, <2>1
    <3> QED
      BY <2>1, <3>1
  <2>2. CASE shown = asked.default
    <3>1. a.default = <<>>
      BY <1>1, <2>2
    <3> QED
      BY <1>2, <2>2, <3>1
  <2> QED
    BY <2>1, <2>2
<1>8. /\ asked.type \in [kind : STRING, size : Nat] /\ asked.nullable \in BOOLEAN
      /\ de \in Nat /\ id \in BOOLEAN
  <2>1. asked.type \in [kind : STRING, size : Nat] /\ asked.nullable \in BOOLEAN /\ asked.default \in Nat
    BY <1>3 DEF CatalogColumns
  <2>2. col.default \in Nat /\ col.identity \in BOOLEAN
    BY <1>3 DEF CatalogColumns
  <2>3. de \in Nat
    BY <1>7, <2>1, <2>2
  <2> HIDE DEF de
  <2>4. id \in BOOLEAN
    BY <2>2
  <2> QED
    BY <2>1, <2>3, <2>4
<1> HIDE DEF ty, de, id
<1>9. is = [col EXCEPT !.type = asked.type, !.nullable = asked.nullable, !.default = de, !.identity = id]
  BY <1>1, <1>5, <1>6
<1>10. /\ is \in CatalogColumns
       /\ is.type = asked.type /\ is.nullable = asked.nullable /\ is.default = de
  BY <1>3, <1>8, <1>9 DEF CatalogColumns
<1> QED
  BY <1>2, <1>7, <1>10 DEF asked, shown, col

-----------------------------------------------------------------------------
(* What it means that a table is as it was asked for, as far as the        *)
(* program and the dialect can see to it.                                  *)

ColumnSettled(is, asked, x) ==
  /\ is.type = asked.type
  /\ is.nullable = asked.nullable
  /\ \/ is.default = asked.default
     \/ x.source = "json" /\ asked.default = 0
     \/ x.dialect = "mysql" /\ is.default = 0

ColumnsSettled(t, n, x, w) ==
  LET d == x.desired.tables[n]
  IN  /\ DOMAIN t.columns = DOMAIN d.columns
      /\ \A c \in DOMAIN t.columns :
           \/ ColumnSettled(t.columns[c], d.columns[c], x)
           \/ x.dialect = "sqlite" /\ <<"alter column", n, c>> \in w

ConstraintsSettled(t, n, x, w) ==
  LET d == x.desired.tables[n]
  IN  /\ x.source = "library" =>
           /\ \A k \in DOMAIN ByName(d) : Same(ByName(t), ByName(d), k)
           /\ \A k \in DOMAIN ByName(t) \ DOMAIN ByName(d) :
                x.dialect = "sqlite" /\ <<"drop constraint", n, k>> \in w
      /\ x.source = "json" => \A k \in DOMAIN ByName(d) : ByName(d)[k] \in ConstraintsOf(t)

TableSettled(t, n, x, w) ==
  /\ ColumnsSettled(t, n, x, w)
  /\ ~Malformed(x.desired.tables[n]) => ConstraintsSettled(t, n, x, w)

(* What SQLite's ALTER TABLE leaves out was announced, and adds no         *)
(* constraint.                                                             *)
LeftOutAnnounced(t, n, x, w) ==
  LET d == x.desired.tables[n]
      shown == ByName(Shown(t, x))
  IN  x.dialect = "sqlite" =>
        /\ \A c \in ChangedColumns(t, d, x) : <<"alter column", n, c>> \in w
        /\ \A k \in DOMAIN ByName(d) : Same(shown, ByName(d), k)
        /\ \A k \in DOMAIN shown \ DOMAIN ByName(d) : <<"drop constraint", n, k>> \in w

(* A column that nothing is planned for is settled.                        *)
LEMMA UnchangedColumnSettled ==
  ASSUME NEW t, TypedTable(t), NEW x, x.source \in Sources, NEW d,
         NEW c \in DOMAIN t.columns \cap DOMAIN d.columns, c \notin ChangedColumns(t, d, x),
         NEW is, is = t.columns[c], NEW asked, asked = d.columns[c]
  PROVE  ColumnSettled(is, asked, x)
<1> DEFINE shown == Shown(t, x).columns[c]
<1>1. Changed(shown, asked) = {}
  BY DEF ChangedColumns
<1>2. shown.type = asked.type /\ shown.nullable = asked.nullable /\ shown.default = asked.default
  BY <1>1, ChangedIs
<1>3. /\ shown.type = is.type /\ shown.nullable = is.nullable
      /\ shown.default = IF x.source = "json" THEN 0 ELSE is.default
  BY ShownIs
<1> HIDE DEF shown
<1> QED
  BY <1>2, <1>3 DEF ColumnSettled, Sources

LEMMA ColumnsSettle ==
  ASSUME NEW t, NEW n, NEW st, NEW x, Altering(t, n, st, x), NEW w, LeftOutAnnounced(t, n, x, w),
         NEW d, d = x.desired.tables[n], NEW c \in DOMAIN d.columns,
         NEW is, is = ColumnsAfter(t, st)[c], NEW asked, asked = d.columns[c]
  PROVE  /\ is \in CatalogColumns
         /\ ColumnSettled(is, asked, x) \/ (x.dialect = "sqlite" /\ <<"alter column", n, c>> \in w)
<1>0. /\ Acting(st, "AlterColumn") = IF x.dialect = "sqlite" THEN {} ELSE ChangedColumns(t, d, x)
      /\ asked \in CatalogColumns
      /\ TypedTable(t)
      /\ x.source \in Sources
  <2>1. ColumnsAltered(st, t, d, x) /\ TypedTable(d) /\ TypedTable(t)
    BY AlteringIs
  <2>2. Acting(st, "AlterColumn") = IF x.dialect = "sqlite" THEN {} ELSE ChangedColumns(t, d, x)
    BY <2>1 DEF ColumnsAltered
  <2>3. asked \in CatalogColumns
    BY <2>1 DEF TypedTable
  <2>4. x.source \in Sources
    BY DEF Altering, TypedInput
  <2> QED
    BY <2>1, <2>2, <2>3, <2>4
<1>1. CASE c \notin DOMAIN t.columns
  <2>1. is = asked
    BY <1>1, AddedColumnIs
  <2> QED
    BY <1>0, <2>1 DEF ColumnSettled
<1>2. CASE c \in Acting(st, "AlterColumn")
  <2> DEFINE shown == Shown(t, x).columns[c].default
  <2>1. /\ is \in CatalogColumns
        /\ is.type = asked.type
        /\ is.nullable = asked.nullable
        /\ is.default = IF shown # asked.default THEN asked.default
                        ELSE IF x.dialect = "mysql" THEN 0 ELSE t.columns[c].default
        /\ c \in DOMAIN t.columns
    BY <1>2, AlteredColumnIs
  <2>2. shown = IF x.source = "json" THEN 0 ELSE t.columns[c].default
    BY <1>0, <2>1, ShownIs
  <2> HIDE DEF shown
  <2> QED
    BY <2>1, <2>2 DEF ColumnSettled
<1>3. CASE c \in DOMAIN t.columns /\ c \notin Acting(st, "AlterColumn")
  <2>1. is = t.columns[c]
    BY <1>3, KeptColumnIs
  <2>2. is \in CatalogColumns
    BY <1>0, <1>3, <2>1 DEF TypedTable
  <2>3. CASE c \in ChangedColumns(t, d, x)
    <3>1. x.dialect = "sqlite"
      BY <1>0, <1>3, <2>3
    <3> QED
      BY <2>2, <2>3, <3>1 DEF LeftOutAnnounced
  <2>4. CASE c \notin ChangedColumns(t, d, x)
    BY <1>0, <1>3, <2>1, <2>2, <2>4, UnchangedColumnSettled
  <2> QED
    BY <2>3, <2>4
<1> QED
  BY <1>1, <1>2, <1>3

-----------------------------------------------------------------------------
(* The constraints of the table after the ALTER TABLE.                     *)

Stays(tc, st) == ~Uses(tc, Acting(st, "DropColumn")) /\ ~(tc.name # 0 /\ Declared(tc.name) \in Dropped(st))

LEMMA KeptIs ==
  ASSUME NEW t, NEW st, IsList(t.constraints)
  PROVE  /\ IsList(Kept(t, st))
         /\ \A i : i \in DOMAIN Kept(t, st) <=> i \in DOMAIN t.constraints /\ Stays(t.constraints[i], st)
         /\ \A i \in DOMAIN Kept(t, st) : Kept(t, st)[i] = t.constraints[i]
<1> DEFINE I == {i \in DOMAIN t.constraints : Stays(t.constraints[i], st)}
<1>1. Kept(t, st) = [i \in I |-> t.constraints[i]]
  BY DEF Kept, Restrict, Stays
<1>2. DOMAIN Kept(t, st) \subseteq DOMAIN t.constraints
  BY <1>1
<1>3. IsList(Kept(t, st))
  BY <1>2, SubList
<1> QED
  BY <1>1, <1>3

LEMMA ByNameMember ==
  ASSUME NEW t, IsList(t.constraints), NEW k \in DOMAIN ByName(t)
  PROVE  \E i \in DOMAIN t.constraints :
           /\ ConstraintName(t.constraints[i]) = k
           /\ ByName(t)[k] = t.constraints[i]
           /\ \A j \in DOMAIN t.constraints : ConstraintName(t.constraints[j]) = k => j <= i
BY ByNameLast DEF ByName

LEMMA AddedFinite ==
  ASSUME NEW t, NEW n, NEW st, NEW x, Altering(t, n, st, x)
  PROVE  IsFiniteSet(Added(st))
<1> DEFINE d == x.desired.tables[n]
<1>1. IsList(d.constraints)
  BY AlteringIs DEF TypedTable
<1>2. \A tc \in Added(st) : \E k \in DOMAIN ByName(d) : tc = ByName(d)[k]
  BY AlteringIs DEF ConstraintsAltered
<1> HIDE DEF d
<1>3. Added(st) \in SUBSET {d.constraints[i] : i \in DOMAIN d.constraints}
  BY <1>1, <1>2, ByNameMember
<1>4. IsFiniteSet({d.constraints[i] : i \in DOMAIN d.constraints})
  BY <1>1, ListRangeFinite
<1> QED
  BY <1>3, <1>4, FS_Subset

LEMMA ConstraintsAfterIs ==
  ASSUME NEW t, NEW n, NEW st, NEW x, Altering(t, n, st, x)
  PROVE  IsExtension(Extended(Kept(t, st), Added(st)), Kept(t, st), Added(st))
<1>1. IsList(t.constraints)
  BY AlteringIs DEF TypedTable
<1>2. IsList(Kept(t, st))
  BY <1>1, KeptIs
<1>3. IsFiniteSet(Added(st))
  BY AddedFinite
<1> QED
  BY <1>2, <1>3, ExtendedIs

(* What the program sees of the constraints.                               *)
LEMMA ShownByName ==
  ASSUME NEW t, TypedTable(t), NEW x, x.source \in Sources
  PROVE  /\ x.source = "library" => ByName(Shown(t, x)) = ByName(t)
         /\ x.source = "json" => DOMAIN ByName(Shown(t, x)) = {}
         /\ x.source = "library" \/ x.source = "json"
<1>1. Shown(t, x).constraints = IF x.source = "json" THEN <<>> ELSE t.constraints
  BY ShownIs
<1> QED
  BY <1>1, NoConstraintsByName DEF ByName, Sources

(* Nothing that SQLite takes changes the constraints that a table has.     *)
LEMMA SqliteKeepsConstraints ==
  ASSUME NEW t, NEW n, NEW st, NEW x, Altering(t, n, st, x), NEW w, LeftOutAnnounced(t, n, x, w),
         x.dialect = "sqlite",
         NEW ca, ca = Extended(Kept(t, st), Added(st))
  PROVE  /\ IsList(ca)
         /\ DOMAIN ca = DOMAIN t.constraints
         /\ \A i \in DOMAIN ca : ca[i] = t.constraints[i]
<1>1. IsList(t.constraints)
  BY AlteringIs DEF TypedTable
<1>2. Dropped(st) = {} /\ Added(st) = {}
  BY AlteringIs DEF ConstraintsAltered, LeftOutAnnounced
<1>3. \A i \in DOMAIN t.constraints : ~Uses(t.constraints[i], Acting(st, "DropColumn"))
  BY DEF Altering, CannotAlter, ConstraintsOf
<1>4. \A i \in DOMAIN t.constraints : Stays(t.constraints[i], st)
  BY <1>2, <1>3 DEF Stays
<1>5. /\ DOMAIN Kept(t, st) = DOMAIN t.constraints
      /\ \A i \in DOMAIN Kept(t, st) : Kept(t, st)[i] = t.constraints[i]
  BY <1>1, <1>4, KeptIs
<1>6. IsExtension(ca, Kept(t, st), {})
  BY <1>2, ConstraintsAfterIs
<1> QED
  BY <1>5, <1>6 DEF IsExtension

(* A database that shows its constraints has those that were asked for     *)
(* and no others.                                                          *)
LEMMA ConstraintsBecomeDesired ==
  ASSUME NEW t, NEW n, NEW st, NEW x, Altering(t, n, st, x),
         x.source = "library", x.dialect # "sqlite",
         NEW d, d = x.desired.tables[n], ~Malformed(d),
         NEW new, new.constraints = Extended(Kept(t, st), Added(st))
  PROVE  /\ \A k \in DOMAIN ByName(d) : Same(ByName(new), ByName(d), k)
         /\ \A k \in DOMAIN ByName(new) : k \in DOMAIN ByName(d)
<1> DEFINE B == ByName(t)
           D == ByName(d)
           kept == Kept(t, st)
           ca == new.constraints
<1>1. /\ TypedTable(t) /\ TypedTable(d)
      /\ IsList(t.constraints) /\ IsList(d.constraints)
      /\ x.source \in Sources
  BY AlteringIs DEF TypedTable, Altering, TypedInput
<1>2. /\ Dropped(st) = {k \in DOMAIN B : ~Same(B, D, k)}
      /\ \A tc : tc \in Added(st) <=> \E k \in DOMAIN D : ~Same(B, D, k) /\ tc = D[k]
  <2>1. ConstraintsAltered(st, t, d, x)
    BY AlteringIs
  <2>2. ByName(Shown(t, x)) = B
    BY <1>1, ShownByName
  <2> HIDE DEF B, D
  <2> QED
    BY <2>1, <2>2 DEF ConstraintsAltered, D
<1>3. /\ \A i : i \in DOMAIN kept <=> i \in DOMAIN t.constraints /\ Stays(t.constraints[i], st)
      /\ \A i \in DOMAIN kept : kept[i] = t.constraints[i]
  BY <1>1, KeptIs
<1>4. IsExtension(ca, kept, Added(st))
  BY ConstraintsAfterIs
<1>5. \A k \in DOMAIN D : ConstraintName(D[k]) = k
  BY <1>1, ByNameMember
<1>6. IsList(ca) /\ \A i \in DOMAIN kept : i \in DOMAIN ca /\ ca[i] = t.constraints[i]
  BY <1>3, <1>4 DEF IsExtension
<1>7. ASSUME NEW i \in DOMAIN ca \ DOMAIN kept
      PROVE  \E k \in DOMAIN D : ~Same(B, D, k) /\ ca[i] = D[k] /\ ConstraintName(ca[i]) = k
  <2>1. ca[i] \in Added(st)
    BY <1>4 DEF IsExtension
  <2>2. PICK k \in DOMAIN D : ~Same(B, D, k) /\ ca[i] = D[k]
    BY <1>2, <2>1
  <2> HIDE DEF D, ca
  <2> QED
    BY <1>5, <2>2
<1> HIDE DEF B, D, kept, ca
<1>8. ASSUME NEW k \in DOMAIN D, ~Same(B, D, k)
      PROVE  Same(ByName(new), D, k)
  <2>1. D[k] \in Added(st)
    BY <1>2, <1>8
  <2>2. PICK i \in DOMAIN ca \ DOMAIN kept : ca[i] = D[k]
    BY <1>4, <2>1 DEF IsExtension
  <2>3. ConstraintName(ca[i]) = k
    BY <1>5, <2>2
  <2>4. ASSUME NEW j \in DOMAIN ca, ConstraintName(ca[j]) = k
        PROVE  j <= i
    <3>1. CASE j \in DOMAIN kept
      <4>1. j < i
        BY <1>4, <2>2, <3>1 DEF IsExtension
      <4>2. i \in Nat /\ j \in Nat
        BY <1>6, ListBound
      <4> QED
        BY <4>1, <4>2
    <3>2. CASE j \notin DOMAIN kept
      <4>1. PICK l \in DOMAIN D : ca[j] = D[l] /\ ConstraintName(ca[j]) = l
        BY <1>7, <3>2
      <4>2. ca[j] = ca[i]
        BY <2>2, <2>4, <4>1
      <4>3. j = i
        BY <1>4, <3>2, <4>2 DEF IsExtension
      <4>4. i \in Nat
        BY <1>6, ListBound
      <4> QED
        BY <4>3, <4>4
    <3> QED
      BY <3>1, <3>2
  <2>5. ByName(new)[k] = ca[i]
    BY <1>6, <2>3, <2>4, ByNameIs DEF ByName, ca
  <2>6. k \in DOMAIN ByName(new)
    BY <2>3, ByNameDomain DEF ByName, ca
  <2> QED
    BY <2>2, <2>5, <2>6 DEF Same
<1>9. ASSUME NEW k \in DOMAIN D, Same(B, D, k)
      PROVE  Same(ByName(new), D, k)
  <2>1. PICK i \in DOMAIN t.constraints :
          /\ ConstraintName(t.constraints[i]) = k
          /\ B[k] = t.constraints[i]
          /\ \A j \in DOMAIN t.constraints : ConstraintName(t.constraints[j]) = k => j <= i
    BY <1>1, <1>9, ByNameMember DEF B, Same
  <2> DEFINE tc == t.constraints[i]
  <2>2. PICK m \in DOMAIN d.constraints : D[k] = d.constraints[m]
    BY <1>1, ByNameMember DEF D
  <2>3. tc = d.constraints[m] /\ tc \in TableConstraints
    BY <1>1, <1>9, <2>1, <2>2 DEF Same, TypedTable
  <2>4. ~Uses(tc, Acting(st, "DropColumn"))
    <3>1. Range(tc.columns) \subseteq DOMAIN d.columns
      BY <2>3 DEF Malformed
    <3>2. Acting(st, "DropColumn") = DOMAIN t.columns \ DOMAIN d.columns
      BY AlteredColumns
    <3> HIDE DEF tc
    <3> QED
      BY <3>1, <3>2 DEF Uses, Range
  <2>5. ~ (tc.name # 0 /\ Declared(tc.name) \in Dropped(st))
    <3>1. tc.name # 0 => Declared(tc.name) = k
      BY <2>1 DEF ConstraintName
    <3>2. k \notin Dropped(st)
      BY <1>2, <1>9
    <3> QED
      BY <3>1, <3>2
  <2>6. i \in DOMAIN kept
    BY <1>3, <2>4, <2>5 DEF Stays
  <2>7. i \in DOMAIN ca /\ ca[i] = tc
    BY <1>6, <2>6
  <2>8. ASSUME NEW j \in DOMAIN ca, ConstraintName(ca[j]) = k
        PROVE  j <= i
    <3>1. CASE j \in DOMAIN kept
      BY <1>3, <1>6, <2>1, <2>8, <3>1
    <3>2. CASE j \notin DOMAIN kept
      BY <1>7, <1>9, <2>8, <3>2
    <3> QED
      BY <3>1, <3>2
  <2>9. ByName(new)[k] = ca[i]
    BY <1>6, <2>1, <2>7, <2>8, ByNameIs DEF ByName, ca
  <2>10. k \in DOMAIN ByName(new)
    BY <2>1, <2>7, ByNameDomain DEF ByName, ca
  <2> QED
    BY <1>9, <2>1, <2>7, <2>9, <2>10 DEF Same
<1>10. ASSUME NEW k \in DOMAIN ByName(new), k \notin DOMAIN D
       PROVE  FALSE
  <2>1. PICK i \in DOMAIN ca : ConstraintName(ca[i]) = k
    BY <1>6, ByNameDomain DEF ByName, ca
  <2>2. i \in DOMAIN kept
    BY <1>7, <1>10, <2>1
  <2> DEFINE tc == t.constraints[i]
  <2>3. i \in DOMAIN t.constraints /\ Stays(tc, st) /\ ConstraintName(tc) = k
    BY <1>3, <1>6, <2>1, <2>2
  <2>4. k \in DOMAIN B
    BY <2>3, ByNameDomain DEF ByName, B
  <2>5. k \in Dropped(st)
    BY <1>2, <1>10, <2>4 DEF Same
  <2>6. PICK other \in ConstraintsOf(t) : other.name # 0 /\ k = Declared(other.name)
    BY <2>5 DEF Altering, CannotAlter
  <2>7. other \in TableConstraints /\ tc \in TableConstraints
    BY <1>1, <2>3, <2>6 DEF TypedTable, ConstraintsOf
  <2>8. other.name \in Nat
    BY <2>7 DEF TableConstraints
  <2>9. tc.name # 0 /\ tc.name = other.name
    BY <2>3, <2>6, <2>7, <2>8, DeclaredName
  <2> QED
    BY <2>3, <2>5, <2>6, <2>9 DEF Stays
<1> QED
  BY <1>8, <1>9, <1>10 DEF D

(* Two lists with the same entries have the same constraints by name.      *)
LEMMA ByNameOfSame ==
  ASSUME NEW t, IsList(t.constraints), NEW new, IsList(new.constraints),
         DOMAIN new.constraints = DOMAIN t.constraints,
         \A i \in DOMAIN t.constraints : new.constraints[i] = t.constraints[i]
  PROVE  \A k : /\ k \in DOMAIN ByName(new) <=> k \in DOMAIN ByName(t)
                /\ k \in DOMAIN ByName(t) => ByName(new)[k] = ByName(t)[k]
<1> SUFFICES ASSUME NEW k
             PROVE  /\ k \in DOMAIN ByName(new) <=> k \in DOMAIN ByName(t)
                    /\ k \in DOMAIN ByName(t) => ByName(new)[k] = ByName(t)[k]
  OBVIOUS
<1>1. k \in DOMAIN ByName(new) <=> k \in DOMAIN ByName(t)
  BY ByNameDomain DEF ByName
<1>2. ASSUME k \in DOMAIN ByName(t)
      PROVE  ByName(new)[k] = ByName(t)[k]
  <2>1. PICK i \in DOMAIN t.constraints :
          /\ ConstraintName(t.constraints[i]) = k
          /\ ByName(t)[k] = t.constraints[i]
          /\ \A j \in DOMAIN t.constraints : ConstraintName(t.constraints[j]) = k => j <= i
    BY <1>2, ByNameMember
  <2>2. ByName(new)[k] = new.constraints[i]
    BY <2>1, ByNameIs DEF ByName
  <2> QED
    BY <2>1, <2>2
<1> QED
  BY <1>1, <1>2

LEMMA ConstraintsSettle ==
  ASSUME NEW t, NEW n, NEW st, NEW x, Altering(t, n, st, x), NEW w, LeftOutAnnounced(t, n, x, w),
         ~Malformed(x.desired.tables[n]),
         NEW new, new.constraints = Extended(Kept(t, st), Added(st))
  PROVE  ConstraintsSettled(new, n, x, w)
<1> DEFINE d == x.desired.tables[n]
           D == ByName(d)
           ca == new.constraints
<1>1. /\ TypedTable(t) /\ IsList(t.constraints) /\ x.source \in Sources
  BY AlteringIs DEF TypedTable, Altering, TypedInput
<1>2. CASE x.source = "json"
  <2>1. DOMAIN ByName(Shown(t, x)) = {}
    BY <1>1, <1>2, ShownByName
  <2>2. ASSUME NEW k \in DOMAIN D
        PROVE  D[k] \in ConstraintsOf(new)
    <3>1. ~Same(ByName(Shown(t, x)), D, k)
      BY <2>1 DEF Same
    <3>2. D[k] \in Added(st)
      BY <3>1, AlteringIs DEF ConstraintsAltered
    <3>3. IsExtension(ca, Kept(t, st), Added(st))
      BY ConstraintsAfterIs
    <3> HIDE DEF D
    <3> QED
      BY <3>2, <3>3 DEF IsExtension, ConstraintsOf
  <2> QED
    BY <1>2, <2>2 DEF ConstraintsSettled
<1>3. CASE x.source = "library" /\ x.dialect # "sqlite"
  <2>1. /\ \A k \in DOMAIN D : Same(ByName(new), D, k)
        /\ \A k \in DOMAIN ByName(new) : k \in DOMAIN D
    BY <1>3, ConstraintsBecomeDesired
  <2> QED
    BY <1>3, <2>1 DEF ConstraintsSettled
<1>4. CASE x.source = "library" /\ x.dialect = "sqlite"
  <2>1. /\ IsList(ca)
        /\ DOMAIN ca = DOMAIN t.constraints
        /\ \A i \in DOMAIN ca : ca[i] = t.constraints[i]
    BY <1>4, SqliteKeepsConstraints
  <2> HIDE DEF ca, D
  <2>2. \A k : /\ k \in DOMAIN ByName(new) <=> k \in DOMAIN ByName(t)
               /\ k \in DOMAIN ByName(t) => ByName(new)[k] = ByName(t)[k]
    BY <1>1, <2>1, ByNameOfSame DEF ca
  <2>3. ByName(Shown(t, x)) = ByName(t)
    BY <1>1, <1>4, ShownByName
  <2>4. \A k \in DOMAIN D : Same(ByName(new), D, k)
    BY <1>4, <2>2, <2>3 DEF LeftOutAnnounced, Same, D
  <2>5. \A k \in DOMAIN ByName(new) \ DOMAIN D : <<"drop constraint", n, k>> \in w
    BY <1>4, <2>2, <2>3 DEF LeftOutAnnounced, D
  <2> QED
    BY <1>4, <2>4, <2>5 DEF ConstraintsSettled, D
<1> QED
  BY <1>1, <1>2, <1>3, <1>4, ShownByName

TableAfter(t, st) == [columns |-> ColumnsAfter(t, st), constraints |-> Extended(Kept(t, st), Added(st))]

LEMMA TableAfterSettled ==
  ASSUME NEW t, NEW n, NEW st, NEW x, Altering(t, n, st, x), NEW w, LeftOutAnnounced(t, n, x, w),
         NEW new, new = TableAfter(t, st)
  PROVE  TableSettled(new, n, x, w)
<1> DEFINE d == x.desired.tables[n]
<1>1. new.columns = ColumnsAfter(t, st) /\ new.constraints = Extended(Kept(t, st), Added(st))
  BY DEF TableAfter
<1>2. DOMAIN new.columns = DOMAIN d.columns
  BY <1>1, ColumnsAfterDomain
<1>3. ASSUME NEW c \in DOMAIN new.columns
      PROVE  \/ ColumnSettled(new.columns[c], d.columns[c], x)
             \/ x.dialect = "sqlite" /\ <<"alter column", n, c>> \in w
  BY <1>1, <1>2, ColumnsSettle
<1>4. ColumnsSettled(new, n, x, w)
  BY <1>2, <1>3 DEF ColumnsSettled
<1>5. ~Malformed(d) => ConstraintsSettled(new, n, x, w)
  BY <1>1, ConstraintsSettle
<1> QED
  BY <1>4, <1>5 DEF TableSettled

LEMMA ClashIsMutual ==
  ASSUME NEW tc, NEW other, Clash(tc, other)
  PROVE  Clash(other, tc)
BY DEF Clash

(* The database keeps to what databases take.                              *)
LEMMA TableAfterOK ==
  ASSUME NEW t, NEW n, NEW st, NEW x, Altering(t, n, st, x), NEW w, LeftOutAnnounced(t, n, x, w),
         NEW new, new = TableAfter(t, st)
  PROVE  TypedTable(new) /\ ~Malformed(new)
<1> DEFINE d == x.desired.tables[n]
           kept == Kept(t, st)
           ca == new.constraints
<1>1. new.columns = ColumnsAfter(t, st) /\ ca = Extended(Kept(t, st), Added(st))
  BY DEF TableAfter
<1>2. DOMAIN new.columns = DOMAIN d.columns
  BY <1>1, ColumnsAfterDomain
<1>3. ASSUME NEW c \in DOMAIN new.columns
      PROVE  new.columns[c] \in CatalogColumns
  BY <1>1, <1>2, ColumnsSettle
<1>4. /\ TypedTable(t) /\ TypedTable(d)
      /\ IsList(t.constraints) /\ IsList(d.constraints)
      /\ ~Malformed(t)
      /\ ~CannotAlter(t, st)
  BY AlteringIs DEF TypedTable, Altering
<1>5. /\ \A i : i \in DOMAIN kept <=> i \in DOMAIN t.constraints /\ Stays(t.constraints[i], st)
      /\ \A i \in DOMAIN kept : kept[i] = t.constraints[i]
  BY <1>4, KeptIs
<1>6. IsExtension(ca, kept, Added(st))
  BY <1>1, ConstraintsAfterIs
<1>7. ASSUME NEW tc \in Added(st)
      PROVE  /\ tc \in TableConstraints
             /\ Range(tc.columns) \subseteq DOMAIN new.columns
             /\ \A other \in Range(kept) \cup (Added(st) \ {tc}) : ~Clash(tc, other)
  <2>1. PICK k \in DOMAIN ByName(d) : tc = ByName(d)[k]
    BY AlteringIs DEF ConstraintsAltered
  <2>2. tc \in TableConstraints
    BY <1>4, <2>1, ByNameMember DEF TypedTable
  <2> QED
    BY <1>1, <1>4, <2>2 DEF CannotAlter
<1> HIDE DEF ca, d
<1>8. ASSUME NEW i \in DOMAIN kept
      PROVE  /\ i \in DOMAIN t.constraints /\ ca[i] = t.constraints[i]
             /\ ca[i] \in Range(kept)
             /\ ca[i] \in TableConstraints
             /\ Range(ca[i].columns) \subseteq DOMAIN new.columns
  <2>1. i \in DOMAIN t.constraints /\ ca[i] = t.constraints[i] /\ kept[i] = t.constraints[i] /\ Stays(ca[i], st)
    BY <1>5, <1>6 DEF IsExtension
  <2>2. ca[i] \in Range(kept)
    BY <2>1 DEF Range
  <2>3. ca[i] \in TableConstraints
    BY <1>4, <2>1 DEF TypedTable
  <2>4. Range(ca[i].columns) \subseteq DOMAIN t.columns
    BY <1>4, <2>1 DEF Malformed
  <2>5. Acting(st, "DropColumn") = DOMAIN t.columns \ DOMAIN d.columns
    BY AlteringIs DEF ColumnsAltered, d
  <2>6. Range(ca[i].columns) \subseteq DOMAIN d.columns
    BY <2>1, <2>4, <2>5 DEF Stays, Uses, Range
  <2> QED
    BY <1>2, <2>1, <2>2, <2>3, <2>6 DEF d
<1>9. ASSUME NEW i \in DOMAIN ca \ DOMAIN kept
      PROVE  ca[i] \in Added(st)
  BY <1>6 DEF IsExtension
<1>10. ASSUME NEW i \in DOMAIN ca
       PROVE  ca[i] \in TableConstraints /\ Range(ca[i].columns) \subseteq DOMAIN new.columns
  BY <1>7, <1>8, <1>9
<1>11. ASSUME NEW i \in DOMAIN ca, NEW j \in DOMAIN ca \ {i}, Clash(ca[i], ca[j])
       PROVE  FALSE
  <2>1. CASE i \in DOMAIN kept /\ j \in DOMAIN kept
    BY <1>4, <1>8, <1>11, <2>1 DEF Malformed
  <2>2. CASE i \notin DOMAIN kept /\ j \in DOMAIN kept
    BY <1>7, <1>8, <1>9, <1>11, <2>2
  <2>3. CASE i \in DOMAIN kept /\ j \notin DOMAIN kept
    BY <1>7, <1>8, <1>9, <1>11, <2>3, ClashIsMutual
  <2>4. CASE i \notin DOMAIN kept /\ j \notin DOMAIN kept
    <3>1. ca[i] # ca[j]
      BY <1>6, <2>4 DEF IsExtension
    <3> QED
      BY <1>7, <1>9, <1>11, <2>4, <3>1
  <2> QED
    BY <2>1, <2>2, <2>3, <2>4
<1>12. ~Malformed(new)
  BY <1>10, <1>11 DEF Malformed, ca
<1>13. IsList(ca)
  BY <1>6 DEF IsExtension
<1> QED
  BY <1>3, <1>10, <1>12, <1>13 DEF TypedTable, ca

=============================================================================
