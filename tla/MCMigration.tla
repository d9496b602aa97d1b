---- MODULE MCMigration ----
EXTENDS Migration

Type(kind, size) == [kind |-> kind, size |-> size]
Column(type, nullable, default) ==
  [type |-> type, nullable |-> nullable, default |-> default, identity |-> FALSE, attrs |-> {}]
Id == [Column(Type("Int", 0), FALSE, 0) EXCEPT !.identity = TRUE]
Wide == Type("VarChar", 20)
Text == Column(Wide, TRUE, 0)

Constraint(name, kind, columns, ref) == [name |-> name, kind |-> kind, columns |-> columns, ref |-> ref, body |-> 0]
Unique(name, c) == Constraint(name, "uq", <<c>>, 0)
Key(name) == Constraint(name, "pk", <<1>>, 0)
Foreign(name, ref) == Constraint(name, "fk", <<1>>, ref)
Check(name, body) == [Constraint(name, "ck", <<>>, 0) EXCEPT !.body = body]

\* Column 1 is the key; column 2 is as given, or absent.
Table(second, constraints) == [columns |-> 1 :> Id @@ second, constraints |-> constraints]
None == EmptyFunction
Second(c) == 2 :> c
Index(c, unique) == [columns |-> <<c>>, unique |-> unique]

\* A column whose identity and constraint no difference shows.
Counter == [Column(Type("Int", 0), FALSE, 0) EXCEPT !.identity = TRUE, !.attrs = {"Unique"}]

Seconds == {Second(Text), Second(Column(Type("VarChar", 0), TRUE, 0)), Second(Column(Type("VarChar", 10), TRUE, 0)), Second(Column(Wide, FALSE, 0)),
            Second(Column(Wide, TRUE, 7)), Second(Column(Type("Int", 0), FALSE, 7)), Second(Counter)}
ConstraintLists == {<<>>, <<Key(0)>>, <<Unique(5, 2)>>, <<Unique(5, 1)>>, <<Unique(0, 2)>>,
                    <<Check(0, 1), Check(0, 2)>>, <<Check(0, 3), Check(0, 2)>>, <<Check(5, 1)>>}
OneTable ==
  {[tables |-> 1 :> Table(s, <<>>), indices |-> i] :
     s \in Seconds \cup {None}, i \in {None}}
  \cup {[tables |-> 1 :> Table(Second(Text), cs), indices |-> None] : cs \in ConstraintLists}
  \cup {[tables |-> 1 :> Table(s, <<>>), indices |-> <<1, 9>> :> i] :
          s \in {Second(Text), Second(Column(Wide, FALSE, 7))}, i \in {Index(1, FALSE), Index(1, TRUE), Index(2, FALSE)}}

\* Several tables: references both ways along the order of names, an index that moves, tables that come and go.
Plain == Table(None, <<Key(0)>>)
ManyTables ==
  {[tables |-> None, indices |-> None],
   [tables |-> 1 :> Plain @@ 2 :> Table(Second(Text), <<Foreign(6, 1)>>), indices |-> <<2, 9>> :> Index(2, FALSE)],
   [tables |-> 1 :> Table(Second(Text), <<Foreign(6, 2)>>) @@ 2 :> Plain, indices |-> <<1, 9>> :> Index(2, FALSE)],
   [tables |-> 1 :> Plain @@ 2 :> Table(Second(Text), <<>>),
    indices |-> <<1, 8>> :> Index(1, TRUE) @@ <<2, 9>> :> Index(2, FALSE)],
   [tables |-> 2 :> Table(None, <<>>), indices |-> <<2, 9>> :> Index(1, FALSE)]}

MCDatabases == OneTable \cup ManyTables

\* The DDL of a catalog, and files with something else in them.
Ordered(S) == SetToSortSeq(S, LAMBDA a, b : Before(a, b))
Ddl(s) == Ordered({CreateTable(n, s.tables[n]) : n \in DOMAIN s.tables})
          \o Ordered({CreateIndex(k, s.indices[k]) : k \in DOMAIN s.indices})
View == [op |-> "View"]
SyntaxError == [op |-> "SyntaxError"]
Money == CreateTable(1, Table(Second(Column(Type("Money", 0), TRUE, 0)), <<>>))
\* Tables that no database takes: a constraint on a column that is not there, two keys, two constraints of a name.
Malformations ==
  {Table(None, <<Unique(0, 2)>>), Table(Second(Text), <<Key(0), Key(5)>>), Table(Second(Text), <<Unique(5, 1), Unique(5, 2)>>)}
MCDdls ==
  {Ddl(s) : s \in MCDatabases}
  \cup {<<SyntaxError>>, <<View, Money, CreateTable(2, Plain)>>,
        <<CreateTable(1, Plain), CreateTable(1, Table(Second(Text), <<Key(5)>>))>>,
        <<CreateIndex(<<1, 9>>, Index(1, FALSE))>>}
  \cup {<<CreateTable(1, t)>> : t \in Malformations}
====
