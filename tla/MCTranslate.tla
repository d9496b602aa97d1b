---------------------------- MODULE MCTranslate -----------------------------
(***************************************************************************)
(* Scripts to translate: statements of every kind, with every kind of      *)
(* expression in every place for one; chains of two operators, with and    *)
(* without parentheses; and scripts of statements some of which fail.      *)
(***************************************************************************)
EXTENDS Translate

a == Name("a")
b == Name("b")
num == Leaf("Number", "1")
str == Leaf("String", "s")
Infixed(l, w, r) == N("Infix", w, <<l, r>>)
Call(w, args) == N("Call", w, args)
Items(es) == N("Items", "", [k \in DOMAIN es |-> N("Item", "", <<es[k]>>)])
From(kids) == N("From", "", kids)
Where(e) == N("Where", "", <<e>>)
Table(w) == Leaf("Table", w)
Query(items, clauses) == N("Select", "", <<items>> \o clauses)
Inner == Query(Items(<<a>>), <<From(<<Table("u")>>), Where(Infixed(a, "Gt", b))>>)

(* Expressions that have a counterpart in every dialect.                   *)
Plain == {
  a, N("Qualified", "", <<a, b>>), num, str, Leaf("Null", "Null"), Leaf("FloatLiteral", "1.5"),
  Infixed(a, "Plus", num), Infixed(a, "NeAlt", b), Infixed(Infixed(a, "Eq", b), "And", Infixed(a, "Ne", b)),
  N("Unary", "Minus", <<a>>), N("Like", "NotLike", <<a, str>>), N("Like", "Like", <<a, str, N("Escape", "", <<str>>)>>),
  N("Is", "Null", <<a>>), N("IsNot", "UNKNOWN", <<a>>), N("Between", "NotBetween", <<a, num, b>>),
  N("InList", "NotIn", <<a, N("ValueList", "", <<num, b>>)>>), N("InList", "In", <<a, Inner>>),
  Inner, N("Exists", "", <<Inner>>), Call("COUNT", <<Leaf("Star", "")>>),
  Call("COUNT", <<Leaf("Distinct", ""), a>>), Call("LEN", <<a>>), Call("GETDATE", <<>>), Call("myfun", <<a, b>>),
  Call("DATEADD", <<Name("hour"), num, a>>), Call("DATEADD", <<str, num, Call("GETDATE", <<>>)>>),
  Call("DATEDIFF", <<Name("day"), a, b>>), Call("STUFF", <<a, num, num, str>>), Call("RAND", <<num>>),
  N("Case", "", <<N("When", "", <<a, num>>), N("Else", "", <<b>>)>>)}
(* Expressions that are refused, lose a part or fail in an emitter.        *)
Odd == {
  Leaf("HexString", "0xFF"), Leaf("HugeNumber", "9"), N("Unary", "Tilde", <<a>>), Infixed(a, "NotLt", b),
  Infixed(a, "Eq", Leaf("HexString", "0xFF")), N("Unary", "Not", <<Infixed(a, "NotGt", b)>>),
  Infixed(a, "In", b), N("Is", "TRUE", <<a>>), N("IsNot", "FALSE", <<a>>),
  N("InList", "In", <<a, N("ValueList", "", <<num, Leaf("HexString", "0xFF")>>)>>),
  N("Case", "", <<N("When", "", <<a, num>>), N("Else", "", <<Leaf("HexString", "0xFF")>>)>>),
  Call("DATEADD", <<Name("hour"), N("Unary", "Minus", <<num>>), a>>), Call("DATEADD", <<num, num, a>>),
  Call("DATEDIFF", <<Name("hour"), a, b>>), Call("DATEDIFF", <<a>>), Call("STUFF", <<a>>),
  Call("myfun", <<a, Leaf("HexString", "0xFF")>>),
  N("Exists", "", <<Query(Items(<<a>>), <<From(<<Table("u")>>), Where(N("Is", "TRUE", <<a>>))>>)>>)}
Expressions == Plain \cup Odd

Updates(e) == {
  N("Update", "", <<N("Table", "t", <<Leaf("Alias", "x")>>), N("Assignments", "", <<N("Assign", "a", <<e>>)>>)>>),
  N("Update", "", <<Table("t"), N("Assignments", "", <<N("Assign", "a", <<num>>)>>), Where(e)>>),
  N("Delete", "", <<Table("t"), Where(e)>>)}
Uses(e) == Updates(e) \cup {
  Query(Items(<<e, a>>), <<>>),
  Query(Items(<<a>>), <<From(<<Table("t")>>), Where(e)>>),
  Query(Items(<<a>>), <<From(<<Table("t")>>), N("GroupBy", "", <<e>>), N("Having", "", <<e>>),
                        N("OrderBy", "", <<N("Asc", "", <<b>>), N("Desc", "", <<e>>)>>), N("Limit", "", <<e>>)>>),
  Query(Items(<<a>>), <<From(<<N("Derived", "", <<Query(Items(<<a>>), <<Where(e)>>), Leaf("Alias", "x")>>)>>)>>),
  N("Insert", "t", <<N("Columns", "", <<a, b>>), N("Values", "", <<N("Row", "", <<num, e>>)>>)>>)}

Column(w, type, rest) == N("ColumnDef", w, <<type>> \o rest)
Type(w) == Leaf("Type", w)
Types == {Type(w) : w \in {"TinyInt", "Int", "Real", "Double", "DateTime", "Date", "Decimal", "VarChar", "Binary",
                           "Float", "UniqueIdentifier", "Bit", "Money"}}
         \cup {N("Type", "VarChar", <<num>>), N("Type", "Numeric", <<num, num>>)}
NotNull == Leaf("NotNull", "")
Default(e) == N("Default", "", <<e>>)
References == N("References", "u", <<b>>)
Keys == <<N("TablePrimaryKey", "pk", <<a>>), N("TableUnique", "", <<a, b>>),
          N("TableForeignKey", "fk", <<a, References>>), N("TableCheck", "ck", <<Infixed(a, "Lt", b)>>)>>
Check(e) == N("Check", "", <<e>>)
Definitions ==
  {N("CreateTable", "t", <<Column("a", ty, <<Leaf("Nullable", ""), Leaf("Identity", "")>>)>>) : ty \in Types}
  \cup {N("CreateTable", "t", <<Leaf("Temporary", ""), Column("a", Type("Int"), <<NotNull, Default(e), c>>)>> \o Keys) :
          e \in {num, Leaf("HexString", "0xFF")},
          c \in {Leaf("PrimaryKey", ""), Leaf("Unique", ""), Check(a), Check(Infixed(a, "NotGt", b)), References}}
  \cup {N("CreateIndex", "i", <<Leaf("Unique", ""), Leaf("On", "t"), a, b>>), N("AlterTable", "t", <<
          N("AddColumn", "", <<Column("a", Type("Int"), <<Default(num)>>)>>)>>),
        N("AlterTable", "t", <<N("AddConstraint", "", <<Keys[1]>>)>>), N("AlterTable", "t", <<Leaf("DropColumn", "a")>>)}

(* What only a schema diff asks of an emitter.                             *)
Common == {N("CreateTable", "t", <<Column("a", Type("BigInt"), <<Leaf("AutoIncrement", "")>>)>>), Leaf("DropTable", "t"), N("DropIndex", "i", <<Leaf("On", "t")>>),
           N("AlterTable", "t", <<Leaf("DropColumn", "a"), Leaf("DropConstraint", "pk")>>),
           N("AlterTable", "t", <<N("AlterColumn", "a", <<Type("Int"), Default(num), NotNull>>)>>),
           N("AlterTable", "t", <<N("AlterColumn", "a", <<Leaf("DropDefault", ""), Leaf("Nullable", "")>>)>>),
           N("AlterTable", "t", <<Leaf("RenameTo", "v")>>),
           N("Update", "", <<Table("t"), N("Assignments", "", <<>>)>>),
           Query(Items(<<Infixed(a, "ILike", str)>>), <<>>)}
Others == {Query(N("Items", "", <<Leaf("Star", ""), Leaf("QualifiedStar", "t")>>), <<Leaf("Distinct", ""),
                 From(<<N("Table", "t", <<Leaf("Alias", "x")>>), Table("u"), Leaf("Join", "v")>>)>>),
           N("Insert", "t", <<Inner>>), N("Insert", "t", <<Leaf("DefaultValues", "")>>),
           N("Update", "", <<Table("t"), N("Assignments", "", <<N("Assign", "a", <<b>>)>>), From(<<Table("u")>>)>>),
           N("Delete", "", <<Table("t"), From(<<Table("u")>>)>>), Leaf("CreateView", ""), Leaf("If", "")}

Job(dialect, called, script, common, source) ==
  [dialect |-> dialect, calls |-> called, stmts |-> script, common |-> common, source |-> source]
Dialects == {"SQLite", "MySQL", "PostgreSQL"}
Single == {Job(d, <<"convertTo">>, <<s>>, <<>>, <<>>) :
             d \in Dialects, s \in Definitions \cup Others \cup UNION {Uses(e) : e \in Expressions}}
          \cup {Job(d, <<"each", "batch">>, <<>>, <<s>>, <<>>) : d \in Dialects, s \in Common}

(* One statement that is translated, one that is left out, one an emitter  *)
(* refuses and one it refuses late.                                        *)
Mixed == {Query(Items(<<a>>), <<>>), Leaf("CreateView", ""), Leaf("While", ""),
          Query(Items(<<a, Call("DATEADD", <<a>>)>>), <<>>)}
Scripts == {Job(d, c, s, <<>>, <<>>) : d \in Dialects,
              c \in {<<"convertTo">>, <<"each", "batch">>, <<"batch", "each">>},
              s \in TupleOf(Mixed, 2) \cup TupleOf(Mixed, 3)}

Operators == {"Plus", "Minus", "Star", "Slash", "Eq", "Ne", "NeAlt", "Lt", "And", "Or", "Like"}
Chains ==
  {<<"a", o, "b", p, "c">> : o \in Operators, p \in Operators \ {"Like"}}
  \cup {<<"LParen", "a", o, "b", "RParen", p, "c">> : o \in Operators, p \in Operators}
  \cup {<<"a", o, "LParen", "b", p, "c", "RParen">> : o \in Operators \ {"Like"}, p \in Operators}
  \cup {<<"a", "Not", "In", "LParen", "b", "Comma", "c", "RParen", o, "a">> : o \in {"And", "Or"}}
  \cup {<<"a", "Between", "b", "And", "c", o, "a">> : o \in {"And", "Or", "Plus"}}
  \cup {<<u, "a", o, "b">> : u \in {"Minus", "Not"}, o \in {"Plus", "Eq", "And"}}
  \cup {<<"a", "Is", "Not", "Null", o, "b">> : o \in {"And", "Or"}}
  \cup {<<"a", "Minus", "b", "Minus", "c", "Minus", "a">>, <<"Minus", "LParen", "a", "Minus", "b", "RParen">>}
Grouped == {Job(d, <<"convertTo">>, <<SelectOf(Parsed(t))>>, <<>>, t) : d \in Dialects, t \in Chains}

MCJobs == Single \cup Scripts \cup Grouped
MCUpdates == {Job("SQLite", <<"convertTo">>, <<s>>, <<>>, <<>>) : s \in UNION {Updates(e) : e \in Expressions}}
===============================================================================
