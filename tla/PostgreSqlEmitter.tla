-------------------------- MODULE PostgreSqlEmitter -------------------------
(***************************************************************************)
(* The PostgreSQL text of a common-sql statement.  Infix operators are in  *)
(* parentheses; prefix operators, IN, BETWEEN and IS NULL are not.         *)
(* Function names stay as they are.                                        *)
(***************************************************************************)
EXTENDS SqlTree

RECURSIVE EmitExpression(_), EmitSelect(_)

EmitIdentifier(w) == IF w = "*" THEN <<"Star">> ELSE <<w>>
EmitLiteral(n) == IF n.op \in {"TRUE", "FALSE", "Null"} THEN <<n.op>> ELSE <<n.w>>
EmitUnaryOp(n) == <<n.w>> \o EmitExpression(n.kids[1])
Infix(w) == CASE w = "NotLike" -> <<"Not", "Like">> [] w = "Ne" -> <<"NeAlt">> [] OTHER -> <<w>>
(* Mutant: operators are written bare.                                     *)
EmitBareBinaryOp(n) == EmitExpression(n.kids[1]) \o Infix(n.w) \o EmitExpression(n.kids[2])
EmitBinaryOp(n) == Paren(EmitExpression(n.kids[1]) \o Infix(n.w) \o EmitExpression(n.kids[2]))
EmitFunction(n) ==
  <<n.w>> \o Paren(Flag(n, "Distinct", <<"Distinct">>)
                   \o List(SelectSeq(n.kids, LAMBDA k : k.op # "Distinct"), EmitExpression))
EmitCase(n) ==
  LET When(k) == IF k.op = "When" THEN <<"When">> \o EmitExpression(k.kids[1])
                                       \o <<"Then">> \o EmitExpression(k.kids[2])
                 ELSE <<"Else">> \o EmitExpression(k.kids[1])
  IN <<"Case">> \o FlattenSeq(All(n.kids, When)) \o <<"End">>
EmitIn(n) ==
  EmitExpression(n.kids[1]) \o (IF n.w = "NotIn" THEN <<"Not", "In">> ELSE <<"In">>)
  \o Paren(IF n.kids[2].op = "Select" THEN EmitSelect(n.kids[2])
           ELSE List(n.kids[2].kids, EmitExpression))
EmitBetween(n) ==
  EmitExpression(n.kids[1]) \o (IF n.w = "NotBetween" THEN <<"Not", "Between">> ELSE <<"Between">>)
  \o EmitExpression(n.kids[2]) \o <<"And">> \o EmitExpression(n.kids[3])
EmitIsNull(n) ==
  EmitExpression(n.kids[1]) \o (IF n.w = "IsNot" THEN <<"Is", "Not", "Null">> ELSE <<"Is", "Null">>)

EmitExpression(n) ==
  CASE n.op \in Literals -> EmitLiteral(n)
    [] n.op = "Ident" -> EmitIdentifier(n.w)
    [] n.op = "Qualified" -> EmitIdentifier(n.kids[1].w) \o <<"Dot">> \o EmitIdentifier(n.kids[2].w)
    [] n.op = "Infix" -> EmitBinaryOp(n)
    [] n.op = "Unary" -> EmitUnaryOp(n)
    [] n.op = "Call" -> EmitFunction(n)
    [] n.op = "Case" -> EmitCase(n)
    [] n.op = "InList" -> EmitIn(n)
    [] n.op = "Between" -> EmitBetween(n)
    [] n.op = "IsNull" -> EmitIsNull(n)
    [] n.op = "Select" -> Paren(EmitSelect(n))
    [] n.op = "Exists" -> <<"Exists">> \o Paren(EmitSelect(n.kids[1]))

------------------------------------------------------------------------------
(* Queries and data modification (mappers/select_statement.rs, lib.rs) *)
Alias(n) == IF Has(n, "Alias") THEN <<"As", The(n, "Alias").w>> ELSE <<>>
EmitSelectItem(n) ==
  CASE n.op = "Item" -> EmitExpression(n.kids[1]) \o Alias(n)
    [] n.op = "Star" -> <<"Star">>
    [] n.op = "QualifiedStar" -> <<n.w, "Dot", "Star">>
EmitTableFactor(n) ==
  (IF n.op = "Table" THEN <<n.w>> ELSE Paren(EmitSelect(n.kids[1]))) \o Alias(n)
EmitOrderBy(n) == EmitExpression(n.kids[1]) \o <<n.op>>
EmitSelect(n) ==
  <<"Select">> \o List(The(n, "Items").kids, EmitSelectItem)
  \o Clause(n, "From", <<"From">>, EmitTableFactor)
  \o Clause(n, "Where", <<"Where">>, EmitExpression)
  \o Clause(n, "GroupBy", <<"Group", "By">>, EmitExpression)
  \o Clause(n, "Having", <<"Having">>, EmitExpression)
  \o Clause(n, "OrderBy", <<"Order", "By">>, EmitOrderBy)
  \o Clause(n, "Limit", <<"Limit">>, EmitExpression)

EmitRow(n) == Paren(List(n.kids, EmitExpression))
VisitInsertStatement(n) ==
  <<"Insert", "Into", n.w>>
  \o (IF Has(n, "Columns") THEN Paren(Words(The(n, "Columns").kids)) ELSE <<>>)
  \o (IF Has(n, "Values") THEN <<"Values">> \o List(The(n, "Values").kids, EmitRow)
      ELSE EmitSelect(The(n, "Select")))
EmitAssignment(n) == <<n.w, "Eq">> \o EmitExpression(n.kids[1])
VisitUpdateStatement(n) ==
  <<"Update">> \o EmitTableFactor(The(n, "Table")) \o <<"Set">>
  \o List(The(n, "Assignments").kids, EmitAssignment) \o Clause(n, "Where", <<"Where">>, EmitExpression)
VisitDeleteStatement(n) ==
  <<"Delete", "From">> \o EmitTableFactor(The(n, "Table"))
  \o Clause(n, "Where", <<"Where">>, EmitExpression)
(* Comment lines only.                                                     *)
VisitDialectSpecific(n) == <<"-- original T-SQL", n.w>>

------------------------------------------------------------------------------
(* Definitions (ddl.rs, mappers/datatype.rs) *)
MapDataType(n) ==
  CASE n.w = "TinyInt" -> <<"SmallInt">>
    [] n.w = "Decimal" -> Sized("Numeric", n)
    [] n.w = "DateTime" -> <<"Timestamp">>
    [] n.w \in {"Binary", "VarBinary"} -> Sized("Bytea", n)
    [] OTHER -> Sized(n.w, n)
VisitColumnConstraint(n) ==
  CASE n.op = "PrimaryKey" -> <<"Primary", "Key">>
    [] n.op = "Unique" -> <<"Unique">>
    [] n.op = "Check" -> <<"Check">> \o Paren(EmitExpression(n.kids[1]))
    [] n.op = "References" -> <<"References", n.w>> \o Paren(Words(n.kids))
    [] n.op = "AutoIncrement" -> <<>>
(* A column that counts by itself has a serial type in place of its own.   *)
SerialTypeFor(n) ==
  CASE n.w \in {"TinyInt", "SmallInt"} -> "SmallSerial" [] n.w = "BigInt" -> "BigSerial" [] OTHER -> "Serial"
VisitColumnDef(n) ==
  <<n.w>>
  \o (IF Has(n, "AutoIncrement") THEN <<SerialTypeFor(The(n, "Type"))>> ELSE MapDataType(The(n, "Type")))
  \o Flag(n, "NotNull", <<"Not", "Null">>)
  \o Clause(n, "Default", <<"Default">>, EmitExpression)
  \o FlattenSeq(All(OfKind(n, ColumnConstraints), VisitColumnConstraint))
VisitTableConstraint(n) ==
  (IF n.w = "" THEN <<>> ELSE <<"Constraint", n.w>>)
  \o CASE n.op = "TablePrimaryKey" -> <<"Primary", "Key">> \o Paren(Words(n.kids))
       [] n.op = "TableUnique" -> <<"Unique">> \o Paren(Words(n.kids))
       [] n.op = "TableCheck" -> <<"Check">> \o Paren(EmitExpression(n.kids[1]))
       [] n.op = "TableForeignKey" ->
            <<"Foreign", "Key">> \o Paren(Words(OfKind(n, {"Ident"})))
            \o VisitColumnConstraint(The(n, "References"))
VisitCreateTable(n) ==
  LET Part(k) == IF k.op = "ColumnDef" THEN VisitColumnDef(k) ELSE VisitTableConstraint(k)
  IN <<"Create">> \o Flag(n, "Temporary", <<"Temporary">>) \o <<"Table", n.w>>
     \o Paren(List(OfKind(n, {"ColumnDef"}) \o OfKind(n, TableConstraints), Part))
(* One ALTER COLUMN for each thing that changes.                           *)
AlterColumn(n) ==
  LET Change(k) ==
        CASE k.op = "Type" -> <<"Type">> \o MapDataType(k)
          [] k.op = "Default" -> <<"Set", "Default">> \o EmitExpression(k.kids[1])
          [] k.op = "DropDefault" -> <<"Drop", "Default">>
          [] k.op = "NotNull" -> <<"Set", "Not", "Null">>
          [] k.op = "Nullable" -> <<"Drop", "Not", "Null">>
  IN List(OfKind(n, {"Type"}) \o OfKind(n, {"Default", "DropDefault"})
          \o OfKind(n, {"NotNull", "Nullable"}), LAMBDA k : <<"Alter", "Column", n.w>> \o Change(k))
VisitAlterAction(n) ==
  CASE n.op = "AddColumn" -> <<"Add", "Column">> \o VisitColumnDef(n.kids[1])
    [] n.op = "DropColumn" -> <<"Drop", "Column", n.w>>
    [] n.op = "AlterColumn" -> AlterColumn(n)
    [] n.op = "AddConstraint" -> <<"Add">> \o VisitTableConstraint(n.kids[1])
    [] n.op = "DropConstraint" -> <<"Drop", "Constraint", n.w>>
    [] n.op = "RenameTo" -> <<"Rename", "To", n.w>>
VisitAlterTable(n) == <<"Alter", "Table", n.w>> \o List(n.kids, VisitAlterAction)
VisitDropTable(n) == <<"Drop", "Table", n.w>>
VisitCreateIndex(n) ==
  <<"Create">> \o Flag(n, "Unique", <<"Unique">>) \o <<"Index", n.w, "On", The(n, "On").w>>
  \o Paren(Words(OfKind(n, {"Ident"})))
VisitDropIndex(n) == <<"Drop", "Index", n.w>>

VisitStatement(n) ==
  CASE n.op = "Select" -> EmitSelect(n)
    [] n.op = "Insert" -> VisitInsertStatement(n)
    [] n.op = "Update" -> VisitUpdateStatement(n)
    [] n.op = "Delete" -> VisitDeleteStatement(n)
    [] n.op = "CreateTable" -> VisitCreateTable(n)
    [] n.op = "AlterTable" -> VisitAlterTable(n)
    [] n.op = "DropTable" -> VisitDropTable(n)
    [] n.op = "CreateIndex" -> VisitCreateIndex(n)
    [] n.op = "DropIndex" -> VisitDropIndex(n)
    [] n.op = "DialectSpecific" -> VisitDialectSpecific(n)
===============================================================================
