--------------------------- MODULE SqliteEmitter ----------------------------
(***************************************************************************)
(* The SQLite text of a common-sql statement.  Operators are written       *)
(* without parentheses.                                                    *)
(***************************************************************************)
EXTENDS SqlTree

RECURSIVE VisitExpression(_), VisitSelectStatement(_)

(* Every name is quoted, the star of COUNT too.                            *)
WriteIdentifier(w) == IF w = "*" THEN <<"'*'">> ELSE <<w>>

VisitLiteral(n) ==
  CASE n.op = "TRUE" -> <<"1">> [] n.op = "FALSE" -> <<"0">> [] n.op = "Null" -> <<"Null">>
    [] OTHER -> <<n.w>>
VisitUnaryOp(n) == <<n.w>> \o VisitExpression(n.kids[1])
Infix(w) == IF w = "NotLike" THEN <<"Not", "Like">> ELSE <<w>>
VisitBinaryOp(n) == VisitExpression(n.kids[1]) \o Infix(n.w) \o VisitExpression(n.kids[2])

(* Function names are compared in upper case.                              *)
FunctionNames ==
  [GETDATE |-> "datetime('now')", GETUTCDATE |-> "datetime('now')", DATENAME |-> "strftime",
   DATEPART |-> "strftime", LEN |-> "length", CHARINDEX |-> "instr", LEFT |-> "substr",
   RIGHT |-> "substr", SUBSTRING |-> "substr", CEILING |-> "ceil", POWER |-> "pow",
   COUNT |-> "count", SUM |-> "sum", ISNULL |-> "ifnull", COALESCE |-> "coalesce"]
MapFunctionName(w) == IF w \in DOMAIN FunctionNames THEN FunctionNames[w] ELSE w

DatepartModifiers ==
  [year |-> <<"1", "years">>, quarter |-> <<"3", "months">>, month |-> <<"1", "months">>,
   dayofyear |-> <<"1", "days">>, day |-> <<"1", "days">>, week |-> <<"7", "days">>,
   hour |-> <<"1", "hours">>, minute |-> <<"1", "minutes">>, second |-> <<"1", "seconds">>]
TimeDateparts == {"hour", "minute", "second"}
DateDateparts == {"year", "quarter", "month", "dayofyear", "day", "week"}

IsNow(n) == n.op = "Call" /\ n.w \in {"GETDATE", "GETUTCDATE"}
(* Dates are written as they stand, without quoting or escaping.           *)
ExtractDateExpression(n) ==
  CASE n.op \in {"String", "Number", "Ident"} -> <<n.w>>
    [] n.op = "Qualified" -> <<n.kids[1].w, "Dot", n.kids[2].w>>
    [] IsNow(n) -> <<"datetime('now')">>
    [] OTHER -> <<"Error">>
EmitDateadd(args) ==
  IF \/ Len(args) # 3 \/ args[1].op \notin {"String", "Ident"} \/ args[2].op # "Number"
     \/ args[1].w \notin DOMAIN DatepartModifiers
  THEN <<"Error">>
  ELSE <<IF args[1].w \in TimeDateparts THEN "datetime" ELSE "date">>
       \o Paren((IF IsNow(args[3]) THEN <<"now">> ELSE ExtractDateExpression(args[3]))
                \o <<"Comma", args[2].w, "Star">> \o DatepartModifiers[args[1].w])
EmitDatediff(args) ==
  IF Len(args) # 3 \/ args[1].op \notin {"String", "Ident"} \/ args[1].w \notin DateDateparts
  THEN <<"Error">>
  ELSE Paren(<<"julianday">> \o Paren(ExtractDateExpression(args[3])) \o <<"Minus">>
             \o <<"julianday">> \o Paren(ExtractDateExpression(args[2])))
VisitFunction(n) ==
  LET args == SelectSeq(n.kids, LAMBDA k : k.op # "Distinct")
  IN CASE n.w = "DATEADD" -> EmitDateadd(args)
       [] n.w = "DATEDIFF" -> EmitDatediff(args)
       [] OTHER -> <<MapFunctionName(n.w)>>
                   \o Paren(Flag(n, "Distinct", <<"Distinct">>) \o List(args, VisitExpression))

VisitCase(n) ==
  LET When(k) == IF k.op = "When" THEN <<"When">> \o VisitExpression(k.kids[1])
                                       \o <<"Then">> \o VisitExpression(k.kids[2])
                 ELSE <<"Else">> \o VisitExpression(k.kids[1])
  IN <<"Case">> \o FlattenSeq(All(n.kids, When)) \o <<"End">>
VisitIn(n) ==
  VisitExpression(n.kids[1]) \o (IF n.w = "NotIn" THEN <<"Not", "In">> ELSE <<"In">>)
  \o Paren(IF n.kids[2].op = "Select" THEN VisitSelectStatement(n.kids[2])
           ELSE List(n.kids[2].kids, VisitExpression))
VisitBetween(n) ==
  VisitExpression(n.kids[1]) \o (IF n.w = "NotBetween" THEN <<"Not", "Between">> ELSE <<"Between">>)
  \o VisitExpression(n.kids[2]) \o <<"And">> \o VisitExpression(n.kids[3])
VisitIsNull(n) ==
  VisitExpression(n.kids[1]) \o (IF n.w = "IsNot" THEN <<"Is", "Not", "Null">> ELSE <<"Is", "Null">>)

VisitExpression(n) ==
  CASE n.op \in Literals -> VisitLiteral(n)
    [] n.op = "Ident" -> WriteIdentifier(n.w)
    [] n.op = "Qualified" -> WriteIdentifier(n.kids[1].w) \o <<"Dot">> \o WriteIdentifier(n.kids[2].w)
    [] n.op = "Infix" -> VisitBinaryOp(n)
    [] n.op = "Unary" -> VisitUnaryOp(n)
    [] n.op = "Call" -> VisitFunction(n)
    [] n.op = "Case" -> VisitCase(n)
    [] n.op = "InList" -> VisitIn(n)
    [] n.op = "Between" -> VisitBetween(n)
    [] n.op = "IsNull" -> VisitIsNull(n)
    [] n.op = "Select" -> Paren(VisitSelectStatement(n))
    [] n.op = "Exists" -> <<"Exists">> \o Paren(VisitSelectStatement(n.kids[1]))

------------------------------------------------------------------------------
(* Queries and data modification *)
Alias(n) == IF Has(n, "Alias") THEN <<"As">> \o WriteIdentifier(The(n, "Alias").w) ELSE <<>>
VisitSelectItem(n) ==
  CASE n.op = "Item" -> VisitExpression(n.kids[1]) \o Alias(n)
    [] n.op = "Star" -> <<"Star">>
    [] n.op = "QualifiedStar" -> WriteIdentifier(n.w) \o <<"Dot", "Star">>
VisitTableFactor(n) ==
  (IF n.op = "Table" THEN WriteIdentifier(n.w) ELSE Paren(VisitSelectStatement(n.kids[1]))) \o Alias(n)
VisitOrderBy(n) == VisitExpression(n.kids[1]) \o <<n.op>>
VisitSelectStatement(n) ==
  <<"Select">> \o List(The(n, "Items").kids, VisitSelectItem)
  \o Clause(n, "From", <<"From">>, VisitTableFactor)
  \o Clause(n, "Where", <<"Where">>, VisitExpression)
  \o Clause(n, "GroupBy", <<"Group", "By">>, VisitExpression)
  \o Clause(n, "Having", <<"Having">>, VisitExpression)
  \o Clause(n, "OrderBy", <<"Order", "By">>, VisitOrderBy)
  \o Clause(n, "Limit", <<"Limit">>, VisitExpression)

VisitRow(n) == Paren(List(n.kids, VisitExpression))
VisitInsertStatement(n) ==
  <<"Insert", "Into">> \o WriteIdentifier(n.w)
  \o (IF Has(n, "Columns") THEN Paren(Words(The(n, "Columns").kids)) ELSE <<>>)
  \o (IF Has(n, "Values") THEN <<"Values">> \o List(The(n, "Values").kids, VisitRow)
      ELSE VisitSelectStatement(The(n, "Select")))
VisitAssignment(n) == WriteIdentifier(n.w) \o <<"Eq">> \o VisitExpression(n.kids[1])
(* Mutant: the condition is forgotten.                                     *)
UpdateEverything(n) ==
  <<"Update">> \o VisitTableFactor(The(n, "Table")) \o <<"Set">>
  \o List(The(n, "Assignments").kids, VisitAssignment)
VisitUpdateStatement(n) ==
  <<"Update">> \o VisitTableFactor(The(n, "Table")) \o <<"Set">>
  \o List(The(n, "Assignments").kids, VisitAssignment) \o Clause(n, "Where", <<"Where">>, VisitExpression)
VisitDeleteStatement(n) ==
  <<"Delete", "From">> \o VisitTableFactor(The(n, "Table"))
  \o Clause(n, "Where", <<"Where">>, VisitExpression)

------------------------------------------------------------------------------
(* Definitions (ddl.rs) *)
EmitDataType(n) ==
  CASE n.w \in {"TinyInt", "SmallInt", "Int", "BigInt"} -> <<"INTEGER">>
    [] n.w \in {"VarChar", "Char"} -> Sized(n.w, n)
    [] n.w \in {"Decimal", "Numeric"} -> IF n.kids = <<>> THEN <<"NUMERIC">> ELSE Sized(n.w, n)
    [] n.w \in {"Real", "Double"} -> <<"REAL">>
    [] OTHER -> <<"TEXT">>
VisitColumnConstraint(n) ==
  CASE n.op = "PrimaryKey" -> <<"Primary", "Key">>
    [] n.op = "Unique" -> <<"Unique">>
    [] n.op = "Check" -> <<"Check">> \o Paren(VisitExpression(n.kids[1]))
    [] n.op = "References" -> <<"References", n.w>> \o Paren(Words(n.kids))
    [] n.op = "AutoIncrement" -> <<"AutoIncrement">>
VisitColumnDef(n) ==
  WriteIdentifier(n.w) \o EmitDataType(The(n, "Type")) \o Flag(n, "NotNull", <<"Not", "Null">>)
  \o Clause(n, "Default", <<"Default">>, VisitExpression)
  \o FlattenSeq(All(OfKind(n, ColumnConstraints), VisitColumnConstraint))
VisitTableConstraint(n) ==
  (IF n.w = "" THEN <<>> ELSE <<"Constraint", n.w>>)
  \o CASE n.op = "TablePrimaryKey" -> <<"Primary", "Key">> \o Paren(Words(n.kids))
       [] n.op = "TableUnique" -> <<"Unique">> \o Paren(Words(n.kids))
       [] n.op = "TableCheck" -> <<"Check">> \o Paren(VisitExpression(n.kids[1]))
       [] n.op = "TableForeignKey" ->
            <<"Foreign", "Key">> \o Paren(Words(OfKind(n, {"Ident"})))
            \o VisitColumnConstraint(The(n, "References"))
VisitCreateTable(n) ==
  LET Part(k) == IF k.op = "ColumnDef" THEN VisitColumnDef(k) ELSE VisitTableConstraint(k)
  IN <<"Create">> \o Flag(n, "Temporary", <<"Temporary">>) \o <<"Table", n.w>>
     \o Paren(List(OfKind(n, {"ColumnDef"}) \o OfKind(n, TableConstraints), Part))
VisitAlterAction(n) ==
  CASE n.op = "AddColumn" -> <<"Add", "Column">> \o VisitColumnDef(n.kids[1])
    [] n.op = "DropColumn" -> <<"Drop", "Column", n.w>>
    [] n.op = "RenameTo" -> <<"Rename", "To", n.w>>
    [] OTHER -> <<"Error">>                    \* ALTER COLUMN, ADD and DROP CONSTRAINT
VisitAlterTable(n) ==
  <<"Alter", "Table", n.w>> \o (IF Len(n.kids) = 1 THEN VisitAlterAction(n.kids[1]) ELSE <<"Error">>)
VisitDropTable(n) == <<"Drop", "Table", n.w>>
VisitCreateIndex(n) ==
  <<"Create">> \o Flag(n, "Unique", <<"Unique">>) \o <<"Index", n.w, "On", The(n, "On").w>>
  \o Paren(Words(OfKind(n, {"Ident"})))
VisitDropIndex(n) == <<"Drop", "Index", n.w>>

VisitStatement(n) ==
  CASE n.op = "Select" -> VisitSelectStatement(n)
    [] n.op = "Insert" -> VisitInsertStatement(n)
    [] n.op = "Update" -> VisitUpdateStatement(n)
    [] n.op = "Delete" -> VisitDeleteStatement(n)
    [] n.op = "CreateTable" -> VisitCreateTable(n)
    [] n.op = "AlterTable" -> VisitAlterTable(n)
    [] n.op = "DropTable" -> VisitDropTable(n)
    [] n.op = "CreateIndex" -> VisitCreateIndex(n)
    [] n.op = "DropIndex" -> VisitDropIndex(n)
    [] n.op = "DialectSpecific" -> <<"Error">>
===============================================================================
