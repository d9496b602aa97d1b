---------------------------- MODULE MySqlEmitter ----------------------------
(***************************************************************************)
(* The MySQL text of a common-sql statement.  Operators are written        *)
(* without parentheses, and of a query inside an expression only the list  *)
(* of columns is.                                                          *)
(***************************************************************************)
EXTENDS SqlTree

RECURSIVE VisitExpression(_), EmitSelect(_)

(* Every name is back-quoted, the star of COUNT too.                       *)
VisitIdentifier(w) == IF w = "*" THEN <<"backquoted *">> ELSE <<w>>
VisitLiteral(n) == IF n.op \in {"TRUE", "FALSE", "Null"} THEN <<n.op>> ELSE <<n.w>>
VisitUnaryOp(n) == <<n.w>> \o VisitExpression(n.kids[1])
Infix(w) == IF w = "NotLike" THEN <<"Not", "Like">> ELSE <<w>>
VisitBinaryOp(n) ==
  IF n.w \in {"ILike", "NotILike"} THEN VisitExpression(n.kids[1]) \o <<"Error">>
  ELSE VisitExpression(n.kids[1]) \o Infix(n.w) \o VisitExpression(n.kids[2])

FunctionNames ==
  [GETDATE |-> "NOW", GETUTCDATE |-> "UTC_TIMESTAMP", LEN |-> "LENGTH", CHARINDEX |-> "LOCATE",
   REPLICATE |-> "REPEAT", ISNULL |-> "IFNULL", NEWID |-> "UUID", CEILING |-> "CEIL",
   POWER |-> "POW", PATINDEX |-> "LOCATE", STUFF |-> "INSERT"]
MapFunctionName(w) == IF w \in DOMAIN FunctionNames THEN FunctionNames[w] ELSE w
(* An unknown datepart is a day.                                           *)
Dateparts == {"year", "month", "day", "hour", "minute", "second"}
ConvertDatepart(n) == IF n.op \in {"String", "Ident"} /\ n.w \in Dateparts THEN n.w ELSE "day"
(* The datepart is a name or a string, or else written to be looked at.    *)
ConvertDateadd(args) ==
  LET looked == IF args[1].op \in {"String", "Ident"} THEN <<>> ELSE VisitExpression(args[1])
  IN IF Failed(looked) THEN looked
     ELSE <<"DATE_ADD">> \o Paren(VisitExpression(args[3]) \o <<"Comma", "INTERVAL">>
                                  \o VisitExpression(args[2]) \o <<ConvertDatepart(args[1])>>)
ConvertDatediff(args) ==
  LET part == VisitExpression(args[1])
  IN IF Failed(part) THEN part
     ELSE <<"DATEDIFF">> \o Paren(VisitExpression(args[3]) \o <<"Comma">> \o VisitExpression(args[2]))
ConvertFunction(n) ==
  LET args == SelectSeq(n.kids, LAMBDA k : k.op # "Distinct")
      Plain == <<MapFunctionName(n.w)>> \o Paren(List(args, VisitExpression))
  IN CASE n.w \in {"DATEADD", "DATEDIFF"} /\ Len(args) < 3 -> <<"Error">>
       [] n.w = "DATEADD" -> ConvertDateadd(args)
       [] n.w = "DATEDIFF" -> ConvertDatediff(args)
       [] n.w = "RAND" -> <<"RAND", "LParen", "RParen">>
       [] n.w = "STUFF" -> IF Len(args) = 4 THEN Plain ELSE <<"Error">>
       [] OTHER -> <<MapFunctionName(n.w)>>
                   \o Paren((IF args = <<>> THEN <<>> ELSE Flag(n, "Distinct", <<"Distinct">>))
                            \o List(args, VisitExpression))

VisitCase(n) ==
  LET When(k) == IF k.op = "When" THEN <<"When">> \o VisitExpression(k.kids[1])
                                       \o <<"Then">> \o VisitExpression(k.kids[2])
                 ELSE <<"Else">> \o VisitExpression(k.kids[1])
  IN <<"Case">> \o FlattenSeq(All(n.kids, When)) \o <<"End">>

Alias(n, keyword) == IF Has(n, "Alias") THEN keyword \o <<The(n, "Alias").w>> ELSE <<>>
RenderSelectItem(n) ==
  CASE n.op = "Item" -> VisitExpression(n.kids[1]) \o Alias(n, <<"As">>)
    [] n.op = "Star" -> <<"Star">>
    [] n.op = "QualifiedStar" -> <<n.w, "Dot", "Star">>
(* A query inside an expression.                                           *)
VisitSelectStatement(n) == <<"Select">> \o List(The(n, "Items").kids, RenderSelectItem)
VisitIn(n) ==
  VisitExpression(n.kids[1]) \o (IF n.w = "NotIn" THEN <<"Not", "In">> ELSE <<"In">>)
  \o Paren(IF n.kids[2].op = "Select" THEN VisitSelectStatement(n.kids[2])
           ELSE List(n.kids[2].kids, VisitExpression))
VisitBetween(n) ==
  VisitExpression(n.kids[1]) \o (IF n.w = "NotBetween" THEN <<"Not", "Between">> ELSE <<"Between">>)
  \o VisitExpression(n.kids[2]) \o <<"And">> \o VisitExpression(n.kids[3])
VisitIsNull(n) ==
  VisitExpression(n.kids[1]) \o (IF n.w = "IsNot" THEN <<"Is", "Not", "Null">> ELSE <<"Is", "Null">>)

VisitExpression(n) ==
  CASE n.op \in Literals -> VisitLiteral(n)
    [] n.op = "Ident" -> VisitIdentifier(n.w)
    [] n.op = "Qualified" -> <<n.kids[1].w, "Dot", n.kids[2].w>>
    [] n.op = "Infix" -> VisitBinaryOp(n)
    [] n.op = "Unary" -> VisitUnaryOp(n)
    [] n.op = "Call" -> ConvertFunction(n)
    [] n.op = "Case" -> VisitCase(n)
    [] n.op = "InList" -> VisitIn(n)
    [] n.op = "Between" -> VisitBetween(n)
    [] n.op = "IsNull" -> VisitIsNull(n)
    [] n.op = "Select" -> Paren(VisitSelectStatement(n))
    [] n.op = "Exists" -> <<"Exists">> \o Paren(VisitSelectStatement(n.kids[1]))

------------------------------------------------------------------------------
(* Queries and data modification (statement.rs) *)
RenderTableFactor(n) ==
  (IF n.op = "Table" THEN <<n.w>> ELSE Paren(EmitSelect(n.kids[1]))) \o Alias(n, <<>>)
RenderOrderBy(n) == VisitExpression(n.kids[1]) \o <<n.op>>
EmitSelect(n) ==
  VisitSelectStatement(n)
  \o Clause(n, "From", <<"From">>, RenderTableFactor)
  \o Clause(n, "Where", <<"Where">>, VisitExpression)
  \o Clause(n, "GroupBy", <<"Group", "By">>, VisitExpression)
  \o Clause(n, "Having", <<"Having">>, VisitExpression)
  \o Clause(n, "OrderBy", <<"Order", "By">>, RenderOrderBy)
  \o Clause(n, "Limit", <<"Limit">>, VisitExpression)

(* unwrap_or_default: a value that cannot be written is written as nothing. *)
ValueOrNothing(n) == IF Failed(VisitExpression(n)) THEN <<>> ELSE VisitExpression(n)
RenderRow(n) == Paren(List(n.kids, ValueOrNothing))
EmitInsert(n) ==
  <<"Insert", "Into", n.w>>
  \o (IF Has(n, "Columns") THEN Paren(Words(The(n, "Columns").kids)) ELSE <<>>)
  \o (IF Has(n, "Values") THEN <<"Values">> \o List(The(n, "Values").kids, RenderRow)
      ELSE EmitSelect(The(n, "Select")))
RenderAssignment(n) == <<n.w, "Eq">> \o ValueOrNothing(n.kids[1])
(* Without assignments the rest of the line is a comment.                  *)
EmitUpdate(n) ==
  <<"Update">> \o RenderTableFactor(The(n, "Table")) \o <<"Set">>
  \o (IF The(n, "Assignments").kids = <<>> THEN <<"-- no assignments">>
      ELSE List(The(n, "Assignments").kids, RenderAssignment))
  \o Clause(n, "Where", <<"Where">>, VisitExpression)
EmitDelete(n) ==
  <<"Delete", "From">> \o RenderTableFactor(The(n, "Table"))
  \o Clause(n, "Where", <<"Where">>, VisitExpression)

------------------------------------------------------------------------------
(* Definitions (ddl.rs, converters/datatype.rs) *)
ConvertDataType(n) ==
  CASE n.w = "Numeric" -> Sized("Decimal", n)
    [] n.w = "Real" -> <<"Double">>
    [] n.w \in {"Char", "VarChar", "Binary", "VarBinary"} /\ n.kids = <<>> -> <<n.w>> \o Paren(<<"1">>)
    [] n.w = "Uuid" -> <<"Char">> \o Paren(<<"36">>)
    [] OTHER -> Sized(n.w, n)
RenderColumnConstraint(n) ==
  CASE n.op = "PrimaryKey" -> <<"Primary", "Key">>
    [] n.op = "Unique" -> <<"Unique">>
    [] n.op = "Check" -> <<"Check">> \o Paren(VisitExpression(n.kids[1]))
    [] n.op = "References" -> <<"References", n.w>> \o Paren(Words(n.kids))
    [] n.op = "AutoIncrement" -> <<"AutoIncrement">>
RenderColumnDef(n) ==
  <<n.w>> \o ConvertDataType(The(n, "Type")) \o Flag(n, "NotNull", <<"Not", "Null">>)
  \o Clause(n, "Default", <<"Default">>, VisitExpression)
  \o FlattenSeq(All(OfKind(n, ColumnConstraints), RenderColumnConstraint))
RenderTableConstraint(n) ==
  (IF n.w = "" THEN <<>> ELSE <<"Constraint", n.w>>)
  \o CASE n.op = "TablePrimaryKey" -> <<"Primary", "Key">> \o Paren(Words(n.kids))
       [] n.op = "TableUnique" -> <<"Unique">> \o Paren(Words(n.kids))
       [] n.op = "TableCheck" -> <<"Check">> \o Paren(VisitExpression(n.kids[1]))
       [] n.op = "TableForeignKey" ->
            <<"Foreign", "Key">> \o Paren(Words(OfKind(n, {"Ident"})))
            \o RenderColumnConstraint(The(n, "References"))
EmitCreateTable(n) ==
  LET Part(k) == IF k.op = "ColumnDef" THEN RenderColumnDef(k) ELSE RenderTableConstraint(k)
  IN <<"Create">> \o Flag(n, "Temporary", <<"Temporary">>) \o <<"Table", n.w>>
     \o Paren(List(OfKind(n, {"ColumnDef"}) \o OfKind(n, TableConstraints), Part))
(* ALTER COLUMN is MODIFY COLUMN with the whole definition.                *)
ModifyColumn(n) ==
  <<"Modify", "Column", n.w>>
  \o (IF Has(n, "Type") THEN ConvertDataType(The(n, "Type")) ELSE <<>>)
  \o Flag(n, "NotNull", <<"Not", "Null">>) \o Flag(n, "Nullable", <<"Null">>)
  \o Clause(n, "Default", <<"Default">>, VisitExpression)
  \o Flag(n, "DropDefault", <<"Default", "Null">>)
RenderAlterAction(n) ==
  CASE n.op = "AddColumn" -> <<"Add", "Column">> \o RenderColumnDef(n.kids[1])
    [] n.op = "DropColumn" -> <<"Drop", "Column", n.w>>
    [] n.op = "AlterColumn" -> ModifyColumn(n)
    [] n.op = "AddConstraint" -> <<"Add">> \o RenderTableConstraint(n.kids[1])
    [] n.op = "DropConstraint" -> <<"Drop", "Constraint", n.w>>
    [] n.op = "RenameTo" -> <<"Rename", "To", n.w>>
EmitAlterTable(n) == <<"Alter", "Table", n.w>> \o List(n.kids, RenderAlterAction)
EmitDropTable(n) == <<"Drop", "Table", n.w>>
EmitCreateIndex(n) ==
  <<"Create">> \o Flag(n, "Unique", <<"Unique">>) \o <<"Index", n.w, "On", The(n, "On").w>>
  \o Paren(Words(OfKind(n, {"Ident"})))
EmitDropIndex(n) == <<"Drop", "Index", n.w>> \o (IF Has(n, "On") THEN <<"On", The(n, "On").w>> ELSE <<>>)

Emit(n) ==
  CASE n.op = "Select" -> EmitSelect(n)
    [] n.op = "Insert" -> EmitInsert(n)
    [] n.op = "Update" -> EmitUpdate(n)
    [] n.op = "Delete" -> EmitDelete(n)
    [] n.op = "CreateTable" -> EmitCreateTable(n)
    [] n.op = "AlterTable" -> EmitAlterTable(n)
    [] n.op = "DropTable" -> EmitDropTable(n)
    [] n.op = "CreateIndex" -> EmitCreateIndex(n)
    [] n.op = "DropIndex" -> EmitDropIndex(n)
    [] n.op = "DialectSpecific" -> <<"Error">>
===============================================================================
