---------------------------- MODULE ToCommonSql -----------------------------
(***************************************************************************)
(* to_common_sql: from a T-SQL statement to a dialect-independent one.     *)
(* Convert gives <<n>>, or <<>> for the None of the code.  Where a kid     *)
(* does not convert, either the node fails with it (the ? of the code) or  *)
(* the kid vanishes (filter_map and and_then).                             *)
(***************************************************************************)
EXTENDS SqlTree, Shapes

(* Statements carried along as a classification, without their tree.       *)
Procedural == {"Declare", "Set", "VariableAssignment", "If", "While", "Block", "Break", "Continue",
               "Return", "TryCatch", "Transaction", "Throw", "Raiserror", "Exec"}
Refused == {"CreateView", "CreateProcedure", "CreateTrigger", "BatchSeparator"}
RefusedOperators == {"Tilde", "NotLt", "NotGt", "In", "Between"}
(* Mutant: BIT, which has no counterpart, is let through.                  *)
RefusedTypesButBit == {"SmallDateTime", "Money", "SmallMoney"}
RefusedTypes == {"SmallDateTime", "Bit", "Money", "SmallMoney"}
RefusedLiterals == {"HexString", "HugeNumber"}      \* HugeNumber does not fit an i64
RefusedUpdate(n) == n.op \in {"Update", "Delete"} /\ (Has(n, "From") \/ ~Has(n, "Table"))
RefusedTest(n) == n.op \in {"Is", "IsNot"} /\ n.w \in {"TRUE", "FALSE"}
NoCounterpart(n) ==
  \/ n.op \in Refused \cup RefusedLiterals
  \/ n.op \in {"Infix", "Unary"} /\ n.w \in RefusedOperators
  \/ n.op = "Type" /\ n.w \in RefusedTypes
  \/ RefusedUpdate(n) \/ RefusedTest(n)

(* Kids the code does not look at.                                         *)
IgnoredIn(op) ==
  CASE op = "Select" -> {"Distinct"}
    [] op = "From" -> {"Join"}
    [] op = "Like" -> {"Escape"}
    [] op = "ColumnDef" -> {"Identity", "Nullable"}
    [] OTHER -> {}
(* Mutant: the conditions of a query vanish, too.                          *)
VanishingConditions(op) ==
  CASE op = "Select" -> {"From", "Where", "GroupBy", "Having", "OrderBy", "Limit"}
    [] op \in {"Update", "Delete"} -> {"Where"}
    [] op = "Case" -> {"Else"}
    [] op = "ColumnDef" -> {"Default"}
    [] OTHER -> {}
(* Kids that vanish when they do not convert.                              *)
VanishingIn(op) ==
  CASE op = "Select" -> {"From", "GroupBy", "OrderBy", "Limit"}
    [] op \in {"Update", "Delete"} -> {"Where"}
    [] op = "Case" -> {"Else"}
    [] op = "ColumnDef" -> {"Default"}
    [] OTHER -> {}
FilteredLists == {"GroupBy", "OrderBy", "Values", "Assignments", "ValueList", "Call"}
(* Any other kid takes its parent with it.                                 *)
Essential(op, kid) == op \notin FilteredLists /\ kid \notin VanishingIn(op)

ConvertDataType(n) ==
  [n EXCEPT !.w = CASE n.w = "Float" -> "Double" [] n.w = "UniqueIdentifier" -> "Uuid" [] OTHER -> n.w]
ConvertOperator(n) == IF n.w = "NeAlt" THEN [n EXCEPT !.w = "Eq"] ELSE n
ConvertArgs(kids) == All(kids, LAMBDA k : IF k.op = "Star" THEN Name("*") ELSE k)
WithoutAlias(kids) == All(kids, LAMBDA k : IF k.op = "Table" THEN Leaf("Table", k.w) ELSE k)

(* The node of a tree whose kids have been converted.                      *)
Rebuilt(n) ==
  CASE n.op = "Infix" -> ConvertOperator(n)
    [] n.op = "Like" -> N("Infix", n.w, n.kids)
    [] n.op \in {"Is", "IsNot"} -> N("IsNull", n.op, n.kids)
    [] n.op = "Call" -> [n EXCEPT !.kids = ConvertArgs(@)]
    [] n.op = "Type" -> ConvertDataType(n)
    [] n.op = "From" -> [n EXCEPT !.kids = SubSeq(@, 1, 1)]
    [] n.op = "DefaultValues" -> Leaf("Values", "")
    [] n.op \in {"Update", "Delete"} -> [n EXCEPT !.kids = WithoutAlias(@)]
    [] OTHER -> n

RECURSIVE Convert(_)
Convert(n) ==
  LET seen == SelectSeq(n.kids, LAMBDA k : k.op \notin IgnoredIn(n.op))
      made == All(seen, Convert)
      kids == FlattenSeq(made)
  IN CASE n.op \in Procedural -> <<Leaf("DialectSpecific", n.op)>>
       [] NoCounterpart(n) \/ \E k \in DOMAIN seen : made[k] = <<>> /\ Essential(n.op, seen[k].op) -> <<>>
       [] n.op \in {"GroupBy", "OrderBy"} /\ kids = <<>> -> <<>>
       [] OTHER -> <<Rebuilt([n EXCEPT !.kids = kids])>>

------------------------------------------------------------------------------
(***************************************************************************)
(* The types of common SQL (common-sql/src/ast/*.rs): what a tree that is  *)
(* handed to an emitter may be.  Left out are the fields and variants that *)
(* nobody sets (CTE, joins, CAST, ON CONFLICT, OFFSET, NULLS FIRST, table  *)
(* options, IF [NOT] EXISTS).                                              *)
(***************************************************************************)
UnaryOperators == {"Plus", "Minus", "Not"}
BinaryOperators ==
  {"Plus", "Minus", "Star", "Slash", "Percent", "Concat", "And", "Or", "Eq", "Ne", "Lt", "Le", "Gt", "Ge",
   "Like", "NotLike", "ILike", "NotILike"}
(* The data types, with the most numbers each may carry.                   *)
DataTypes ==
  [t \in {"TinyInt", "SmallInt", "Int", "BigInt", "Real", "Double", "Text", "NText", "Date", "Blob",
          "Boolean", "Uuid", "Json"} |-> 0]
  @@ [t \in {"Char", "VarChar", "NChar", "NVarChar", "Time", "DateTime", "Timestamp", "Binary", "VarBinary"} |-> 1]
  @@ [t \in {"Decimal", "Numeric"} |-> 2]
StatementNodes == {"Select", "Insert", "Update", "Delete", "CreateTable", "AlterTable", "DropTable",
                   "CreateIndex", "DropIndex", "DialectSpecific"}
ExpressionNodes == Literals \cup {"Ident", "Qualified", "Infix", "Unary", "Call", "Case", "Select", "Exists",
                                  "InList", "Between", "IsNull"}

E == Field(ExpressionNodes)
ManyE == VecField(ExpressionNodes)
ManyNames == VecField({"Ident"})

ExpressionFields ==
  [x \in Literals \cup {"Ident"} |-> <<>>] @@
  [Qualified |-> <<Field({"Ident"}), Field({"Ident"})>>, Infix |-> <<E, E>>, Unary |-> <<E>>,
   Call |-> <<OptionField({"Distinct"}), ManyE>>,
   Case |-> <<VecField({"When"}), OptionField({"Else"})>>, When |-> <<E, E>>, Else |-> <<E>>,
   Exists |-> <<Field({"Select"})>>, InList |-> <<E, Field({"ValueList", "Select"})>>, ValueList |-> <<ManyE>>,
   Between |-> <<E, E, E>>, IsNull |-> <<E>>]
SelectFields ==
  [Select |-> <<Field({"Items"})>> \o All(<<"From", "Where", "GroupBy", "Having", "OrderBy", "Limit">>,
                                          LAMBDA clause : OptionField({clause})),
   Items |-> <<VecField({"Item", "Star", "QualifiedStar"})>>, Item |-> <<E, OptionField({"Alias"})>>,
   From |-> <<Field({"Table", "Derived"})>>, Table |-> <<OptionField({"Alias"})>>,
   Derived |-> <<Field({"Select"}), OptionField({"Alias"})>>, Where |-> <<E>>, Having |-> <<E>>]
ClauseFields ==
  [GroupBy |-> <<ManyE>>, OrderBy |-> <<VecField({"Asc", "Desc"})>>, Asc |-> <<E>>, Desc |-> <<E>>, Limit |-> <<E>>]
ModificationFields ==
  [Insert |-> <<OptionField({"Columns"}), Field({"Values", "Select"})>>, Columns |-> <<ManyNames>>,
   Values |-> <<VecField({"Row"})>>, Row |-> <<ManyE>>,
   Update |-> <<Field({"Table"}), Field({"Assignments"}), OptionField({"Where"})>>,
   Assignments |-> <<VecField({"Assign"})>>, Assign |-> <<E>>,
   Delete |-> <<Field({"Table"}), OptionField({"Where"})>>]
ColumnFields ==
  [ColumnDef |-> <<Field({"Type"}), OptionField({"NotNull"}), OptionField({"Default"}), VecField(ColumnConstraints)>>,
   Type |-> <<VecField({"Number"})>>, Default |-> <<E>>, Check |-> <<E>>, References |-> <<ManyNames>>]
ConstraintFields ==
  [TablePrimaryKey |-> <<ManyNames>>, TableUnique |-> <<ManyNames>>,
   TableForeignKey |-> <<ManyNames, Field({"References"})>>, TableCheck |-> <<E>>]
TableFields ==
  [CreateTable |-> <<OptionField({"Temporary"}), VecField({"ColumnDef"}), VecField(TableConstraints)>>,
   CreateIndex |-> <<OptionField({"Unique"}), Field({"On"}), ManyNames>>, DropIndex |-> <<OptionField({"On"})>>]
AlterFields ==
  [AlterTable |-> <<VecField({"AddColumn", "DropColumn", "AlterColumn", "AddConstraint", "DropConstraint", "RenameTo"})>>,
   AddColumn |-> <<Field({"ColumnDef"})>>, AddConstraint |-> <<Field(TableConstraints)>>,
   AlterColumn |-> <<OptionField({"Type"}), OptionField({"Default", "DropDefault"}), OptionField({"Nullable", "NotNull"})>>]
(* Flags and names.                                                        *)
FlagFields == [x \in {"DialectSpecific", "DropTable", "Distinct", "Star", "QualifiedStar", "Alias", "Temporary",
                  "NotNull", "Nullable", "DropDefault", "PrimaryKey", "Unique", "AutoIncrement", "On",
                  "DropColumn", "DropConstraint", "RenameTo"} |-> <<>>]

TreeTypes == {ExpressionFields, SelectFields, ClauseFields, ModificationFields, ColumnFields, ConstraintFields,
              TableFields, AlterFields, FlagFields}

WellFormed(n) ==
  /\ \E fields \in TreeTypes : n.op \in DOMAIN fields /\ Fits(All(n.kids, LAMBDA k : k.op), fields[n.op])
  /\ n.op = "Infix" => n.w \in BinaryOperators
  /\ n.op = "Unary" => n.w \in UnaryOperators
  /\ n.op = "Type" => n.w \in DOMAIN DataTypes /\ Len(n.kids) <= DataTypes[n.w]
IsCommonSql(n) == n.op \in StatementNodes /\ \A m \in NodesIn(n) : WellFormed(m)
=============================================================================
