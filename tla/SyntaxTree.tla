----------------------------- MODULE SyntaxTree ------------------------------
(***************************************************************************)
(* The types of tsql-parser's tree (ast/*.rs): which nodes a node of the   *)
(* parser may have below it.  Flags and spans are left out, and so are     *)
(* types whose values are words of a token.                                *)
(***************************************************************************)
EXTENDS Grammar, Shapes

Names == NameTokens \cup {"Table", "View", "Proc", "Function", "Index", "Key", "Constraint",
                          "Trigger", "Go", "Goto", "Label"}
Booleans == {"TRUE", "FALSE", "UNKNOWN"}
IsValues == {"Null"} \cup Booleans
UnaryOperators == {"Plus", "Minus", "Tilde", "Not"}
(* In and Between are operators of the code's type that no tree has.       *)
BinaryOperators ==
  {"Plus", "Minus", "Star", "Slash", "Percent", "Eq", "Assign", "Ne", "NeAlt", "Lt", "Le", "Gt", "Ge",
   "NotLt", "NotGt", "And", "Or", "Concat"}
LiteralTokens == {"String", "NString", "Number", "FloatLiteral", "HexString", "Null", "TRUE", "FALSE"}
Expressions ==
  LiteralTokens \cup Names \cup KeywordIdents \cup Booleans \cup UnaryOperators \cup BinaryOperators
  \cup {"Column", "Call", "Case", "Select", "Exists", "In", "NotIn", "Between", "NotBetween",
        "Like", "NotLike", "Is", "IsNot"}
StatementNodes ==
  {"Select", "Insert", "Update", "Delete", "Create", "AlterTable", "Declare", "Set", "If", "While", "Block",
   "Break", "Continue", "Return", "TryCatch", "Transaction", "Throw", "Raiserror", "Exec", "BatchSeparator"}

E1 == Field(Expressions)
OptionE == OptionField(Expressions)
N1 == Field(Names)

OperatorFields ==
  [o \in UnaryOperators \cup BinaryOperators |->
     IF o \notin BinaryOperators THEN <<E1>> ELSE IF o \in UnaryOperators THEN <<E1, OptionE>> ELSE <<E1, E1>>]
PredicateFields ==
  [o \in {"Exists", "In", "NotIn", "Between", "NotBetween", "Like", "NotLike", "Is", "IsNot"} |->
     CASE o = "Exists" -> <<Field({"Select"})>>
       [] o \in {"In", "NotIn"} -> <<E1, VecField(Expressions)>>
       [] o \in {"Between", "NotBetween"} -> <<E1, E1, E1>>
       [] o \in {"Like", "NotLike"} -> <<E1, E1, OptionE>>
       [] o \in {"Is", "IsNot"} -> <<E1, Field(IsValues)>>]
OperandFields ==
  [Column |-> <<Field(Names \cup KeywordIdents), Field(Unchecked)>>,
   Call |-> <<Field(Names \cup KeywordIdents), VecField(Expressions)>>,
   Case |-> <<VecField(Expressions)>>]

QueryFields ==
  [Select |-> <<OptionField({"Top"}), OptionField({"VariableAssignment"}),
                VecField({"Wildcard", "QualifiedWildcard", "Item"}), OptionField({"From"}), OptionField({"Where"}),
                OptionField({"GroupBy"}), OptionField({"Having"}), OptionField({"OrderBy"})>>,
   Top |-> <<E1>>, Wildcard |-> <<>>, QualifiedWildcard |-> <<Field(Names \cup KeywordIdents)>>,
   Item |-> <<E1, OptionField({"Alias"})>>, Alias |-> <<Field(Unchecked)>>,
   From |-> <<Field({"TableRef"}), VecField({"TableRef"}), VecField({"Join"})>>,
   TableRef |-> <<Field(Unchecked), OptionField({"Alias"})>>,
   Join |-> <<Field({"TableRef"}), OptionField({"On"}), OptionField({"Using"})>>,
   On |-> <<E1>>, Using |-> <<N1, VecField(Names)>>, Where |-> <<E1>>, Having |-> <<E1>>,
   GroupBy |-> <<E1, VecField(Expressions)>>, OrderBy |-> <<E1, VecField(Expressions)>>]

ModificationFields ==
  [Insert |-> <<N1, OptionField({"Columns"}), Field({"Values", "DefaultValues", "Select"})>>,
   Columns |-> <<VecField(Names)>>, Values |-> <<Field({"Row"}), VecField({"Row"})>>,
   Row |-> <<VecField(Expressions)>>, DefaultValues |-> <<>>,
   Update |-> <<Field({"TableRef"}), Field({"Assignment"}), VecField({"Assignment"}),
                OptionField({"From"}), OptionField({"Where"})>>,
   Assignment |-> <<N1, E1>>,
   Delete |-> <<N1, OptionField({"From"}), OptionField({"Where"})>>]

VariableFields ==
  [Declare |-> <<Field({"Variable"}), VecField({"Variable"})>>, Variable |-> <<N1, Field({"Type"}), OptionE>>,
   Set |-> <<N1, E1>>, VariableAssignment |-> <<N1, E1, VecField(Names \cup Expressions)>>]
BranchFields ==
  [If |-> <<E1, Field(StatementNodes), OptionField(StatementNodes)>>, While |-> <<E1, Field(StatementNodes)>>,
   Block |-> <<VecField(StatementNodes)>>, Break |-> <<>>, Continue |-> <<>>, Return |-> <<OptionE>>,
   TryCatch |-> <<Field(StatementNodes), Field(StatementNodes)>>]
TransactionFields ==
  [Transaction |-> <<OptionField(Names)>>, Throw |-> <<OptionE, OptionE, OptionE>>,
   Raiserror |-> <<E1, OptionE, OptionE>>, BatchSeparator |-> <<>>]

TableFields ==
  [Create |-> <<Field({"Table", "Index", "UniqueIndex", "View", "Procedure", "Trigger"})>>,
   Table |-> <<N1, VecField({"ColumnDef", "TableConstraint"})>>,
   ColumnDef |-> <<N1, Field({"Type"}), OptionField({"Null", "NotNull"}), OptionField({"Identity"}),
                   OptionField({"Default"}), VecField({"Constraint"})>>,
   Type |-> <<>>, Null |-> <<>>, NotNull |-> <<>>, Identity |-> <<>>, Default |-> <<OptionE>>,
   Constraint |-> <<OptionField(Names \cup Expressions), OptionField(Names)>>]
ConstraintFields ==
  [TableConstraint |-> <<OptionField({"Name"}), Field({"Primary", "Unique", "Foreign", "Check"})>>,
   Name |-> <<N1>>, Primary |-> <<Field({"Columns"})>>, Unique |-> <<Field({"Columns"})>>,
   Foreign |-> <<Field({"Columns"}), N1, Field({"Columns"} \cup Names)>>, Check |-> <<E1>>]
IndexFields == [o \in {"Index", "UniqueIndex"} |-> <<N1, N1, Field({"Columns"})>>]
ProgramFields ==
  [View |-> <<N1, Field({"Select"})>>,
   Procedure |-> <<N1, VecField({"Parameter"}), Field(StatementNodes)>>,
   Parameter |-> <<N1, Field({"Type"}), OptionE, OptionField({"Output"})>>, Output |-> <<>>]
AlterFields == [AlterTable |-> <<N1, N1, OptionField({"Type"}), OptionField({"Null", "NotNull"})>>]
ExecFields == [Exec |-> <<N1, VecField(Expressions \cup {"Named"})>>, Named |-> <<N1, E1>>]
TriggerFields ==
  [Trigger |-> <<N1, N1, Field({"Event"}), VecField({"Event"}), Field(StatementNodes)>>, Event |-> <<>>]

Types ==
  {OperatorFields, PredicateFields, OperandFields, QueryFields, ModificationFields, VariableFields, BranchFields,
   TransactionFields, TableFields, ConstraintFields, IndexFields, ProgramFields, AlterFields, ExecFields, TriggerFields}

(* A node is a token of the input, or a value of one of these types.       *)
NodeKind(n) == IF n.op \in Booleans THEN n.op ELSE KindOf(n.op)
WellFormed(inp, n) ==
  \/ n.kids = <<>> /\ n.to = n.from /\ inp[n.from] = n.op
  \/ \E fields \in Types :
       n.op \in DOMAIN fields /\ Fits([k \in DOMAIN n.kids |-> NodeKind(n.kids[k])], fields[n.op])

(* A node and those below it.                                              *)
RECURSIVE NodesBelow(_)
NodesBelow(n) == {n} \cup UNION {NodesBelow(n.kids[k]) : k \in DOMAIN n.kids}
===============================================================================
