------------------------------- MODULE Grammar -------------------------------
(***************************************************************************)
(* The predictive parser of tsql-parser.  Every parse_* function of the    *)
(* crate is one definition: a term over a few combinators, which Run       *)
(* executes the way the function walks its token buffer.  A token is       *)
(* consumed where it is matched, an error consumes nothing more, and what  *)
(* was consumed before the error stays consumed.                           *)
(***************************************************************************)
EXTENDS ParserState

CONSTANTS
  MaxDepth,       \* max_depth of the statement parser, 1000 in the code
  MaxExprDepth    \* max_depth of the expression parser, 1000 in the code

ASSUME GrammarAssumption == MaxDepth \in Nat \ {0} /\ MaxExprDepth \in Nat \ {0}

(* A node of the tree: what it is, the tokens it spans, its operands.      *)
NodeOf(op, from, s, kids) == [op |-> op, from |-> from, to |-> s.pos - 1, kids |-> kids]

------------------------------------------------------------------------------
(* Combinators *)
Skip == [t |-> "skip"]
Fail == [t |-> "fail"]
Any == [t |-> "any"]                            \* consume() without a check
Leaf == [t |-> "leaf"]                          \* consume() and keep the token
Tok(K) == [t |-> "tok", k |-> K]                \* check, then consume
a ** b == [t |-> "then", a |-> a, b |-> b]
a | b == [t |-> "or", a |-> a, b |-> b]         \* a if its guard holds, else b
On(K, b) == [t |-> "on", k |-> K, next |-> {}, batch |-> FALSE, b |-> b]
OnPair(K, N, b) == [On(K, b) EXCEPT !.next = N] \* one token of lookahead more
OnBatch(K, b) == [On(K, b) EXCEPT !.batch = TRUE]
Opt(K, b) == On(K, b) | Skip
While(b) == [t |-> "while", b |-> b]            \* as long as the guard of b holds
Many(K, b) == While(On(K, b))
List(b) == b ** Many({"Comma"}, Any ** b)
ListTo(K, b) == [t |-> "list", k |-> K, b |-> b] \* a closing token after a comma is fine
NT(r) == [t |-> "rule", r |-> r]
Node(op, keep, b) == [t |-> "node", op |-> op, keep |-> keep, b |-> b]
Nested(b) == [t |-> "nested", b |-> b]
Try(b, more) == [t |-> "try", b |-> b, more |-> more]
Bp(m) == [t |-> "bp", m |-> m]
Binary == [t |-> "binary"]
Fresh(b) == [t |-> "fresh", b |-> b]            \* an ExpressionParser of its own
BlockBody == [t |-> "block"]
NoAssignment == [t |-> "noassignment"]
OnIdentifier(b) == [t |-> "onidentifier", b |-> b] \* b, if what was read last is an identifier

------------------------------------------------------------------------------
(* Expressions (expression/*.rs) *)
InfixPower ==
  [k \in {"Or", "And", "In", "Between", "Assign", "Eq", "Ne", "NeAlt", "Lt", "Le", "Gt", "Ge",
          "NotLt", "NotGt", "Plus", "Minus", "Concat", "Star", "Slash", "Percent"} |->
     CASE k = "Or" -> 1
       [] k = "And" -> 2
       [] k \in {"In", "Between"} -> 4
       [] k \in {"Plus", "Minus", "Concat"} -> 5
       [] k \in {"Star", "Slash", "Percent"} -> 6
       [] OTHER -> 3]
Lowest == 0
Comparison == 3
UnaryPower == 7
Expr == Bp(Lowest)
Subquery == NT("subquery")

(* Mutant: SELECT may be an identifier, too.                               *)
KeywordIdentsAndSelect == {"Int", "Begin", "End", "Go", "Select"}
KeywordIdents == {"Int", "Varchar", "Char", "Date", "Datetime", "Bit", "Text", "Binary", "Goto",
  "Label", "Begin", "End", "Go", "Table", "Index", "Key", "Constraint", "View", "Proc", "Function"}
NameTokens == {"Ident", "LocalVar", "GlobalVar", "TempTable", "GlobalTempTable", "QuotedIdent"}
Literals == {"String", "NString", "Number", "FloatLiteral", "HexString", "Null"}

ParseFunctionArg == On({"Star"}, Leaf) | Expr ** Opt({"Dot"}, Any ** Opt({"Star"}, Any))
ParseFunctionCall ==
  Node("Call", 1, Any ** Opt({"Distinct"}, Any) ** ListTo({"RParen", "Eof"}, ParseFunctionArg)
                  ** Tok({"RParen"}))
ParseIdentifierTail ==
  On({"Dot"}, Node("Column", 1, Any ** Leaf)) | On({"LParen"}, ParseFunctionCall) | Skip
ParsePrimary ==
  On(Literals \cup {"TRUE", "FALSE"}, Leaf) | On(NameTokens, Leaf ** ParseIdentifierTail) | Fail

ParseCaseExpression ==
  Node("Case", 0, Any ** Many({"When"}, Any ** Expr ** Tok({"Then"}) ** Expr)
                  ** Opt({"Else"}, Any ** Expr) ** Tok({"End"}))
ParseExistsExpression ==
  Node("Exists", 0, Any ** Tok({"LParen"}) ** Subquery ** Tok({"RParen"}))
Unary(k) == On({k}, Node(k, 0, Any ** Bp(UnaryPower)))
ParsePrefix ==
  Unary("Plus") | (Unary("Minus") | (Unary("Tilde") | (Unary("Not") |
  (On({"LParen"}, Any ** (On({"Select"}, Subquery) | Expr) ** Tok({"RParen"})) |
  (On({"Case"}, ParseCaseExpression) | (On({"Exists"}, ParseExistsExpression) |
  (On(KeywordIdents, Leaf ** ParseIdentifierTail) | ParsePrimary)))))))

ParseInExpression ==
  Tok({"LParen"}) ** (On({"Select"}, Subquery) | ListTo({"RParen", "Eof"}, Expr))
  ** Tok({"RParen"})
ParseBetweenExpression == Bp(Comparison) ** Tok({"And"}) ** Bp(Comparison)
ParseLikeExpression == Expr ** Opt({"Escape"}, Any ** Expr)
IsValue == On({"Null", "TRUE", "FALSE", "UNKNOWN"}, Leaf) | Any ** Fail
ParseIsExpression ==
  OnPair({"Is"}, {"Not"}, Node("IsNot", 1, Any ** Any ** IsValue))
  | On({"Is"}, Node("Is", 1, Any ** IsValue))
ParseNotSpecial ==
  OnPair({"Not"}, {"In"}, Node("NotIn", 1, Any ** Any ** ParseInExpression))
  | (OnPair({"Not"}, {"Between"}, Node("NotBetween", 1, Any ** Any ** ParseBetweenExpression))
  | OnPair({"Not"}, {"Like"}, Node("NotLike", 1, Any ** Any ** ParseLikeExpression)))

(* The infix loop of parse_bp: NOT IN and its kin, IS and LIKE are taken   *)
(* before the binding power is compared, the other operators after.        *)
InfixAmong(strong) ==
  ParseNotSpecial | (ParseIsExpression
  | (On({"Like"}, Node("Like", 1, Any ** ParseLikeExpression))
  | (On({"Between"} \cap strong, Node("Between", 1, Any ** ParseBetweenExpression))
  | (On({"In"} \cap strong, Node("In", 1, Any ** ParseInExpression)) | On(strong, Binary)))))
(* Mutant: the power of OR is not compared.                                *)
ParseInfixAndOr(m) == InfixAmong({k \in DOMAIN InfixPower : InfixPower[k] >= m} \cup {"Or"})
ParseInfix(m) == InfixAmong({k \in DOMAIN InfixPower : InfixPower[k] >= m})
ParseBp(m) == NT("prefix") ** While(ParseInfix(m))

SubqueryAlias ==
  On({"As"}, Node("Alias", 0, Any ** Leaf)) | Opt({"Ident"}, Node("Alias", 0, Leaf))
ParseSubqueryItem == On({"Star"}, Node("Wildcard", 0, Any)) | Node("Item", 0, Expr ** SubqueryAlias)
ParseSubqueryFrom ==
  Node("From", 0, Any ** List(Node("TableRef", 0,
    (On({"LParen"}, Any ** Subquery ** Tok({"RParen"})) | Leaf) ** SubqueryAlias)))
Where(e) == Opt({"Where"}, Node("Where", 0, Any ** e))
GroupBy(e) ==
  Opt({"Group"}, Node("GroupBy", 0, Any ** Tok({"By"}) ** List(e)))
  ** Opt({"Having"}, Node("Having", 0, Any ** e))
OrderBy(e) ==
  Opt({"Order"}, Node("OrderBy", 0, Any ** Tok({"By"}) ** List(e ** Opt({"Asc", "Desc"}, Any))))
ParseSubquerySelect ==
  Node("Select", 0,
       Any ** Opt({"Distinct"}, Any) ** List(ParseSubqueryItem) ** Opt({"From"}, ParseSubqueryFrom)
       ** Where(Expr) ** GroupBy(Expr) ** OrderBy(Expr))

------------------------------------------------------------------------------
(* Names, types and queries (helpers.rs, ddl.rs, select.rs) *)
ParseIdentifier ==
  On(NameTokens \cup {"Table", "View", "Proc", "Function", "Index", "Key", "Constraint",
                      "Trigger", "Go", "Goto", "Label"}, Leaf) | Fail
X == Fresh(Expr)
Equals == {"Eq", "Assign"}
Alias ==
  On({"As"}, Node("Alias", 0, Any ** ParseIdentifier)) | Opt({"Ident"}, Node("Alias", 0, ParseIdentifier))

Length == On({"HugeNumber"}, Fail) | Opt({"Number"}, Any)
ParseDataType == Node("Type", 0,
  On({"Int", "Integer", "Smallint", "Tinyint", "Bigint", "Float", "Real", "Double", "Date", "Time",
      "Datetime", "Smalldatetime", "Timestamp", "Bit", "Text", "Varbinary", "Uniqueidentifier",
      "Money", "Smallmoney"}, Any)
  | (On({"Varchar"}, Any ** Opt({"LParen"}, Any ** (On({"HugeNumber"}, Fail) | Any) ** Tok({"RParen"})))
  | (On({"Char", "Binary"}, Any ** Opt({"LParen"}, Any ** Length ** Tok({"RParen"})))
  | (On({"Decimal", "Numeric"},
        Any ** Opt({"LParen"}, Any ** Length ** Opt({"Comma"}, Any ** Length) ** Tok({"RParen"})))
  | Any ** Fail))))

ParseVariableAssignment ==
  LET Pair == ParseIdentifier ** Tok(Equals) ** X
  IN Node("VariableAssignment", 0,
          Pair ** Many({"Comma"}, Any ** (OnPair({"LocalVar"}, Equals, Pair) | Fail)))
ParseSelectItem ==
  On({"Star"}, Node("Wildcard", 0, Any))
  | X ** (OnIdentifier(OnPair({"Dot"}, {"Star"}, Node("QualifiedWildcard", 1, Any ** Any)))
          | Node("Item", 1, Opt({"Dot"}, Any ** Opt({"Star"}, Any)) ** Alias))
Select == NT("select")
ParseTableReference ==
  Node("TableRef", 0,
       (On({"LParen"}, Any ** Select ** NoAssignment ** Tok({"RParen"})) | ParseIdentifier) ** Alias)
ParseJoinType ==
  On({"Left", "Right", "Full"}, Any ** Opt({"Outer"}, Any)) | Opt({"Inner", "Cross"}, Any)
ParseJoin ==
  Node("Join", 0,
       ParseJoinType ** Tok({"Join"}) ** NT("table") ** Opt({"On"}, Node("On", 0, Any ** X))
       ** Opt({"Using"}, Node("Using", 0, Any ** Tok({"LParen"}) ** List(ParseIdentifier) ** Tok({"RParen"}))))
ParseFromClause ==
  Node("From", 0, Any ** List(NT("table"))
                  ** Many({"Inner", "Left", "Right", "Full", "Cross", "Join"}, ParseJoin))
ParseSelectStatement ==
  Node("Select", 0,
       Any ** Opt({"Distinct"}, Any) ** Opt({"Top"}, Node("Top", 0, Any ** Fresh(NT("prefix"))))
       ** (OnPair({"LocalVar"}, Equals, ParseVariableAssignment)
           | List(ParseSelectItem) ** Opt({"From"}, ParseFromClause) ** Where(X)
             ** GroupBy(X) ** OrderBy(X)))

------------------------------------------------------------------------------
(* Data modification (dml.rs) *)
ParseInsertStatement ==
  Node("Insert", 0,
       Any ** Tok({"Into"}) ** ParseIdentifier
       ** Opt({"LParen"}, Node("Columns", 0, Any ** ListTo({"RParen"}, ParseIdentifier) ** Tok({"RParen"})))
       ** (On({"Values"}, Node("Values", 0,
             Any ** List(Node("Row", 0, Tok({"LParen"}) ** ListTo({"RParen"}, X) ** Tok({"RParen"})))))
           | (On({"Default"}, Node("DefaultValues", 0, Any ** Tok({"Values"}))) | Select ** NoAssignment)))
ParseUpdateStatement ==
  Node("Update", 0,
       Any ** NT("table") ** Tok({"Set"})
       ** List(Node("Assignment", 0, ParseIdentifier ** Tok(Equals) ** X))
       ** Opt({"From"}, ParseFromClause) ** Where(X))
ParseDeleteStatement ==
  Node("Delete", 0, Any ** Opt({"From"}, Any) ** ParseIdentifier
                    ** Opt({"From"}, ParseFromClause) ** Where(X))

(* Procedural statements (misc.rs) *)
ParseDeclareStatement ==
  Node("Declare", 0, Any ** List(Node("Variable", 0,
                             ParseIdentifier ** ParseDataType ** Opt(Equals, Any ** X))))
ParseSetStatement == Node("Set", 0, Any ** ParseIdentifier ** Tok(Equals) ** X)
ParseTransactionStatement ==
  LET Tran == {"Transaction", "Tran"}
      Name == Opt({"Ident", "QuotedIdent"}, ParseIdentifier)
  IN Node("Transaction", 0,
          On({"Begin"}, Any ** Tok(Tran) ** Name)
          | (On({"Commit", "Rollback"}, Any ** Opt(Tran, Any ** Name))
          | Any ** Tok(Tran) ** ParseIdentifier))
EndOfOperands == {"Semicolon", "End", "Eof"}
ParseThrowStatement ==
  Node("Throw", 0, Any ** (On(EndOfOperands, Skip)
                           | X ** Opt({"Comma"}, Any ** X ** Opt({"Comma"}, Any ** X))))
ParseRaiserrorStatement ==
  Node("Raiserror", 0, Any ** Tok({"LParen"}) ** X
       ** Opt({"Comma"}, Any ** X ** Opt({"Comma"}, Any ** X)) ** Tok({"RParen"}))
ParseExecStatement ==
  LET Named == ParseIdentifier ** Opt(Equals, Node("Named", 1, Any ** X))
      More == Many({"Comma"}, Any ** (On({"LocalVar"}, Named) | X))
  IN Node("Exec", 0, Any ** ParseIdentifier
          ** (On({"Comma"}, More) | (On({"LocalVar"}, Named ** More) | Try(X, More))))
ParseBatchSeparator == Node("BatchSeparator", 0, Any ** Opt({"Number"}, Any))

(* Control flow (control_flow.rs) *)
Statement == NT("statement")
ParseIfStatement ==
  Node("If", 0, Any ** X ** Nested(Statement) ** Opt({"Else"}, Any ** Nested(Statement)))
ParseWhileStatement == Node("While", 0, Any ** X ** Nested(Statement))
ParseBlock == Node("Block", 0, Any ** Nested(BlockBody) ** Tok({"End"}))
ParseReturnStatement == Node("Return", 0, Any ** (On(EndOfOperands, Skip) | X))
ParseTryCatchStatement ==
  LET Body == On({"Begin"}, NT("block")) | Nested(Statement)  \* a statement becomes a block of one
  IN Node("TryCatch", 0,
          Any ** Tok({"Try"}) ** Body ** Tok({"End"}) ** Tok({"Try"})
          ** Tok({"Begin"}) ** Tok({"Catch"}) ** Body ** Tok({"End"}) ** Tok({"Catch"}))

(* Definitions (ddl.rs) *)
Columns == Node("Columns", 0, Tok({"LParen"}) ** ListTo({"RParen"}, ParseIdentifier) ** Any)
ParseTableConstraint ==
  LET Named == Opt({"Constraint"}, Node("Name", 0, Any ** ParseIdentifier))
      Keyed(k, b) == On({k}, Node(k, 0, Any ** b))
      Target == ParseIdentifier ** (On({"LParen"}, Columns) | ParseIdentifier)
  IN Named
     ** (Keyed("Primary", Tok({"Key"}) ** Columns)
         | (Keyed("Unique", Columns)
         | (Keyed("Foreign", Tok({"Key"}) ** Columns ** Tok({"References"}) ** Target)
         | (Keyed("Check", Tok({"LParen"}) ** X ** Tok({"RParen"})) | Fail))))
Nullability == On({"Null"}, Node("Null", 0, Any)) | Opt({"Not"}, Node("NotNull", 0, Any ** Tok({"Null"})))
ParseColumnConstraint ==
  On({"Primary"}, Any ** Opt({"Key"}, Any))
  | (On({"Unique"}, Any)
  | (On({"References"}, Any ** ParseIdentifier
                        ** Opt({"LParen"}, Any ** ParseIdentifier ** Tok({"RParen"})))
  | On({"Check"}, Any ** X)))
ParseCreateTable ==
  LET Column == Node("ColumnDef", 0,
        ParseIdentifier ** ParseDataType ** Nullability ** Opt({"Identity"}, Node("Identity", 0, Any))
        ** Opt({"Default"}, Node("Default", 0, Any ** (On({"Null"}, Any) | X)))
        ** While(Node("Constraint", 0, ParseColumnConstraint)))
  IN ParseIdentifier ** Tok({"LParen"})
     ** ListTo({"RParen"},
               On({"Constraint", "Primary", "Foreign", "Unique", "Check"},
                  Node("TableConstraint", 0, ParseTableConstraint))
               | (On({"Ident", "QuotedIdent", "Table", "View", "Index", "Go"}, Column) | Fail))
     ** Tok({"RParen"})
ParseCreateIndex == ParseIdentifier ** Tok({"On"}) ** ParseIdentifier ** Columns
ParseCreateView == ParseIdentifier ** Tok({"As"}) ** Select ** NoAssignment
ParseParameterDefinition ==
  Node("Parameter", 0, ParseIdentifier ** ParseDataType ** Opt(Equals, Any ** X)
                       ** Opt({"Output"}, Node("Output", 0, Any)))
Parameters == ParseParameterDefinition ** Opt({"Comma"}, Any ** Opt({"LocalVar"}, NT("parameters")))
Body == On({"Begin"}, NT("block")) | Statement
ParseCreateProcedure ==
  ParseIdentifier
  ** (On({"LParen"}, Any ** ListTo({"RParen"}, ParseParameterDefinition) ** Any)
      | Opt({"LocalVar"}, NT("parameters")))
  ** Tok({"As"}) ** Body
ParseCreateTrigger ==
  ParseIdentifier ** Tok({"On"}) ** ParseIdentifier ** Tok({"FOR"})
  ** List(Node("Event", 0, Tok({"Insert", "Update", "Delete"}))) ** Tok({"As"}) ** Body
ParseCreateStatement ==
  LET Kind(K, op, b) == On(K, Node(op, 0, Any ** b))
  IN Node("Create", 0,
       Any ** (Kind({"Unique"}, "UniqueIndex", Tok({"Index"}) ** ParseCreateIndex)
               | (Kind({"Table"}, "Table", ParseCreateTable)
               | (Kind({"Index"}, "Index", ParseCreateIndex)
               | (Kind({"View"}, "View", ParseCreateView)
               | (Kind({"Procedure", "Proc"}, "Procedure", ParseCreateProcedure)
               | (Kind({"Trigger"}, "Trigger", ParseCreateTrigger) | Fail)))))))
ParseAlterStatement ==
  LET NewType == ParseIdentifier ** ParseDataType ** Nullability
  IN Node("AlterTable", 0,
          Any ** Tok({"Table"}) ** ParseIdentifier
          ** (On({"ADD"}, Any ** NewType ** Opt({"Identity"}, Any))
              | (On({"Drop"}, Any ** Opt({"COLUMN"}, Any) ** ParseIdentifier)
              | (On({"Alter"}, Any ** Any ** NewType)
              | (On({"COLUMN"}, Any ** NewType) | Fail)))))

ParseStatement ==
  On({"Select"}, Select) | (On({"Insert"}, ParseInsertStatement)
  | (On({"Update"}, ParseUpdateStatement) | (On({"Delete"}, ParseDeleteStatement)
  | (On({"Create"}, ParseCreateStatement) | (On({"Alter"}, ParseAlterStatement)
  | (On({"Declare"}, ParseDeclareStatement) | (On({"Set"}, ParseSetStatement)
  | (On({"If"}, ParseIfStatement) | (On({"While"}, ParseWhileStatement)
  | (OnPair({"Begin"}, {"Try"}, ParseTryCatchStatement)
  | (OnPair({"Begin"}, {"Transaction", "Tran"}, ParseTransactionStatement)
  | (On({"Begin"}, NT("block"))
  | (On({"Break"}, Node("Break", 0, Any)) | (On({"Continue"}, Node("Continue", 0, Any))
  | (On({"Return"}, ParseReturnStatement)
  | (On({"Commit", "Rollback", "Save"}, ParseTransactionStatement)
  | (On({"Throw"}, ParseThrowStatement) | (On({"Raiserror"}, ParseRaiserrorStatement)
  | (On({"Exec", "Execute"}, ParseExecStatement)
  | (OnBatch({"Go"}, ParseBatchSeparator) | Fail))))))))))))))))))))

Rules ==
  [statement |-> ParseStatement, select |-> ParseSelectStatement, table |-> ParseTableReference,
   block |-> ParseBlock, parameters |-> Parameters, prefix |-> ParsePrefix,
   subquery |-> ParseSubquerySelect]

------------------------------------------------------------------------------
(* Mutant: the limit itself is refused.                                    *)
CheckDepthBeforeNestingTooSoon(s) == IF s.depth + 1 >= MaxDepth THEN Error(s) ELSE s
CheckDepthBeforeNesting(s) == IF s.depth + 1 > MaxDepth THEN Error(s) ELSE s

------------------------------------------------------------------------------
(* The interpreter *)
RECURSIVE Applies(_, _)
Applies(x, s) ==
  CASE x.t = "on" -> /\ Check(s, x.k)
                     /\ x.next = {} \/ KindOf(TokenAt(s, 1)) \in x.next
                     /\ x.batch => s.batch
    [] x.t = "or" -> Applies(x.a, s) \/ Applies(x.b, s)
    [] x.t = "node" -> Applies(x.b, s)
    [] x.t = "onidentifier" -> KindOf(s.vals[Len(s.vals)].op) \in NameTokens \cup KeywordIdents /\ Applies(x.b, s)
    [] OTHER -> TRUE

RECURSIVE Run(_, _), Loop(_, _), Items(_, _), Statements(_)
Run(x, s) ==
  IF ~s.ok \/ s.hung THEN s
  ELSE CASE x.t = "skip" -> s
         [] x.t = "fail" -> Error(s)
         [] x.t = "any" -> Consume(s)
         [] x.t = "leaf" ->
              [Consume(s) EXCEPT !.vals = Append(@, NodeOf(TokenAt(s, 0), s.pos, Consume(s), <<>>))]
         [] x.t = "tok" -> IF Check(s, x.k) THEN Consume(s) ELSE Error(s)
         [] x.t = "then" -> Run(x.b, Run(x.a, s))
         [] x.t = "or" -> IF Applies(x.a, s) THEN Run(x.a, s) ELSE Run(x.b, s)
         [] x.t \in {"on", "onidentifier"} -> Run(x.b, s)
         [] x.t = "while" -> Loop(x.b, s)
         [] x.t = "list" -> Items(x, s)
         [] x.t = "rule" -> Run(Rules[x.r], s)
         [] x.t = "fresh" -> Run(x.b, [s EXCEPT !.xd = 0])
         [] x.t = "bp" ->
              IF s.xd >= MaxExprDepth THEN Error(s)
              ELSE [Run(ParseBp(x.m), [s EXCEPT !.xd = @ + 1]) EXCEPT !.xd = s.xd]
         [] x.t = "binary" ->
              Run(Node(Current(s), 1, Any ** Bp(InfixPower[Current(s)])), s)
         [] x.t = "node" ->
              LET below == SubSeq(s.vals, 1, Len(s.vals) - x.keep)
                  from == IF x.keep = 0 THEN s.pos ELSE s.vals[Len(s.vals)].from
                  r == Run(x.b, s)
              IN IF ~r.ok \/ r.hung THEN r
                 ELSE [r EXCEPT !.vals =
                         Append(below, NodeOf(x.op, from, r, SubSeq(@, Len(below) + 1, Len(@))))]
         [] x.t = "nested" ->
              LET c == CheckDepthBeforeNesting(s)
                  r == Run(x.b, [c EXCEPT !.depth = @ + 1])
              IN IF ~c.ok THEN c ELSE IF r.ok THEN [r EXCEPT !.depth = @ - 1] ELSE r
         [] x.t = "try" ->
              LET r == Run(x.b, s)
              IN IF r.ok THEN Run(x.more, r) ELSE [r EXCEPT !.ok = TRUE, !.vals = s.vals]
         [] x.t = "noassignment" ->
              IF \E k \in 1 .. Len(s.vals[Len(s.vals)].kids) :
                    s.vals[Len(s.vals)].kids[k].op = "VariableAssignment"
              THEN Error(s) ELSE s
         [] x.t = "block" -> Statements(s)

Loop(b, s) == IF s.ok /\ ~s.hung /\ Applies(b, s) THEN Loop(b, Run(b, s)) ELSE s

Items(x, s) ==
  IF ~s.ok \/ Check(s, x.k) THEN s
  ELSE LET r == Run(x.b, s)
       IN IF r.ok /\ Check(r, {"Comma"}) THEN Items(x, Consume(r)) ELSE r

(* The body of BEGIN .. END: a statement that fails is collected, and the  *)
(* loop goes on from the synchronisation point.  When that point is where  *)
(* the statement failed without consuming anything, the loop never ends.   *)
Statements(s) ==
  IF s.hung \/ Check(s, {"End", "Eof"}) THEN s
  ELSE LET r == Run(Statement, s)
           n == ConsumeIf(IF r.ok THEN r ELSE Collect(s, r), {"Semicolon"})
       IN IF r.hung \/ n.pos = s.pos THEN [n EXCEPT !.hung = TRUE] ELSE Statements(n)

AfterStatement(s) == Run(Statement, s)
===============================================================================
