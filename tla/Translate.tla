------------------------------ MODULE Translate -----------------------------
(***************************************************************************)
(* From a parsed script to text in another dialect: Emission with the      *)
(* conversion of ToCommonSql and the emitters of three dialects.           *)
(***************************************************************************)
EXTENDS Emission, ToCommonSql

SQLite == INSTANCE SqliteEmitter
MySQL == INSTANCE MySqlEmitter
PostgreSQL == INSTANCE PostgreSqlEmitter
G == INSTANCE Grammar WITH MaxDepth <- 4, MaxExprDepth <- 12

Text(dialect, n) ==
  CASE dialect = "SQLite" -> SQLite!VisitStatement(n)
    [] dialect = "MySQL" -> MySQL!Emit(n)
    [] dialect = "PostgreSQL" -> PostgreSQL!VisitStatement(n)

------------------------------------------------------------------------------
(* What is converted is common SQL: whatever vanished on the way, no        *)
(* operator is without an operand and no clause without its expression,    *)
(* and no operator or type is left that common SQL does not have.          *)
TypeOK == EmissionOK /\ \A k \in DOMAIN stmts : IsCommonSql(stmts[k])

(* A query that is translated keeps its columns and its conditions: the    *)
(* items, WHERE and HAVING of a SELECT and of the queries nested in them   *)
(* are all there, or the statement is refused.  (In lists that are         *)
(* filtered, and under ELSE, a nested query may vanish as a whole.)        *)
RECURSIVE Conditions(_)
Conditions(n) ==
  LET inner == FlattenSeq([k \in DOMAIN n.kids |->
                             IF n.op \in FilteredLists \/ n.kids[k].op \in {"From", "Limit", "Else", "Escape"}
                             THEN <<>> ELSE Conditions(n.kids[k])])
  IN IF n.op = "Select"
     THEN <<<<Len(The(n, "Items").kids), Has(n, "Where"), Has(n, "Having")>>>> \o inner
     ELSE inner
ConditionsKept ==
  \A k \in 1 .. read :
    LET c == Convert(job.stmts[k])
    IN job.stmts[k].op = "Select" /\ c # <<>> => Conditions(c[1]) = Conditions(job.stmts[k])

(* "any sub-expression that fails to convert propagates None upward": an   *)
(* UPDATE or DELETE that is translated still has its WHERE.                *)
WhereKept ==
  \A k \in 1 .. read :
    LET c == Convert(job.stmts[k])
    IN job.stmts[k].op \in {"Update", "Delete"} /\ c # <<>> => (Has(job.stmts[k], "Where") => Has(c[1], "Where"))

(* Every clause of the tree is in the text.  The MySQL emitter leaves out  *)
(* the clauses of a query inside an expression, and those of a value it    *)
(* cannot write.                                                           *)
ClauseWords == [Where |-> "Where", Having |-> "Having", GroupBy |-> "Group", OrderBy |-> "Order",
                From |-> "From", Limit |-> "Limit"]
RECURSIVE Clauses(_, _)
Clauses(n, op) ==
  LET below == FlattenSeq([k \in DOMAIN n.kids |-> Clauses(n.kids[k], op)])
      outside == FlattenSeq([k \in DOMAIN n.kids |->
                   IF n.kids[k].op \in {"From", "Table", "Select"} THEN Clauses(n.kids[k], op)
                   ELSE IF n.kids[k].op = op THEN <<op>> ELSE <<>>])
  IN IF job.dialect = "MySQL" /\ n.op \in {"Select", "Insert", "Update", "Delete"} THEN outside
     ELSE IF n.op = op THEN <<op>> \o below ELSE below
ClausesWritten ==
  \A i \in DOMAIN results :
    LET r == results[i]
        n == stmts[r.of]
    IN r.of # 0 /\ ~Failed(r.text) /\ n.op \in {"Select", "Insert", "Update", "Delete"} =>
         \A op \in DOMAIN ClauseWords \ (IF n.op = "Delete" THEN {"From"} ELSE {}) :
           Len(SelectSeq(r.text, LAMBDA t : t = ClauseWords[op])) = Len(Clauses(n, op))

------------------------------------------------------------------------------
(* Expressions from their text, through the parser.                        *)
Operand(t) == IF t \in {"a", "b", "c"} THEN Name(t) ELSE Leaf(t, t)
RECURSIVE FromParser(_)
FromParser(n) ==
  LET kids == All(n.kids, FromParser)
  IN CASE n.kids = <<>> -> Operand(n.op)
       [] n.op \in {"In", "NotIn"} -> N("InList", n.op, <<kids[1], N("ValueList", "", Tail(kids))>>)
       [] n.op \in {"Between", "NotBetween"} -> N("Between", n.op, kids)
       [] n.op \in {"Is", "IsNot"} -> N(n.op, n.kids[2].op, <<kids[1]>>)
       [] n.op \in {"Like", "NotLike"} -> N("Like", n.op, kids)
       [] Len(kids) = 1 -> N("Unary", n.op, kids)
       [] OTHER -> N("Infix", n.op, kids)
Parsed(tokens) == FromParser(G!Run(G!X, G!NewParser(tokens, TRUE)).vals[1])
SelectOf(e) == N("Select", "", <<N("Items", "", <<N("Item", "", <<e>>)>>)>>)

(* The PostgreSQL text of an expression means the tree that was converted: *)
(* read back by the parser, with <> for an inequality, it gives that tree  *)
(* again, however infix operators nest over names, lists, ranges, NULL     *)
(* tests and prefixed operands (mappers/expression.rs writes parentheses   *)
(* around infix operators and around nothing else).                        *)
PostgreSqlReadsBack ==
  \A i \in DOMAIN results :
    LET r == results[i]
        expression == stmts[r.of].kids[1].kids[1].kids[1]
        back == Parsed(All(Tail(r.text), LAMBDA t : IF t = "NeAlt" THEN "Ne" ELSE t))
    IN job.dialect = "PostgreSQL" /\ job.source # <<>> /\ r.of # 0 => Convert(back) = <<expression>>
===============================================================================
