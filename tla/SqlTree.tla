------------------------------ MODULE SqlTree -------------------------------
(***************************************************************************)
(* The trees of tsql-parser::ast and common-sql::ast, and how a writer     *)
(* joins the texts of their parts.                                         *)
(*                                                                         *)
(* A node is what it is (op), its word (an operator, a name, a literal)    *)
(* and its kids.  A struct's optional or repeated field is a kid of its    *)
(* own kind, absent when the field is None or empty.                       *)
(***************************************************************************)
EXTENDS SqlText

N(op, w, kids) == [op |-> op, w |-> w, kids |-> kids]
Leaf(op, w) == N(op, w, <<>>)
Name(w) == Leaf("Ident", w)
OfKind(n, ops) == SelectSeq(n.kids, LAMBDA k : k.op \in ops)
Has(n, op) == \E k \in DOMAIN n.kids : n.kids[k].op = op
The(n, op) == OfKind(n, {op})[1]

Literals == {"String", "Number", "FloatLiteral", "Null", "TRUE", "FALSE"}
ColumnConstraints == {"PrimaryKey", "Unique", "Check", "References", "AutoIncrement"}
TableConstraints == {"TablePrimaryKey", "TableUnique", "TableForeignKey", "TableCheck"}

Paren(t) == <<"LParen">> \o t \o <<"RParen">>
Commas(texts) ==
  FlattenSeq([k \in DOMAIN texts |-> IF k = 1 THEN texts[k] ELSE <<"Comma">> \o texts[k]])
(* A tuple, for TLC to write every node once.                              *)
All(nodes, Write(_)) == <<>> \o [k \in DOMAIN nodes |-> Write(nodes[k])]
List(nodes, Write(_)) == Commas(All(nodes, Write))
Words(nodes) == List(nodes, LAMBDA k : <<k.w>>)
Flag(n, op, keywords) == IF Has(n, op) THEN keywords ELSE <<>>
Clause(n, op, keywords, Write(_)) ==
  IF Has(n, op) THEN keywords \o List(The(n, op).kids, Write) ELSE <<>>
Sized(name, n) == <<name>> \o (IF n.kids = <<>> THEN <<>> ELSE Paren(Words(n.kids)))

RECURSIVE NodesIn(_)
NodesIn(n) == {n} \cup UNION {NodesIn(n.kids[k]) : k \in DOMAIN n.kids}
===============================================================================
