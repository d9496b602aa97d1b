-------------------------------- MODULE Parser --------------------------------
(***************************************************************************)
(* The parser on whole inputs: ParserLoops with the statements of Grammar. *)
(* An input is made of pieces of SQL text, one after the other.            *)
(***************************************************************************)
EXTENDS ParserLoops, SyntaxTree, FiniteSets

Text(pieces) ==
  LET f[n \in 0 .. Len(pieces)] == IF n = 0 THEN <<>> ELSE f[n - 1] \o pieces[n]
  IN f[Len(pieces)]

ASSUME PiecesAssumption ==
  \A i \in Inputs : i.pieces \in Seq(Seq(STRING)) /\ i.tokens = Text(i.pieces)

------------------------------------------------------------------------------
Nodes(s) == UNION {NodesBelow(s.vals[k]) : k \in DOMAIN s.vals}

ParserOK(s) ==
  /\ s.inp = input.tokens /\ s.batch = input.batch /\ s.ok /\ s.hung \in BOOLEAN
  /\ s.pos \in 1 .. Len(s.inp) + 1 /\ s.depth \in 0 .. MaxDepth /\ s.xd = 0
  /\ \A k \in DOMAIN s.errs : s.errs[k] \in 1 .. Len(s.inp) + 1
  /\ \A k \in DOMAIN s.vals : s.vals[k].op \in StatementNodes
  /\ \A n \in Nodes(s) : 1 <= n.from /\ n.from <= n.to /\ n.to < s.pos /\ WellFormed(s.inp, n)

(* The state holds two parsers between two statements: at a position in    *)
(* their input, no error pending, and well-formed trees within the input;  *)
(* and the grammar is what the loops rely on.                              *)
TypeOK == ParserOK(strict) /\ ParserOK(lenient) /\ StatementsDependable

------------------------------------------------------------------------------
(* What the pieces of the input mean to the properties.                    *)
Alone(piece, batch) == Run(Statement, NewParser(piece, batch))
IsStatement(piece, batch) ==
  LET s == Alone(piece, batch) IN s.ok /\ ~s.hung /\ s.errs = <<>> /\ s.pos = Len(piece) + 1
StartOf(k) == Len(Text(SubSeq(input.pieces, 1, k - 1))) + 1
EndOf(k) == Len(Text(SubSeq(input.pieces, 1, k)))
Semicolon == <<"Semicolon">>
StatementAt(s, k) == \E i \in DOMAIN s.vals : s.vals[i].from = StartOf(k) /\ s.vals[i].to = EndOf(k)

(* RETURN and THROW without operands end only at a semicolon, END or the   *)
(* end of the input; EXEC without arguments tries an expression next, and  *)
(* BEGIN, END and GO are identifiers there (prefix.rs).                    *)
Takes(piece, next) ==
  \E n \in NodesBelow(Alone(piece, input.batch).vals[1]) :
    /\ n.to = Len(piece)
    /\ \/ n.op \in {"Return", "Throw"} /\ n.kids = <<>> /\ next \notin EndOfOperands
       \/ n.op = "Exec" /\ n.to = n.from + 1 /\ next \in {"Begin", "End", "Go"}

(* A script of statements is read as these statements, with or without     *)
(* semicolons between them, unless the one before takes the first word of  *)
(* the next for an expression.                                             *)
BoundariesKept ==
  LET Script == \A k \in DOMAIN input.pieces :
        LET p == input.pieces[k]
            Next1 == IF k = Len(input.pieces) THEN <<>> ELSE input.pieces[k + 1]
        IN \/ p = Semicolon /\ k > 1 /\ input.pieces[k - 1] # Semicolon
           \/ IsStatement(p, input.batch) /\ (Next1 # <<>> => ~Takes(p, Next1[1]))
  IN StrictReturned /\ Script =>
       /\ strict.errs = <<>>
       /\ \A k \in DOMAIN input.pieces :
            input.pieces[k] = Semicolon \/ StatementAt(strict, k)

(* Recovery is local: a statement after a semicolon is recovered whatever  *)
(* errors came before it.  It may be lost only when an earlier piece opens *)
(* a block it does not close, or closes one it did not open, when the      *)
(* limit on errors was met, or when failed statements have used up the     *)
(* nesting it needs: parse_if_statement and its kin leave the depth        *)
(* counter up when the statement nested in them fails.                     *)
Level(k, p) == Cardinality({i \in DOMAIN p : p[i] = k})
Balanced(p) ==
  Level("Begin", p) + Level("Case", p) - Level("Tran", p) - Level("Transaction", p) = Level("End", p)
RECURSIVE Nesting(_)
Nesting(n) ==
  LET deepest == {Nesting(n.kids[k]) : k \in DOMAIN n.kids} \cup {0}
  IN (IF n.op \in {"If", "While", "Block", "TryCatch"} THEN 1 ELSE 0)
     + CHOOSE d \in deepest : \A e \in deepest : e <= d
RecoveryIsLocal ==
  LenientReturned /\ Len(lenient.errs) < MaxErrors =>
    \A k \in 2 .. Len(input.pieces) :
      LET p == input.pieces[k]
      IN /\ p # Semicolon /\ input.pieces[k - 1] = Semicolon
         /\ IsStatement(p, input.batch)
         /\ \A j \in 1 .. k - 1 : Balanced(input.pieces[j])
         /\ lenient.depth + Nesting(Alone(p, input.batch).vals[1]) <= MaxDepth
         => StatementAt(lenient, k)

(* A recovered statement is one that its own tokens spell: parsed alone it *)
(* gives the same tree, so no recovery joins parts of two statements.      *)
StatementsStandAlone ==
  lenient.depth = 0 =>
    \A i \in DOMAIN lenient.vals :
      LET n == lenient.vals[i]
          s == Run(Statement, [NewParser(SubSeq(lenient.inp, 1, n.to), input.batch) EXCEPT !.pos = n.from])
      IN s.ok /\ s.vals = <<n>>

(* An operator never becomes an operand of one that binds tighter unless   *)
(* parentheses make it so: OR, AND, comparison with IN and BETWEEN, the    *)
(* additive and the multiplicative operators, as design.md:1291-1299 and   *)
(* binary.rs order them, and then the prefix operators.  Operators of one  *)
(* level are left open: how they group is where code and documents differ. *)
Levels == <<{"Or"}, {"And"},
            {"Assign", "Eq", "Ne", "NeAlt", "Lt", "Le", "Gt", "Ge", "NotLt", "NotGt", "In", "Between"},
            {"Plus", "Minus", "Concat"}, {"Star", "Slash", "Percent"}>>
Infix(n) == Len(n.kids) > 1 /\ \E l \in DOMAIN Levels : n.op \in Levels[l]
Tightness(n) == CHOOSE l \in DOMAIN Levels : n.op \in Levels[l]
Prefix(n) == n.op \in UnaryOperators /\ Len(n.kids) = 1
PrecedenceKept ==
  LET inp == strict.inp
      Bare(k) == k.to = Len(inp) \/ inp[k.to + 1] # "RParen" \/ inp[k.from - 1] # "LParen"
      \* An IN list has parentheses of its own, for what is in it and for what follows.
      Operands(n) == {i \in DOMAIN n.kids : IF n.op = "In" THEN i = 1 ELSE ~(i = 1 /\ n.kids[i].op = "In")}
      InfixOperands(n) == {k \in {n.kids[i] : i \in Operands(n)} : Infix(k) /\ Bare(k)}
  IN \A n \in Nodes(strict) : /\ Infix(n) => \A k \in InfixOperands(n) : Tightness(k) >= Tightness(n)
                              /\ Prefix(n) => InfixOperands(n) = {}
===============================================================================
