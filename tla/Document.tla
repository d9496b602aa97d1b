------------------------------ MODULE Document ------------------------------
(***************************************************************************)
(* What the language server knows of one document (ase-ls-core):           *)
(* analysis.rs, symbol_table/mod.rs, span_resolve.rs and the name matching *)
(* of lib.rs.  Every language feature reads its answers off this analysis. *)
(*                                                                         *)
(* A document is a sequence of units: the words and signs of Grammar, "LF" *)
(* for a line break, "--" and "/*" .. "*/" for comments.  A unit is one    *)
(* character wide, blanks between units are not written, so unit k spans   *)
(* the offsets k - 1 to k.  The positions of the protocol are offsets here *)
(* (DocumentCopy has the conversion).                                      *)
(***************************************************************************)
EXTENDS Naturals, FiniteSets, SequencesExt

CONSTANTS MaxDepth, MaxExprDepth, MaxErrors

P == INSTANCE SyntaxTree

(* The upper-case form by which names are compared.                        *)
Upper(w) == CASE w = "A" -> "a" [] w = "T" -> "t" [] w = "@A" -> "@a" [] w = "#A" -> "#a" [] OTHER -> w

-----------------------------------------------------------------------------
(* Tokens.  A token is known by its kind, its text and the offsets it      *)
(* spans; the analysis drops comments, folding and formatting keep them.   *)
Token(d, from, to, kind) == [kind |-> kind, text |-> d[from], start |-> from - 1, end |-> to]

NextUnit(d, i, u) == LET S == {j \in i .. Len(d) : d[j] = u} IN IF S = {} THEN Len(d) + 1 ELSE Min(S)

RECURSIVE LexFrom(_, _)
LexFrom(d, i) ==
  IF i > Len(d) THEN <<>>
  ELSE IF d[i] = "LF" THEN LexFrom(d, i + 1)
  ELSE LET to == CASE d[i] = "--" -> NextUnit(d, i, "LF") - 1
                   [] d[i] = "/*" -> NextUnit(d, i, "*/")
                   [] OTHER -> i
           kind == CASE d[i] = "--" -> "LineComment" [] d[i] = "/*" -> "BlockComment"
                     [] OTHER -> P!KindOf(d[i])
       IN IF to > Len(d) THEN <<>> ELSE <<Token(d, i, to, kind)>> \o LexFrom(d, to + 1)
Comments == {"LineComment", "BlockComment"}
TokensOf(d) == SelectSeq(LexFrom(d, 1), LAMBDA t : t.kind \notin Comments)

-----------------------------------------------------------------------------
(* DocumentAnalysis::new *)
RECURSIVE Parsed(_)
Parsed(s) ==
  IF P!Parsing(s) /\ Len(s.errs) < MaxErrors
  THEN Parsed(P!Recovered(s, P!Returned(s, P!AfterStatement(s)))) ELSE s
ParseWithErrors(toks) == Parsed(P!NewParser([k \in DOMAIN toks |-> toks[k].text], TRUE))

(* Fields of a syntax node, and the offsets of the tokens it spans: a      *)
(* field of a struct of tsql-parser::ast is a kid of its own kind, absent  *)
(* when it is None.                                                        *)
KidsOf(n, ops) == SelectSeq(n.kids, LAMBDA k : k.op \in ops)
HasKid(n, op) == \E k \in DOMAIN n.kids : n.kids[k].op = op
KidOf(n, op) == KidsOf(n, {op})[1]
StartOf(toks, n) == toks[n.from].start
ExactEnd(toks, n) == toks[n.to].end
(* Most statements end, for the parser, at the end of the token it looks   *)
(* at next; at the end of the input that is offset 0.                      *)
NextTokenEnd(toks, n) == IF n.to < Len(toks) THEN toks[n.to + 1].end ELSE 0
NextTokenStart(toks, n) == IF n.to < Len(toks) THEN toks[n.to + 1].start ELSE 0

(* AstNode::span().end of a statement.                                     *)
RECURSIVE SpanEnd(_, _)
SpanEnd(toks, n) ==
  CASE n.op = "Block" -> ExactEnd(toks, n)
    [] n.op \in {"Break", "Continue", "Return", "BatchSeparator"} -> toks[n.from].end
    [] n.op = "Exec" -> ExactEnd(toks, n)
    [] n.op = "Transaction" /\ toks[n.from].kind \in {"Commit", "Rollback"} -> NextTokenStart(toks, n)
    [] n.op = "Create" /\ HasKid(n, "View") -> SpanEnd(toks, KidOf(KidOf(n, "View"), "Select"))
    [] OTHER -> NextTokenEnd(toks, n)
Broken(toks, n) == SpanEnd(toks, n) <= StartOf(toks, n)

Statements == {"Select", "Insert", "Update", "Delete", "Create", "AlterTable", "Declare", "Set", "If",
  "While", "TryCatch", "Block", "Transaction", "Break", "Continue", "Return", "Throw", "Raiserror",
  "Exec", "BatchSeparator"}
(* The statements right below a compound statement; the statement of a TRY *)
(* without BEGIN counts as a block of its own.                             *)
Branches(n) == IF n.op \in {"If", "While"} THEN Tail(n.kids) ELSE KidsOf(n, Statements)
BodyOf(block) == IF block.op = "Block" THEN Branches(block) ELSE <<block>>
Compound == {"Block", "If", "While", "TryCatch"}

-----------------------------------------------------------------------------
(* SymbolTableBuilder *)
Named(toks, name) == [name |-> name.op, start |-> StartOf(toks, name), end |-> ExactEnd(toks, name)]
KidNames(n) == [k \in DOMAIN n.kids |-> n.kids[k].op]
TypeOf(toks, n) == toks[KidOf(n, "Type").from].text
Column(toks, c) ==
  Named(toks, c.kids[1]) @@
  [type |-> TypeOf(toks, c), identity |-> HasKid(c, "Identity"),
   nullable |-> IF HasKid(c, "Null") THEN "NULL" ELSE IF HasKid(c, "NotNull") THEN "NOT NULL" ELSE ""]
Variable(toks, v) ==
  Named(toks, v.kids[1]) @@ [kind |-> "variable", type |-> TypeOf(toks, v), output |-> HasKid(v, "Output")]
Declared(toks, n) == [k \in DOMAIN n.kids |-> Variable(toks, n.kids[k])]

(* CHECK constraints are left out.                                         *)
Constraints(n) ==
  LET kept == SelectSeq(KidsOf(n, {"TableConstraint"}), LAMBDA c : ~HasKid(c, "Check"))
      Info(c) == LET k == KidsOf(c, {"Primary", "Unique", "Foreign"})[1]
                 IN [kind |-> k.op, columns |-> KidNames(KidOf(k, "Columns"))]
  IN [k \in DOMAIN kept |-> Info(kept[k])]

(* Variables declared in the body of a procedure, in source order.         *)
RECURSIVE BodyVariables(_, _)
BodyVariables(toks, stmts) ==
  FlattenSeq([k \in DOMAIN stmts |->
    CASE stmts[k].op = "Declare" -> Declared(toks, stmts[k])
      [] stmts[k].op \in Compound -> BodyVariables(toks, Branches(stmts[k]))
      [] OTHER -> <<>>])

Created(toks, c) ==
  LET n == c.kids[1]
      Of(kind) == Named(toks, n.kids[1]) @@ [kind |-> kind]
  IN CASE n.op = "Table" ->
            Of("table") @@ [columns |-> LET cs == KidsOf(n, {"ColumnDef"})
                                        IN [k \in DOMAIN cs |-> Column(toks, cs[k])],
                            constraints |-> Constraints(n), temporary |-> toks[n.from + 1].kind = "TempTable"]
       [] n.op \in {"Index", "UniqueIndex"} ->
            Of("index") @@ [table |-> n.kids[2].op, columns |-> KidNames(KidOf(n, "Columns")),
                            unique |-> n.op = "UniqueIndex"]
       [] n.op = "View" -> Of("view")
       [] n.op = "Procedure" ->
            Of("procedure") @@ [parameters |-> LET ps == KidsOf(n, {"Parameter"})
                                               IN [k \in DOMAIN ps |-> Variable(toks, ps[k])],
                                variables |-> BodyVariables(toks, Branches(n))]
       [] n.op = "Trigger" ->
            [kind |-> "trigger", name |-> n.kids[1].op, start |-> StartOf(toks, c), end |-> SpanEnd(toks, c),
             table |-> n.kids[2].op, events |-> Len(KidsOf(n, {"Event"}))]

RECURSIVE Definitions(_, _)
Definitions(toks, stmts) ==
  FlattenSeq([k \in DOMAIN stmts |->
    CASE stmts[k].op = "Create" -> <<Created(toks, stmts[k])>>
      [] stmts[k].op = "Declare" -> Declared(toks, stmts[k])
      [] stmts[k].op \in Compound -> Definitions(toks, Branches(stmts[k]))
      [] OTHER -> <<>>])

SymbolKinds == {"table", "procedure", "view", "index", "trigger", "variable"}
(* One map per kind, from upper-case name to the definition inserted last. *)
SymbolTable(toks, stmts) ==
  LET defs == Definitions(toks, stmts)
      Filed(kind, key) == {k \in DOMAIN defs : defs[k].kind = kind /\ Upper(defs[k].name) = key}
  IN [kind \in SymbolKinds |->
       [key \in {Upper(defs[k].name) : k \in {j \in DOMAIN defs : defs[j].kind = kind}} |->
          defs[Max(Filed(kind, key))]]]
Find(st, kind, name) == IF Upper(name) \in DOMAIN st[kind] THEN {st[kind][Upper(name)]} ELSE {}

(* Without a table in the symbol table, but with CREATE TABLE in the text, *)
(* the text up to the parenthesis that closes the first one is tried.      *)
CreateTableEnd(toks) ==
  LET Heads == {i \in 1 .. Len(toks) - 2 : /\ toks[i].kind = "Create" /\ toks[i + 1].kind = "Table"
                                           /\ toks[i + 2].kind = "Ident"}
      Depth(j, k) == Cardinality({m \in j .. k : toks[m].kind = "LParen"})
                       - Cardinality({m \in j .. k : toks[m].kind = "RParen"})
      Opens == {j \in Min(Heads) + 3 .. Len(toks) : toks[j].kind = "LParen"}
      Closes == {k \in Min(Opens) .. Len(toks) : toks[k].kind = "RParen" /\ Depth(Min(Opens), k) = 0}
  IN IF Heads = {} THEN {} ELSE IF Opens = {} THEN {} ELSE IF Closes = {} THEN {} ELSE {toks[Min(Closes)].end}
BuildTolerant(d) == LET toks == TokensOf(d) IN SymbolTable(toks, ParseWithErrors(toks).vals)
WithFallback(d, toks, st) ==
  IF DOMAIN st["table"] # {} \/ ~\E i \in 1 .. Len(d) - 1 : d[i] = "Create" /\ d[i + 1] = "Table" THEN st
  ELSE IF CreateTableEnd(toks) = {} THEN st
  ELSE LET partial == BuildTolerant(SubSeq(d, 1, Min(CreateTableEnd(toks))))
       IN IF DOMAIN partial["table"] = {} THEN st ELSE partial

Analyse(d) ==
  LET toks == TokensOf(d)
      parsed == ParseWithErrors(toks)
  IN [source |-> d, tokens |-> toks, statements |-> parsed.vals, errors |-> parsed.errs,
      symbols |-> WithFallback(d, toks, SymbolTable(toks, parsed.vals))]

-----------------------------------------------------------------------------
(* The token at an offset, as the set of its index.                        *)
FindTokenAt(a, offset) == {k \in DOMAIN a.tokens : a.tokens[k].start <= offset /\ offset < a.tokens[k].end}

(* Lines: the text of line n (from 0), and the line of an offset.          *)
LineCount(d) == Cardinality({i \in DOMAIN d : d[i] = "LF"}) + 1
LineOf(d, offset) == Cardinality({i \in 1 .. offset : d[i] = "LF"})
LineStart(d, n) == Min({o \in 0 .. Len(d) : LineOf(d, o) = n})
LineEnd(d, n) == Max({o \in 0 .. Len(d) : LineOf(d, o) = n})
GetLine(d, n) == IF n >= LineCount(d) THEN <<>> ELSE SubSeq(d, LineStart(d, n) + 1, LineEnd(d, n))

(* token_matches_symbol: which tokens can be an occurrence of a name.      *)
Keywords == {"Select", "Insert", "Update", "Delete", "Merge", "From", "Where", "Join", "Inner", "Outer",
  "Left", "Right", "Full", "Cross", "On", "And", "Or", "Not", "In", "Exists", "Between", "Like", "Is",
  "Null", "Order", "By", "Asc", "Desc", "Group", "Having", "Union", "Intersect", "Except", "Distinct",
  "All", "Top", "Limit", "Offset", "First", "Next", "Rows", "Only", "Create", "Alter", "Drop", "Truncate",
  "Table", "Index", "View", "Procedure", "Proc", "Function", "Trigger", "Database", "Schema", "Constraint",
  "Primary", "Foreign", "Key", "References", "Unique", "Check", "Default", "Identity", "Autoincrement",
  "If", "Else", "Begin", "End", "While", "Return", "Break", "Continue", "Case", "When", "Then", "Try",
  "Catch", "Throw", "Raiserror", "Commit", "Rollback", "Transaction", "Tran", "Save", "Savepoint", "Go",
  "Exec", "Execute"}
TypeWords == {"Int", "Integer", "Smallint", "Tinyint", "Bigint", "Real", "Double", "Decimal", "Numeric",
  "Money", "Smallmoney", "Char", "Varchar", "Text", "Nchar", "Nvarchar", "Unichar", "Univarchar", "Unitext",
  "Binary", "Varbinary", "Image", "Date", "Time", "Datetime", "Smalldatetime", "Bigdatetime", "Timestamp",
  "Bit", "Uniqueidentifier"}
OperatorSigns == {"Eq", "Ne", "NeAlt", "Lt", "Gt", "Le", "Ge", "NotLt", "NotGt", "Plus", "Minus", "Star",
  "Slash", "Percent", "Tilde", "Assign", "Concat"}
IsKeyword(kind) == kind \in Keywords
(* Mutant: letter case counts.                                             *)
TokenMatchesAsWritten(t, name, isVar) == t.text = name /\ (t.kind = "LocalVar" <=> isVar)
TokenMatchesSymbol(t, name, isVar) ==
  /\ IF isVar THEN t.kind = "LocalVar"
     ELSE t.kind \in {"Ident", "TempTable", "GlobalTempTable"} \/ IsKeyword(t.kind)
  /\ Upper(t.text) = Upper(name)

-----------------------------------------------------------------------------
(* span_resolve.rs: where a construct ends, as a set of at most one        *)
(* offset.  The scan takes the first BEGIN at or after the start, and the  *)
(* END that balances it; every END counts, that of a CASE too.  It gives   *)
(* up SCAN_LIMIT after the start.                                          *)
ScanLimit == 5000
ResolveSpanEndFallback(a, start) ==
  LET toks == SelectSeq(a.tokens, LAMBDA t : t.start <= start + ScanLimit)
      Begins == {k \in DOMAIN toks : toks[k].start >= start /\ toks[k].text = "Begin"}
      Count(w, k) == Cardinality({m \in Min(Begins) .. k : toks[m].text = w})
      Ends == {k \in DOMAIN toks : k > Min(Begins) /\ toks[k].text = "End" /\ Count("End", k) >= Count("Begin", k)}
  IN IF Begins = {} THEN {} ELSE IF Ends = {} THEN {} ELSE {toks[Min(Ends)].end}
ClampEndToScan(a, start, candidate) == Min({candidate} \cup ResolveSpanEndFallback(a, start))

ResolveBlockEnd(a, block) ==
  LET start == StartOf(a.tokens, block)
      last == BodyOf(block)[Len(BodyOf(block))]
  IN IF ~Broken(a.tokens, block) THEN {ClampEndToScan(a, start, SpanEnd(a.tokens, block))}
     ELSE IF BodyOf(block) # <<>> /\ ~Broken(a.tokens, last)
          THEN {ClampEndToScan(a, start, SpanEnd(a.tokens, last))}
     ELSE ResolveSpanEndFallback(a, start)

TailEnd(a, stmts) ==
  IF stmts = <<>> THEN {}
  ELSE LET last == stmts[Len(stmts)] IN IF Broken(a.tokens, last) THEN {} ELSE {SpanEnd(a.tokens, last)}
Latest(S) == IF S = {} THEN {} ELSE {Max(S)}
RECURSIVE ResolveStmtEnd(_, _)
ResolveStmtEnd(a, n) ==
  LET start == StartOf(a.tokens, n)
      bodies == Branches(n)
      children ==
        CASE n.op = "Block" -> TailEnd(a, bodies)
          [] n.op \in {"If", "While"} -> Latest(UNION {ResolveStmtEnd(a, bodies[k]) : k \in DOMAIN bodies})
          [] n.op = "TryCatch" -> Latest(UNION {ResolveBlockEnd(a, bodies[k]) : k \in DOMAIN bodies})
          [] n.op = "Create" -> TailEnd(a, Branches(n.kids[1]))
          [] OTHER -> {}
  IN IF n.op = "Create" /\ n.kids[1].op \notin {"Procedure", "Trigger"} THEN ResolveSpanEndFallback(a, start)
     ELSE IF children # {} THEN children
     ELSE IF ~Broken(a.tokens, n) THEN {ClampEndToScan(a, start, SpanEnd(a.tokens, n))}
     ELSE ResolveSpanEndFallback(a, start)
=============================================================================
