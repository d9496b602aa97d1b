------------------------------ MODULE Markings ------------------------------
(***************************************************************************)
(* The features of ase-ls-core that mark up a whole document: semantic     *)
(* tokens, folding ranges, diagnostics and links.                          *)
(***************************************************************************)
EXTENDS Navigation

-----------------------------------------------------------------------------
(* semantic_tokens.rs: the kind of a token decides, then its place in the  *)
(* syntax tree, then the symbol table.                                     *)
TokenKindToType(kind) ==
  CASE IsKeyword(kind) -> {"keyword"}
    [] kind \in TypeWords \cup {"Ntext"} -> {"type"}
    [] kind \in {"String", "NString", "HexString"} -> {"string"}
    [] kind \in {"Number", "FloatLiteral"} -> {"number"}
    [] kind \in {"LocalVar", "GlobalVar"} -> {"variable"}
    [] kind \in {"TempTable", "GlobalTempTable"} -> {"class"}
    [] kind \in OperatorSigns -> {"operator"}
    [] OTHER -> {}

(* Names the syntax tree tells the meaning of, by the index of their       *)
(* token.  Definitions, declarations and EXEC are not walked.              *)
NotWalked == {"Create", "AlterTable", "Declare", "Exec", "Transaction"}
RECURSIVE WalkedNames(_)
WalkedNames(n) ==
  IF n.op \in NotWalked THEN {}
  ELSE LET head == IF n.kids = <<>> THEN {} ELSE {n.kids[1].from}
           here == CASE n.op = "TableRef" /\ ~IsSubquery(n) -> {<<k, "class">> : k \in head}
                     [] n.op \in {"Insert", "Delete"} -> {<<k, "class">> : k \in head}
                     [] n.op = "Call" -> {<<k, "function">> : k \in head}
                     [] OTHER -> {}
       IN here \cup UNION {WalkedNames(n.kids[k]) : k \in DOMAIN n.kids}

ResolveSemanticType(st, name) ==
  CASE Upper(name) \in DOMAIN st["table"] \cup DOMAIN st["view"] \cup DOMAIN st["index"] -> {"class"}
    [] Upper(name) \in DOMAIN st["procedure"] -> {"function"}
    [] OTHER -> {}
ResolveTokenType(a, walked, k) ==
  LET t == a.tokens[k]
      byTree == {w[2] : w \in {x \in walked : x[1] = k}}
  IN CASE TokenKindToType(t.kind) # {} -> TokenKindToType(t.kind)
       [] byTree # {} -> byTree
       [] t.kind = "Ident" -> ResolveSemanticType(a.symbols, t.text)
       [] OTHER -> {}

(* Mutant: columns count from the start of the line.                       *)
PushedFromLineStart(a, s, k, type) ==
  LET o == a.tokens[k].start
      line == LineOf(a.source, o)
      char == o - LineStart(a.source, line)
  IN [data |-> Append(s.data, [dline |-> line - s.line, dchar |-> char,
                               length |-> a.tokens[k].end - o, type |-> type]),
      line |-> line, char |-> char]
(* The wire format: lines and columns relative to the token before.        *)
Pushed(a, s, k, type) ==
  LET o == a.tokens[k].start
      line == LineOf(a.source, o)
      char == o - LineStart(a.source, line)
  IN [data |-> Append(s.data, [dline |-> line - s.line, dchar |-> IF line = s.line THEN char - s.char ELSE char,
                               length |-> a.tokens[k].end - o, type |-> type]),
      line |-> line, char |-> char]
SemanticTokensOf(a, ks) ==
  LET walked == UNION {WalkedNames(a.statements[k]) : k \in DOMAIN a.statements}
      Push(s, k) == LET types == ResolveTokenType(a, walked, k)
                    IN IF types = {} THEN s ELSE Pushed(a, s, k, CHOOSE y \in types : TRUE)
  IN FoldLeft(Push, [data |-> <<>>, line |-> 0, char |-> 0], ks).data
SemanticTokensFull(a) == SemanticTokensOf(a, [k \in DOMAIN a.tokens |-> k])
(* Those that start in a range, its end included.                          *)
SemanticTokensRange(a, from, to) ==
  SemanticTokensOf(a, SelectSeq([k \in DOMAIN a.tokens |-> k],
                                LAMBDA k : from <= a.tokens[k].start /\ a.tokens[k].start <= to))

-----------------------------------------------------------------------------
(* folding.rs.  A fold is a pair of lines; where the end is not known, the *)
(* fold ends with the document.                                            *)
FoldComments(d) ==
  {<<LineOf(d, t.start), LineOf(d, t.end - 1)>> : t \in {x \in Range(LexFrom(d, 1)) : x.kind = "BlockComment"}}
FoldOf(a, n, ends) ==
  LET start == StartOf(a.tokens, n)
      end == IF \E e \in ends : e > start THEN Max(ends) ELSE a.tokens[Len(a.tokens)].end
  IN <<LineOf(a.source, start), LineOf(a.source, end)>>
RECURSIVE AstFolds(_, _)
AstFolds(a, n) ==
  LET below == UNION {AstFolds(a, Branches(n)[k]) : k \in DOMAIN Branches(n)}
      Body(b) == FoldOf(a, b, ResolveBlockEnd(a, b))
  IN CASE n.op = "Block" -> {Body(n)} \cup below
       [] n.op \in {"If", "While"} -> {FoldOf(a, n, ResolveStmtEnd(a, n))} \cup below
       [] n.op = "TryCatch" ->
            {Body(b) : b \in Range(Branches(n))} \cup UNION {AstFolds(a, c) : c \in UNION {Range(BodyOf(b)) : b \in Range(Branches(n))}}
       [] n.op = "Create" /\ n.kids[1].op \in {"Procedure", "Trigger"} ->
            {FoldOf(a, n, ResolveStmtEnd(a, n))} \cup UNION {AstFolds(a, b) : b \in Range(Branches(n.kids[1]))}
       [] OTHER -> {}
FoldingRanges(a) ==
  {f \in FoldComments(a.source) \cup UNION {AstFolds(a, a.statements[k]) : k \in DOMAIN a.statements} : f[1] < f[2]}

-----------------------------------------------------------------------------
(* diagnostics.rs: one warning per wildcard, at the first star found after *)
(* its SELECT; the search looks into what follows when the span does, and  *)
(* so far when the span is broken.                                         *)
StarScan == {"Comma", "Distinct", "All", "Top", "Number", "Ident"}
BrokenSpanScanLimit == 200
FindStarTokenAfterSelect(a, select) ==
  LET toks == a.tokens
      end == IF Broken(toks, select) THEN StartOf(toks, select) + BrokenSpanScanLimit ELSE SpanEnd(toks, select)
      inReach == {k \in select.from .. Len(toks) : toks[k].start <= end}
      Stars == {k \in inReach : /\ toks[k].kind = "Star"
                                /\ \E s \in select.from .. k - 1 :
                                     /\ toks[s].kind = "Select"
                                     /\ \A m \in s + 1 .. k - 1 : toks[m].kind \in StarScan}
  IN IF Stars = {} THEN <<>> ELSE <<toks[Min(Stars)]>>
RECURSIVE StarWarnings(_, _)
StarWarnings(a, n) ==
  LET Below(stmts) == FlattenSeq([k \in DOMAIN stmts |-> StarWarnings(a, stmts[k])])
      Subqueries(refs) == LET subs == SelectSeq(refs, IsSubquery)
                          IN Below([k \in DOMAIN subs |-> subs[k].kids[1]])
      From(m) == IF HasKid(m, "From") THEN Subqueries(TableRefs(KidOf(m, "From"))) ELSE <<>>
  IN CASE n.op = "Select" ->
            FlattenSeq([k \in DOMAIN KidsOf(n, {"Wildcard"}) |-> FindStarTokenAfterSelect(a, n)]) \o From(n)
       [] n.op = "Insert" -> Below(KidsOf(n, {"Select"}))
       [] n.op = "Update" -> Subqueries(<<n.kids[1]>>) \o From(n)
       [] n.op \in Compound -> Below(Branches(n))
       [] n.op = "Create" -> Below(Branches(n.kids[1]))
       [] OTHER -> <<>>
(* A syntax error is shown at the token the parser stopped at.             *)
ErrorRange(a, k) ==
  IF k <= Len(a.tokens) THEN RangeOf(a.tokens[k]) ELSE [start |-> 0, end |-> 1]
Diagnose(a) ==
  LET stars == FlattenSeq([k \in DOMAIN a.statements |-> StarWarnings(a, a.statements[k])])
  IN [k \in DOMAIN a.errors |-> ErrorRange(a, a.errors[k])] \o [k \in DOMAIN stars |-> RangeOf(stars[k])]

-----------------------------------------------------------------------------
(* document_links.rs: a line that starts with :r includes the file it      *)
(* names.  A path is the rest of the line, as its units.                   *)
IsDirectiveHead(toks, k) ==
  k < Len(toks) /\ toks[k].kind = "Colon" /\ toks[k + 1].kind = "Ident" /\ toks[k + 1].text = "r"
IsAtLineStart(d, o) == o = 0 \/ d[o] = "LF"
RestOfLine(d, o) == SubSeq(d, o + 1, NextUnit(d, o + 1, "LF") - 1)
Segments(path) == SelectSeq(path, LAMBDA u : u # "Slash")
(* Where a path leads from the directory of the document.                  *)
Walk(from, path) ==
  FoldLeft(LAMBDA at, u : IF u # "Up" THEN Append(at, u) ELSE IF at = <<>> THEN at ELSE Front(at), from, Segments(path))
ResolveTarget(dir, path) ==
  IF path[1] = "Slash" \/ ~IsPrefix(dir, Walk(dir, path)) THEN {} ELSE {Walk(dir, path)}
DocumentLinks(a, dir) ==
  LET heads == {k \in DOMAIN a.tokens : IsDirectiveHead(a.tokens, k) /\ IsAtLineStart(a.source, a.tokens[k].start)}
      Path(k) == RestOfLine(a.source, a.tokens[k + 1].end)
  IN UNION {{[start |-> a.tokens[k].start, end |-> a.tokens[k + 1].end + Len(Path(k)), target |-> t] :
               t \in IF Path(k) = <<>> THEN {} ELSE ResolveTarget(dir, Path(k))} : k \in heads}
=============================================================================
