------------------------------- MODULE Editing -------------------------------
(***************************************************************************)
(* The features of ase-ls-core that offer to change a document: formatting *)
(* of the whole or of a range, and the code actions.  An edit replaces the *)
(* units between two offsets; an offer is a set of at most one edit.       *)
(***************************************************************************)
EXTENDS Navigation

Edit(start, end, text) == [start |-> start, end |-> end, text |-> text]
(* What the client makes of an edit.                                       *)
Applied(d, e) == SubSeq(d, 1, e.start) \o e.text \o SubSeq(d, e.end + 1, Len(d))

(* str::lines: a line feed at the end of the text opens no line.           *)
Lines(d) ==
  LET n == IF d = <<>> THEN 0 ELSE IF Last(d) = "LF" THEN LineCount(d) - 1 ELSE LineCount(d)
  IN [k \in 1 .. n |-> GetLine(d, k - 1)]
Joined(lines, sep) == FlattenSeq([k \in DOMAIN lines |-> IF k = 1 THEN lines[k] ELSE sep \o lines[k]])

-----------------------------------------------------------------------------
(* formatting.rs: the text is written again token by token, comments       *)
(* included.  Indentation and the case of keywords change no token.        *)
NewlineKeywords == {"Select", "From", "Where", "Group", "Order", "Having", "Union", "Insert", "Update",
  "Delete", "Create", "Alter", "Drop", "Declare", "Set", "If", "Else", "While", "Return", "Begin", "End",
  "Try", "Catch"}
ShouldNewlineBefore(kind, prev) ==
  \/ prev \in {"Go", "Semicolon"}
  \/ prev \in {"Begin", "End"} /\ kind # "End"
  \/ kind \in NewlineKeywords /\ ~(prev = "Select" /\ kind = "From")
NeedsSpaceBefore(kind, prev) ==
  kind \notin {"RParen", "LParen", "Comma", "Semicolon", "Dot"} /\ prev \notin {"LParen", "Dot"}

(* With an indent of no width every text ends with the indent, and no      *)
(* space is written at all: two words become one that nobody wrote.        *)
Signs == {"LParen", "RParen", "Comma", "Semicolon", "Dot", "Colon"} \cup OperatorSigns \cup Comments
Written(s, t, units, width) ==
  LET first == s.out = <<>>
      newline == ~first /\ ShouldNewlineBefore(t.kind, s.prev)
      glued == ~first /\ ~newline /\ {t.kind, s.prev} \cap Signs = {}
                 /\ (width = 0 \/ ~NeedsSpaceBefore(t.kind, s.prev))
  IN [out |-> IF newline THEN s.out \o <<"LF">> \o units
              ELSE IF glued THEN Append(Front(s.out), "Glued") ELSE s.out \o units,
      prev |-> t.kind]
FormatSql(d, width) ==
  LET out == FoldLeft(LAMBDA s, t : Written(s, t, SubSeq(d, t.start + 1, t.end), width),
                      [out |-> <<>>, prev |-> "Eof"], LexFrom(d, 1)).out
  IN IF out = <<>> \/ Last(out) = "LF" THEN out ELSE Append(out, "LF")
Format(d, width) ==
  IF FormatSql(d, width) = d THEN {} ELSE {Edit(0, Len(d), FormatSql(d, width))}

(* Lines from and to of the formatted text replace the range asked about.  *)
FormatRange(d, start, end, width) ==
  LET formatted == Lines(FormatSql(d, width))
      last == Len(formatted) - 1
      from == Min({LineOf(d, start), last})
      to == Min({LineOf(d, end), last})
      new == SubSeq(formatted, from + 1, to + 1)
  IN IF formatted = <<>> \/ from > to THEN {}
     ELSE IF to < Len(Lines(d)) /\ SubSeq(Lines(d), from + 1, to + 1) = new THEN {}
     ELSE {Edit(start, end, Joined(new, <<"LF">>))}

-----------------------------------------------------------------------------
(* code_actions.rs: SELECT * and INSERT at the top level.  A statement     *)
(* reaches to the start of the next one.                                   *)
Reach(a, k) == IF k < Len(a.statements) THEN StartOf(a.tokens, a.statements[k + 1]) ELSE Len(a.source)
StatementAt(a, o, wanted) ==
  LET S == {k \in wanted : StartOf(a.tokens, a.statements[k]) <= o /\ o <= Reach(a, k)}
  IN IF S = {} THEN {} ELSE {a.statements[Min(S)]}
HasStarAndTable(n) == n.op = "Select" /\ HasKid(n, "Wildcard") /\ HasKid(n, "From")
FirstTable(n) == TableRefs(KidOf(n, "From"))[1]
FindSelectStarForPosition(a, o) ==
  {n \in StatementAt(a, o, {k \in DOMAIN a.statements : HasStarAndTable(a.statements[k])}) :
     ~IsSubquery(FirstTable(n))}
FindInsertForPosition(a, o) == StatementAt(a, o, {k \in DOMAIN a.statements : a.statements[k].op = "Insert"})

Listed(names) == Joined([k \in DOMAIN names |-> <<names[k]>>], <<"Comma">>)
TableOf(a, name) == {t \in Find(a.symbols, "table", name) : t.columns # <<>>}
ColumnNames(cols) == [k \in DOMAIN cols |-> cols[k].name]
Insertable(t) == ColumnNames(SelectSeq(t.columns, LAMBDA c : ~c.identity))

(* The first star at or after the SELECT is replaced, by SELECT and the    *)
(* columns.                                                                *)
TryExpandSelectStar(a, o) ==
  UNION {LET Stars == {k \in n.from .. Len(a.tokens) : a.tokens[k].kind = "Star"}
         IN {Edit(a.tokens[Min(Stars)].start, a.tokens[Min(Stars)].end,
                  <<"Select">> \o Listed(ColumnNames(t.columns))) :
               t \in IF Stars = {} THEN {} ELSE TableOf(a, FirstTable(n).kids[1].op)} :
         n \in FindSelectStarForPosition(a, o)}

Skeleton(name, t) ==
  <<"Insert", "Into", name, "LParen">> \o Listed(Insertable(t)) \o <<"RParen", "Values", "LParen">>
  \o Listed([k \in DOMAIN Insertable(t) |-> "?"]) \o <<"RParen">>
TryGenerateInsertSkeletonAst(a, o) ==
  UNION {{Edit(StartOf(a.tokens, n), SpanEnd(a.tokens, n), Skeleton(n.kids[1].op, t)) :
            t \in IF HasKid(n, "DefaultValues") THEN TableOf(a, n.kids[1].op) ELSE {}} :
         n \in FindInsertForPosition(a, o)}
(* Without such a statement the line is looked at, and replaced.           *)
TryGenerateInsertSkeleton(a, o) ==
  LET n == LineOf(a.source, o)
      line == GetLine(a.source, n)
      Heads == {k \in 1 .. Len(line) - 2 : line[k] = "Insert" /\ line[k + 1] = "Into"}
  IN IF Heads = {} \/ {"Values", "Select"} \cap Range(line) # {} THEN {}
     ELSE LET name == line[Min(Heads) + 2]
          IN {Edit(LineStart(a.source, n), LineEnd(a.source, n), Skeleton(name, t)) : t \in TableOf(a, name)}
InsertSkeleton(a, o) ==
  IF TryGenerateInsertSkeletonAst(a, o) # {} THEN TryGenerateInsertSkeletonAst(a, o)
  ELSE TryGenerateInsertSkeleton(a, o)

(* A column list for an INSERT .. VALUES without one, at any depth.        *)
ResolveInsertStmtEnd(a, n) ==
  LET Semicolons == {k \in n.from .. Len(a.tokens) : a.tokens[k].kind = "Semicolon"}
  IN IF ~Broken(a.tokens, n) THEN SpanEnd(a.tokens, n)
     ELSE IF Semicolons # {} THEN a.tokens[Min(Semicolons)].end ELSE Last(a.tokens).end
AddColumns(a, n, o) ==
  LET end == ResolveInsertStmtEnd(a, n)
      Values == {k \in n.from .. Len(a.tokens) : a.tokens[k].kind = "Values" /\ a.tokens[k].start <= end}
      at == a.tokens[Min(Values)].start
  IN {Edit(at, at, <<"LParen">> \o Listed(Insertable(t)) \o <<"RParen">>) :
        t \in {x \in TableOf(a, n.kids[1].op) :
                 /\ StartOf(a.tokens, n) <= o /\ o <= end
                 /\ ~HasKid(n, "Columns") /\ HasKid(n, "Values")
                 /\ Insertable(x) # <<>> /\ Values # {}}}
Within(n) ==
  CASE n.op = "TryCatch" -> FlattenSeq([k \in DOMAIN Branches(n) |-> BodyOf(Branches(n)[k])])
    [] n.op = "Create" -> IF n.kids[1].op \in {"Procedure", "Trigger"} THEN Branches(n.kids[1]) ELSE <<>>
    [] n.op \in Compound -> Branches(n)
    [] OTHER -> <<>>
RECURSIVE TryAddInsertColumns(_, _, _)
TryAddInsertColumns(a, stmts, o) ==
  First([k \in DOMAIN stmts |->
    IF stmts[k].op = "Insert" THEN AddColumns(a, stmts[k], o)
    ELSE TryAddInsertColumns(a, Within(stmts[k]), o)])

-----------------------------------------------------------------------------
(* BEGIN on a line of its own: wrap the block in TRY .. CATCH.             *)
RECURSIVE FindBlockAtOffset(_, _, _)
FindBlockAtOffset(a, n, o) ==
  LET below == First([k \in DOMAIN Within(n) |-> FindBlockAtOffset(a, Within(n)[k], o)])
  IN IF n.op # "Block" THEN below
     ELSE IF \E e \in ResolveBlockEnd(a, n) : StartOf(a.tokens, n) <= o /\ o <= e
          THEN IF below # {} THEN below ELSE {n}
     ELSE {}

Handler == <<"LF", "End", "Try", "LF", "Begin", "Catch", "LF", "--", "LF", "End", "Catch">>
WholeLines(d, from, to, text) == Edit(LineStart(d, from), LineEnd(d, to), text)
TryWrapTryCatchAst(a, o) ==
  {LET from == LineOf(a.source, StartOf(a.tokens, b))
       to == LineOf(a.source, Max(ResolveBlockEnd(a, b)))
       body == [k \in 1 .. to - from - 1 |-> GetLine(a.source, from + k)]
   IN WholeLines(a.source, from, to, <<"Begin", "Try", "LF">> \o Joined(body, <<"LF">>) \o Handler) :
     b \in First([k \in DOMAIN a.statements |-> FindBlockAtOffset(a, a.statements[k], o)])}

FindMatchingEnd(d, line) ==
  LET Count(w, i) == Cardinality({j \in LineEnd(d, line) + 1 .. i : d[j] = w})
      Ends == {i \in LineEnd(d, line) + 1 .. Len(d) : d[i] = "End" /\ Count("End", i) = Count("Begin", i) + 1}
  IN IF Ends = {} THEN {} ELSE {LineOf(d, Min(Ends))}
(* Without a block there, the words are looked at; the text between BEGIN  *)
(* and END is not kept.                                                    *)
TryWrapTryCatch(a, o) ==
  LET from == LineOf(a.source, o)
  IN {WholeLines(a.source, from, to, <<"Begin", "Try", "LF", "Begin", "LF", "End">> \o Handler) :
        to \in FindMatchingEnd(a.source, from)}
WrapTryCatch(a, o) ==
  IF GetLine(a.source, LineOf(a.source, o)) # <<"Begin">> THEN {}
  ELSE IF TryWrapTryCatchAst(a, o) # {} THEN TryWrapTryCatchAst(a, o) ELSE TryWrapTryCatch(a, o)

CodeActions(a, o) ==
  {[title |-> title, edit |-> e] : <<title, e>> \in
     ({"expand"} \X TryExpandSelectStar(a, o)) \cup ({"skeleton"} \X InsertSkeleton(a, o))
     \cup ({"columns"} \X TryAddInsertColumns(a, a.statements, o)) \cup ({"wrap"} \X WrapTryCatch(a, o))}
=============================================================================
