----------------------------- MODULE Suggestions -----------------------------
(***************************************************************************)
(* The features of ase-ls-core that show the user what he might write or   *)
(* what an argument means: completion, signature help and inlay hints.     *)
(***************************************************************************)
EXTENDS Navigation

-----------------------------------------------------------------------------
(* completion.rs.  The prefix is the line up to the cursor; a word, a dot  *)
(* and what follows the dot are not separated by blanks.                   *)
Prefix(d, o) == SubSeq(d, LineStart(d, LineOf(d, o)) + 1, o)
LastWord(prefix, n) == IF Len(prefix) < n THEN "" ELSE prefix[Len(prefix) + 1 - n]

QualifierWords == P!IdentWords \cup P!TempWords \cup P!NumberWords
DetectColumnTrigger(prefix) ==
  IF LastWord(prefix, 1) = "Dot" /\ LastWord(prefix, 3) # "Dot"
  THEN {LastWord(prefix, 2)} \cap QualifierWords ELSE {}
TableWords == {"From", "Join", "Into", "Update", "Table"}
DetectContext(prefix) ==
  LET last2 == {LastWord(prefix, 1), LastWord(prefix, 2)}
  IN CASE DetectColumnTrigger(prefix) # {} -> "Column"
       [] "Declare" \in last2 -> "VariableDeclaration"
       [] TableWords \cap last2 # {} -> "Table"
       [] OTHER -> "Expression"

(* What the FROM clauses of a document call its tables; procedures, views  *)
(* and triggers are not looked into.                                       *)
FromTarget(ref) ==
  IF IsSubquery(ref) THEN <<>>
  ELSE <<[key |-> IF HasKid(ref, "Alias") THEN KidOf(ref, "Alias").kids[1].op ELSE ref.kids[1].op,
          table |-> ref.kids[1].op]>>
RECURSIVE CollectFromTargets(_)
CollectFromTargets(n) ==
  CASE n.op = "Select" /\ HasKid(n, "From") ->
         LET from == KidOf(n, "From")
             joined == KidsOf(from, {"Join"})
             refs == TableRefs(from) \o [k \in DOMAIN joined |-> TableRefs(joined[k])[1]]
         IN FlattenSeq([k \in DOMAIN refs |-> FromTarget(refs[k])])
    [] n.op \in Compound -> FlattenSeq([k \in DOMAIN Branches(n) |-> CollectFromTargets(Branches(n)[k])])
    [] OTHER -> <<>>
ResolveColumnsForQualifier(a, qualifier) ==
  LET targets == FlattenSeq([k \in DOMAIN a.statements |-> CollectFromTargets(a.statements[k])])
      resolved == SelectSeq(targets, LAMBDA t : Upper(t.key) = Upper(qualifier))
  IN Find(a.symbols, "table", IF Len(resolved) = 1 THEN resolved[1].table ELSE qualifier)

(* Variables of the document, then those of procedures, one of each name.  *)
VariableItems(st) == {Upper(v.name) : v \in Range(st["variable"]) \cup ScopedVariables(st)}
CompleteAll == Documented
Complete(a, o) ==
  LET prefix == Prefix(a.source, o)
  IN CASE DetectContext(prefix) = "Column" ->
            [context |-> "Column",
             items |-> UNION {Range([k \in DOMAIN t.columns |-> t.columns[k].name]) :
                         t \in UNION {ResolveColumnsForQualifier(a, q) : q \in DetectColumnTrigger(prefix)}}]
       [] DetectContext(prefix) = "VariableDeclaration" -> [context |-> "VariableDeclaration", items |-> {}]
       [] DetectContext(prefix) = "Table" ->
            [context |-> "Table", items |-> {t.name : t \in Range(a.symbols["table"])}]
       [] OTHER -> [context |-> "Expression", items |-> VariableItems(a.symbols) \cup CompleteAll]

-----------------------------------------------------------------------------
(* signature_help.rs: the innermost open call at an offset.  A name stays  *)
(* pending over operators and dots until a parenthesis takes or drops it.  *)
Scanned(s, t) ==
  CASE t.kind \in {"Ident", "LocalVar"} \/ IsKeyword(t.kind) -> [s EXCEPT !.pending = {t.text}]
    [] t.kind = "LParen" ->
         [depth |-> s.depth + 1, pending |-> {},
          stack |-> s.stack \o SetToSeq({[name |-> n, active |-> 0, open |-> s.depth + 1] : n \in s.pending})]
    [] t.kind = "RParen" ->
         [depth |-> s.depth - 1, pending |-> {},
          stack |-> SelectSeq(s.stack, LAMBDA f : f.open < s.depth)]
    [] t.kind = "Comma" ->
         IF s.stack # <<>> /\ s.stack[Len(s.stack)].open = s.depth
         THEN [s EXCEPT !.stack[Len(s.stack)].active = @ + 1] ELSE s
    [] OTHER -> s
ScanForCallFrame(a, o) ==
  LET seen == SelectSeq(a.tokens, LAMBDA t : t.start <= o)
      s == FoldLeft(Scanned, [depth |-> 0, pending |-> {}, stack |-> <<>>], seen)
  IN IF s.depth > 0 /\ s.stack # <<>> THEN {s.stack[Len(s.stack)]} ELSE {}
SignatureHelp(a, o) ==
  {[name |-> f.name, parameter |-> Min({f.active, DocumentedFunctions[f.name] - 1})] :
     f \in {x \in ScanForCallFrame(a, o) : x.name \in DOMAIN DocumentedFunctions}}

-----------------------------------------------------------------------------
(* inlay_hints.rs: types of declared variables, names of parameters; top-  *)
(* level statements only.  A named argument counts as one.                 *)
TypeHints(a, n) ==
  [k \in DOMAIN n.kids |-> [at |-> ExactEnd(a.tokens, n.kids[k].kids[1]), label |-> TypeOf(a.tokens, n.kids[k])]]
ParameterHints(a, n) ==
  LET args == Tail(n.kids)
      Hints(p) == FlattenSeq([k \in DOMAIN args |->
        IF args[k].op = "Named" \/ k > Len(p.parameters) THEN <<>>
        ELSE <<[at |-> StartOf(a.tokens, args[k]), label |-> p.parameters[k].name]>>])
  IN FlattenSeq(SetToSeq({Hints(p) : p \in Find(a.symbols, "procedure", n.kids[1].op)}))
InlayHints(a, from, to) ==
  LET all == FlattenSeq([k \in DOMAIN a.statements |->
        CASE a.statements[k].op = "Declare" -> TypeHints(a, a.statements[k])
          [] a.statements[k].op = "Exec" -> ParameterHints(a, a.statements[k])
          [] OTHER -> <<>>])
  IN SelectSeq(all, LAMBDA h : from <= h.at /\ h.at < to)
=============================================================================
