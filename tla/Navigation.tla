----------------------------- MODULE Navigation -----------------------------
(***************************************************************************)
(* The features of ase-ls-core that answer a question about a position of  *)
(* a document: where a name is defined and used, what it is, what may be   *)
(* typed there.  a is the analysis of the document, o the offset asked     *)
(* about; an answer the code may refuse is a set of at most one.           *)
(***************************************************************************)
EXTENDS Document

RangeOf(t) == [start |-> t.start, end |-> t.end]
Target(a, o) == {a.tokens[k] : k \in FindTokenAt(a, o)}
IsVar(t) == t.kind = "LocalVar"

-----------------------------------------------------------------------------
(* references.rs *)
EndsWith(before, words) ==
  LET S == {k \in DOMAIN before : before[k] # "LF"}
      last == IF S = {} THEN 0 ELSE Max(S)
      n == Len(words)
  IN last >= n /\ SubSeq(before, last - n + 1, last) = words

(* Whether the text before a token makes it a definition: what the source  *)
(* spells out there, with single blanks.                                   *)
DefinitionHeads == {<<"Create", "Table">>, <<"Create", "Procedure">>, <<"Create", "View">>,
  <<"Create", "Index">>, <<"Create", "Unique", "Index">>, <<"Create", "Trigger">>}
IsDefinitionToken(a, t, isVar) ==
  LET before == SubSeq(a.source, 1, t.start)
  IN IF isVar THEN EndsWith(before, <<"Declare">>) \/ EndsWith(before, <<"Comma">>)
     ELSE \E h \in DefinitionHeads : EndsWith(before, h)

Occurrences(a, name, isVar) == SelectSeq(a.tokens, LAMBDA t : TokenMatchesSymbol(t, name, isVar))
Uses(a, name, isVar, declarations) ==
  LET kept == SelectSeq(Occurrences(a, name, isVar),
                        LAMBDA t : declarations \/ ~IsDefinitionToken(a, t, isVar))
  IN [k \in DOMAIN kept |-> RangeOf(kept[k])]
ReferenceRanges(a, o, declarations) ==
  FlattenSeq(SetToSeq({Uses(a, t.text, IsVar(t), declarations) : t \in Target(a, o)}))

(* Across documents: docs gives the analysis of each open document, stored *)
(* the entries of the symbol store for the name, with their ranges.        *)
At(uri, ranges) == [k \in DOMAIN ranges |-> [uri |-> uri, range |-> ranges[k]]]
ReferenceLocations(docs, uri, o, declarations, stored) ==
  LET a == docs[uri]
      Others(t) == FlattenSeq(SetToSeq({At(u, Uses(docs[u], t.text, FALSE, declarations)) : u \in DOMAIN docs \ {uri}}))
      Entries == SetToSeq({[uri |-> e.uri, range |-> e.range] :
                             e \in {x \in stored : declarations /\ x.kind # "variable" /\ x.uri # uri}})
  IN At(uri, ReferenceRanges(a, o, declarations))
     \o FlattenSeq(SetToSeq({IF IsVar(t) THEN <<>> ELSE Others(t) \o Entries : t \in Target(a, o)}))

-----------------------------------------------------------------------------
(* definition.rs *)
Procedures(st) == {st["procedure"][k] : k \in DOMAIN st["procedure"]}
ScopedVariables(st) ==
  UNION {Range(p.parameters) \cup Range(p.variables) : p \in Procedures(st)}
FindVariableDefinition(st, name) ==
  {RangeOf(v) : v \in Find(st, "variable", name)
                        \cup {x \in ScopedVariables(st) : Upper(x.name) = Upper(name)}}
FindObjectDefinition(st, name) ==
  {RangeOf(d) : d \in UNION {Find(st, kind, name) : kind \in SymbolKinds \ {"variable"}}}
DefinitionRanges(a, o) ==
  UNION {IF IsVar(t) THEN FindVariableDefinition(a.symbols, t.text)
         ELSE FindObjectDefinition(a.symbols, t.text) : t \in Target(a, o)}

(* The document's own definitions, or else those of the store.             *)
DefinitionLocations(docs, uri, o, stored) ==
  LET here == {[uri |-> uri, range |-> r] : r \in DefinitionRanges(docs[uri], o)}
      there == {[uri |-> e.uri, range |-> e.range] : e \in {x \in stored : x.kind # "variable"}}
  IN UNION {IF IsVar(t) \/ here # {} THEN here ELSE there : t \in Target(docs[uri], o)}

-----------------------------------------------------------------------------
(* rename.rs: a new name is known by its sigil.                            *)
Sigil(kind) ==
  CASE kind = "LocalVar" -> "@" [] kind \in {"TempTable", "GlobalTempTable"} -> "#" [] OTHER -> ""
SigilOf(name) == IF name \in P!VarWords THEN "@" ELSE IF name \in P!TempWords THEN "#" ELSE ""
(* Mutant: only occurrences written in the same case.                      *)
RenameAsWritten(a, o, new) ==
  UNION {LET same == SelectSeq(Occurrences(a, t.text, IsVar(t)), LAMBDA x : x.text = t.text)
         IN {[k \in DOMAIN same |-> [range |-> RangeOf(same[k]), text |-> <<new>>]]} : t \in Target(a, o)}
Rename(a, o, new) ==
  LET Edits(t) == LET found == Occurrences(a, t.text, IsVar(t))
                  IN [k \in DOMAIN found |-> [range |-> RangeOf(found[k]), text |-> <<new>>]]
      Accepted == {t \in Target(a, o) : Sigil(t.kind) \in {"", SigilOf(new)}}
  IN {Edits(t) : t \in Accepted} \ {<<>>}
PrepareRename(a, o) == {t \in Target(a, o) : t.kind \in {"Ident", "LocalVar", "GlobalVar"}}

-----------------------------------------------------------------------------
(* code_lens.rs *)
CodeLenses(a) ==
  {RangeOf(d) : d \in UNION {Range(a.symbols[kind]) : kind \in {"table", "procedure", "view"}}}
ResolveLens(a, lens) == Len(ReferenceRanges(a, lens.start, FALSE))

(* workspace_symbols.rs: one letter stands for any text a name contains.   *)
(* The server asks the store, of which by_name is the map.                 *)
KeyContains(key, query) == query = key
WorkspaceSymbolsWithAnalysis(a, query) ==
  UNION {{[name |-> d.name, kind |-> kind, range |-> RangeOf(d)] :
            d \in {x \in Range(a.symbols[kind]) : KeyContains(Upper(x.name), Upper(query))}} : kind \in SymbolKinds}
WorkspaceSymbolsWithStore(by_name, query) ==
  UNION {by_name[key] : key \in {k \in DOMAIN by_name : KeyContains(k, Upper(query))}}

(* symbols.rs: an outline of the top-level statements.                     *)
Outlined == {"Create", "Declare", "Select", "Insert", "Update", "Delete"}
DocumentSymbols(a) ==
  LET shown == SelectSeq(a.statements, LAMBDA n : n.op \in Outlined /\ ~HasKid(n, "VariableAssignment"))
  IN [k \in DOMAIN shown |-> [start |-> StartOf(a.tokens, shown[k]), end |-> SpanEnd(a.tokens, shown[k])]]

-----------------------------------------------------------------------------
(* db_docs: the words it has an entry for, functions with the number of    *)
(* their parameters.  One function stands for all.                         *)
DocumentedFunctions == [f \in {"f"} |-> 2]
DocumentedTypes == TypeWords \cup {"Float", "Bigtime"}
DocumentedKeywords == {"Select", "From", "Where", "Insert", "Into", "Update", "Delete", "Create", "Alter",
  "Drop", "Table", "Index", "View", "Procedure", "If", "Else", "Begin", "End", "While", "Return", "Declare",
  "Set", "Join", "Inner", "Left", "Right", "On", "And", "Or", "Not", "In", "Exists", "Between", "Like", "Is",
  "Null", "Order", "By", "Group", "Having", "Union", "Distinct", "Case", "When", "Then", "As", "Primary",
  "Foreign", "Key", "References", "Unique", "Check", "Default", "Identity", "Constraint", "Try", "Catch",
  "Throw", "Commit", "Rollback", "Transaction", "Grant", "Revoke", "Exec", "Execute", "Print", "Go", "Top"}
Documented == DocumentedKeywords \cup DocumentedTypes \cup DOMAIN DocumentedFunctions

(* hover.rs: what a hover is about.  The code asks the symbol table, then  *)
(* the columns of the statement, then its documentation.                   *)
About(what, d) == [what |-> what, of |-> d.name, range |-> RangeOf(d)]
HoverOrder == <<"table", "procedure", "view", "index", "trigger">>
SchemaHover(st, t) ==
  CASE IsVar(t) ->
         LET scoped == {v \in ScopedVariables(st) : Upper(v.name) = Upper(t.text)}
         IN IF Find(st, "variable", t.text) # {} THEN {About("variable", d) : d \in Find(st, "variable", t.text)}
            ELSE {About("variable", v) : v \in scoped}   \* of any procedure: a map has no order
    [] t.kind = "Ident" ->
         LET found == {k \in DOMAIN HoverOrder : Find(st, HoverOrder[k], t.text) # {}}
         IN IF found = {} THEN {}
            ELSE {About(HoverOrder[Min(found)], d) : d \in Find(st, HoverOrder[Min(found)], t.text)}
    [] OTHER -> {}

(* A statement whose span is broken reaches as far as is asked for.        *)
InSpan(a, o, n) == StartOf(a.tokens, n) <= o /\ (Broken(a.tokens, n) \/ o <= SpanEnd(a.tokens, n))
TableRefs(n) == SelectSeq(n.kids, LAMBDA r : r.op = "TableRef")
IsSubquery(ref) == ref.kids[1].op = "Select"
(* The tables of FROM; those of its joins are not looked at.               *)
CollectTableNames(n) ==
  LET plain == IF HasKid(n, "From")
               THEN SelectSeq(TableRefs(KidOf(n, "From")), LAMBDA r : ~IsSubquery(r)) ELSE <<>>
  IN [k \in DOMAIN plain |-> plain[k].kids[1].op]
StatementTables(n) ==
  CASE n.op = "Select" -> CollectTableNames(n)
    [] n.op = "Insert" -> <<n.kids[1].op>>
    [] n.op = "Update" -> IF IsSubquery(n.kids[1]) THEN <<>> ELSE <<n.kids[1].kids[1].op>> \o CollectTableNames(n)
    [] OTHER -> <<>>
ColumnsNamed(st, table, name) ==
  UNION {{[what |-> "column", of |-> d.name, range |-> RangeOf(d.columns[k])] :
            k \in {j \in DOMAIN d.columns : Upper(d.columns[j].name) = Upper(name)}} : d \in Find(st, "table", table)}
First(answers) ==
  LET S == {k \in DOMAIN answers : answers[k] # {}} IN IF S = {} THEN {} ELSE answers[Min(S)]
RECURSIVE ResolveColumn(_, _, _, _)
ResolveColumn(a, n, o, name) ==
  CASE n.op \in Compound ->
         First(LET kids == FlattenSeq([k \in DOMAIN Branches(n) |->
                                         IF n.op = "TryCatch" THEN BodyOf(Branches(n)[k]) ELSE <<Branches(n)[k]>>])
               IN [k \in DOMAIN kids |-> ResolveColumn(a, kids[k], o, name)])
    [] n.op = "Create" ->
         First([k \in DOMAIN Branches(n.kids[1]) |->
                  IF n.kids[1].op \in {"Procedure", "Trigger"} THEN ResolveColumn(a, Branches(n.kids[1])[k], o, name)
                  ELSE {}])
    [] OTHER ->
         IF InSpan(a, o, n)
         THEN First([k \in DOMAIN StatementTables(n) |-> ColumnsNamed(a.symbols, StatementTables(n)[k], name)])
         ELSE {}
ColumnHover(a, t) ==
  First([k \in DOMAIN a.statements |-> ResolveColumn(a, a.statements[k], t.start, t.text)])
Hover(a, o) ==
  UNION {IF SchemaHover(a.symbols, t) # {} THEN SchemaHover(a.symbols, t)
         ELSE IF ColumnHover(a, t) # {} THEN ColumnHover(a, t)
         ELSE IF IsVar(t) \/ IsKeyword(t.kind) \/ t.text \in Documented THEN {[what |-> "word", of |-> t.text, range |-> RangeOf(t)]}
         ELSE {} : t \in Target(a, o)}
=============================================================================
