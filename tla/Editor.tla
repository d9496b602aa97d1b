-------------------------------- MODULE Editor --------------------------------
(***************************************************************************)
(* The language features at work: documents are opened, changed and closed *)
(* in the editor, files are indexed in the background, the symbol store    *)
(* follows, and the editor asks about a position of an open document or    *)
(* for what it shows of the whole document.  Here a notification or a      *)
(* request is one step; LspServer is about their interleaving.             *)
(***************************************************************************)
EXTENDS Editing, Suggestions, Markings

CONSTANTS
  Uris,       \* files
  Sessions,   \* which documents each file may hold in a session
  GivenNames, \* the names a user gives, by sigil
  Widths      \* formatting.indentWidth

VARIABLES
  session,    \* the session that goes on
  documents,  \* the documents the server has read, analysed, by file
  open,       \* the files open in the editor
  by_name, by_uri,  \* SymbolStore
  answer      \* what the editor was answered last

vars == <<session, documents, open, by_name, by_uri, answer>>


SymbolNames == P!IdentWords \cup P!VarWords \cup P!TempWords
Store == INSTANCE SymbolStore WITH
  Names <- SymbolNames, Key <- [n \in SymbolNames |-> Upper(n)], Kinds <- SymbolKinds,
  Sources <- {"Open", "Live", "Background"}

Nothing == [about |-> "nothing"]

(* SymbolStore::upsert enters every symbol of an analysis.  An entry holds *)
(* the symbol's range, too; the store is entered in the step in which the  *)
(* document is analysed, so the range is that of the analysis.             *)
SymbolsOf(a) ==
  UNION {{<<x.name, kind>> : x \in Range(a.symbols[kind])} : kind \in SymbolKinds}
Located(entries) ==
  UNION {{[uri |-> e.uri, kind |-> e.kind, name |-> e.name, range |-> RangeOf(x)] :
            x \in Find(documents[e.uri].symbols, e.kind, e.name)} : e \in entries}
Lookup(name) == Located(Store!lookup(Upper(name)))

-----------------------------------------------------------------------------
Init ==
  /\ session \in Sessions
  /\ documents = [u \in {} |-> Nothing]
  /\ open = {}
  /\ Store!Init
  /\ answer = Nothing

(* A file is read when it is indexed in the background, opened in the      *)
(* editor, or changed there; a change to the same content leaves the       *)
(* analysis and the store alone.                                           *)
Due(u, d, source) ==
  CASE source = "Live" -> u \in open /\ documents[u].source # d
    [] OTHER -> u \notin open
Read(u, d, source) ==
  /\ Due(u, d, source)
  /\ open' = IF source = "Background" THEN open ELSE open \cup {u}
  /\ \E a \in {Analyse(d)} :
       /\ documents' = [v \in DOMAIN documents \cup {u} |-> IF v = u THEN a ELSE documents[v]]
       /\ Store!Upsert(u, SymbolsOf(a), source)
Close(u) ==
  /\ answer = Nothing /\ u \in open
  /\ documents' = [v \in DOMAIN documents \ {u} |-> documents[v]]
  /\ open' = open \ {u}
  /\ Store!Close(u)
  /\ UNCHANGED <<session, answer>>

-----------------------------------------------------------------------------
(* What the features answer about an offset.                               *)
OpenAnalyses == [u \in open |-> documents[u]]
Stored(u, o) == UNION {Lookup(t.text) : t \in Target(documents[u], o)}
AskAnswer(u, o) ==
  LET a == documents[u]
  IN [about |-> "position", uri |-> u, at |-> o,
      references |-> Range(ReferenceLocations(OpenAnalyses, u, o, TRUE, Stored(u, o))),
      uses |-> Range(ReferenceLocations(OpenAnalyses, u, o, FALSE, Stored(u, o))),
      definitions |-> DefinitionLocations(OpenAnalyses, u, o, Stored(u, o)),
      renames |-> UNION {Rename(a, o, new) : new \in GivenNames},
      placeholders |-> {t.text : t \in PrepareRename(a, o)},
      found |-> UNION {Located(WorkspaceSymbolsWithStore(by_name, t.text)) : t \in Target(a, o)},
      hover |-> Hover(a, o),
      completion |-> Complete(a, o),
      signature |-> SignatureHelp(a, o),
      actions |-> CodeActions(a, o)]

(* What it shows of a document, with its settings, and of its last lines.  *)
ShowAnswer(u) ==
  LET a == documents[u]
  IN [about |-> "document", uri |-> u,
      outline |-> DocumentSymbols(a),
      lenses |-> {<<l, ResolveLens(a, l)>> : l \in CodeLenses(a)},
      semantic |-> SemanticTokensFull(a),
      lines |-> [n \in 0 .. LineCount(a.source) - 1 |->
                   SemanticTokensRange(a, LineStart(a.source, n), LineEnd(a.source, n))],
      folds |-> FoldingRanges(a),
      diagnostics |-> Diagnose(a),
      links |-> DocumentLinks(a, <<>>),
      hints |-> InlayHints(a, 0, Len(a.source)),
      formatted |-> UNION {{[width |-> w, edit |-> e] : e \in Format(a.source, w)} : w \in Widths},
      ranges |-> UNION {{[from |-> n, edit |-> e] :
                           e \in FormatRange(a.source, LineStart(a.source, n), Len(a.source), 1)} :
                        n \in 0 .. LineCount(a.source) - 1}]

Ask(u, o) ==
  /\ answer = Nothing /\ u \in open /\ o <= Len(documents[u].source)
  /\ \E r \in {AskAnswer(u, o)} : answer' = r
  /\ UNCHANGED <<session, documents, open, by_name, by_uri>>
Show(u) ==
  /\ answer = Nothing /\ u \in open /\ documents[u].source # <<>>
  /\ \E r \in {ShowAnswer(u)} : answer' = r
  /\ UNCHANGED <<session, documents, open, by_name, by_uri>>
Received ==
  /\ answer.about \in {"position", "document"}
  /\ answer' = Nothing
  /\ UNCHANGED <<session, documents, open, by_name, by_uri>>

-----------------------------------------------------------------------------
(* The user accepts a rename or a column list of the answer: the editor    *)
(* changes the text and tells the server, and the user takes it back       *)
(* afterwards.  The other offers are computed and not accepted here.       *)
Renamed(d, edits) ==
  [i \in DOMAIN d |-> IF \E e \in Range(edits) : e.range.start = i - 1
                      THEN CHOOSE w \in GivenNames : \A e \in Range(edits) : e.text = <<w>> ELSE d[i]]
(* The editor asks prepareRename first; only names not in use are tried.   *)
Renameable(a, name) == answer.placeholders # {} /\ \A x \in Range(a.tokens) : Upper(x.text) # Upper(name)
Changes ==
  LET a == documents[answer.uri]
  IN {[title |-> "rename", edits |-> edits, text |-> Renamed(a.source, edits)] :
        edits \in {e \in answer.renames : Renameable(a, e[1].text[1])}}
     \cup {[title |-> "columns", edits |-> <<act.edit>>, text |-> Applied(a.source, act.edit)] :
              act \in {x \in answer.actions : x.title = "columns"}}
Accept ==
  /\ answer.about = "position"
  /\ \E c \in Changes :
       answer' = [about |-> "change", uri |-> answer.uri, at |-> answer.at, change |-> c, before |-> documents[answer.uri]]
  /\ UNCHANGED <<session, documents, open, by_name, by_uri>>

(* What the user may have in a file next, and what is then pending.        *)
Awaited(u) ==
  CASE answer = Nothing -> IF u \in DOMAIN session THEN session[u] ELSE {}
    [] answer.about = "change" /\ u = answer.uri ->
         IF documents[u] = answer.before THEN {answer.change.text} ELSE {answer.before.source}
    [] OTHER -> {}
Undone == answer # Nothing /\ documents[answer.uri] # answer.before

Next ==
  \/ \E u \in Uris :
       \/ /\ \E d \in Awaited(u), source \in {"Open", "Live", "Background"} : Read(u, d, source)
          /\ answer' = IF Undone THEN Nothing ELSE answer
          /\ UNCHANGED session
       \/ Close(u)
       \/ u \in open /\ \E o \in 0 .. Len(documents[u].source) : Ask(u, o)
       \/ Show(u)
  \/ Accept
  \/ Received

Spec == Init /\ [][Next]_vars

-----------------------------------------------------------------------------
Positioned == answer.about = "position"
Shown == answer.about = "document"
Asked == documents[answer.uri]
Word == Target(Asked, answer.at)      \* the token asked about

(* Triggers are stored with the range of their statement.                  *)
IsTrigger(u, r) == \E s \in Range(documents[u].symbols["trigger"]) : RangeOf(s) = r
Spells(u, r, name) == \E t \in Range(documents[u].tokens) : RangeOf(t) = r /\ Upper(t.text) = Upper(name)

(* The wire format read back: where each semantic token is.                *)
Decoded(data) ==
  LET Next1(s, d) == LET line == s.line + d.dline
                         char == IF d.dline = 0 THEN s.char + d.dchar ELSE d.dchar
                     IN [line |-> line, char |-> char, out |-> s.out \cup {<<line, char, d.length, d.type>>}]
  IN FoldLeft(Next1, [line |-> 0, char |-> 0, out |-> {}], data).out
LineCharOf(a, t) == <<LineOf(a.source, t.start), t.start - LineStart(a.source, LineOf(a.source, t.start))>>

(* The fold of an IF, a WHILE or a CREATE ends with the last statement of  *)
(* its block, before the END, when that statement has an end of its own.   *)
EndedEarly(a) ==
  \E k \in 2 .. Len(a.tokens) : a.tokens[k].kind = "End" /\ a.tokens[k - 1].kind \in {"Break", "Continue", "Return", "End"}

(* The innermost calls around an offset, in the syntax tree: between the   *)
(* parentheses, with every other one closed.                               *)
CallsAt(a, o) ==
  LET calls == {n \in UNION {P!NodesBelow(a.statements[k]) : k \in DOMAIN a.statements} : n.op = "Call"}
      Count(n, kind) == Cardinality({k \in n.from .. n.to : a.tokens[k].kind = kind /\ a.tokens[k].start <= o})
  IN {n \in calls : Count(n, "LParen") = Count(n, "RParen") + 1}
ArgumentAt(a, n, o) ==
  Cardinality({k \in 3 .. Len(n.kids) : a.tokens[n.kids[k].from - 1].start <= o})

(* Every place a feature shows is a place of the text it is shown in, at   *)
(* the time: names stand where definitions, uses and symbols of any file   *)
(* are said to be; semantic tokens, decoded as the client does, lie on     *)
(* tokens of the right kind, and those of a line are those of the document *)
(* on that line; folds lie in the document and two of them nest or share   *)
(* but a line; warnings lie on stars, hints at names; signature help is    *)
(* about the innermost call around the offset and the argument there.      *)
AnswersPointAtTokens ==
  /\ Positioned => \A t \in Word :
       /\ \A l \in answer.references \cup answer.uses \cup answer.definitions :
            IsTrigger(l.uri, l.range) \/ Spells(l.uri, l.range, t.text)
       /\ \A s \in answer.found : s.kind = "trigger" \/ Spells(s.uri, s.range, s.name)
  /\ Positioned => \A n \in CallsAt(Asked, answer.at) :
       answer.signature = {[name |-> f, parameter |-> Min({ArgumentAt(Asked, n, answer.at), DocumentedFunctions[f] - 1})] :
                             f \in {n.kids[1].op} \cap DOMAIN DocumentedFunctions}
  /\ Shown =>
       /\ \A s \in Decoded(answer.semantic) :
            \E t \in Range(Asked.tokens) : /\ LineCharOf(Asked, t) = <<s[1], s[2]>> /\ t.end - t.start = s[3]
                                          /\ IsKeyword(t.kind) <=> s[4] = "keyword"
       /\ Cardinality(Decoded(answer.semantic)) = Len(answer.semantic)
       /\ \A n \in DOMAIN answer.lines :
            Decoded(answer.lines[n]) = {s \in Decoded(answer.semantic) : s[1] = n}
       /\ \A f, g \in answer.folds :
            /\ f[2] < LineCount(Asked.source)
            /\ f[1] < g[1] /\ f[2] < g[2] => f[2] <= g[1] \/ EndedEarly(Asked)
       /\ \A k \in DOMAIN answer.diagnostics : k > Len(Asked.errors) =>
            \E t \in Range(Asked.tokens) : t.kind = "Star" /\ RangeOf(t) = answer.diagnostics[k]
       /\ \A l \in answer.links : Asked.source[l.start + 1] = "Colon" /\ l.end <= Len(Asked.source)
       /\ \A k \in DOMAIN answer.hints :
            \E t \in Range(Asked.tokens) : answer.hints[k].at \in {t.start, t.end}

(* The features agree on what a name is.  A definition is among the        *)
(* references; every reference in the document answers with the same       *)
(* references, and is what a rename changes; a hover describes one of the  *)
(* definitions; the workspace's symbols of the name are those of the files *)
(* the server has read, and include the definitions.  What completion      *)
(* offers is defined, and where variables are offered, all of them are.    *)
NamesResolveAlike ==
  /\ Positioned => \A t \in Word :
       LET here == {l \in answer.references : l.uri = answer.uri}
           name == t.kind \in {"Ident", "LocalVar", "TempTable"}
       IN /\ answer.uses \subseteq answer.references
          /\ \A l \in answer.definitions :
               IsTrigger(l.uri, l.range) \/ l.uri \notin open \/ l \in answer.references
          /\ \A l \in here :
               Range(ReferenceLocations(OpenAnalyses, answer.uri, l.range.start, TRUE,
                                        Stored(answer.uri, answer.at))) = answer.references
          /\ \A edits \in answer.renames : {e.range : e \in Range(edits)} = {l.range : l \in here}
          /\ \A h \in answer.hover : h.what \in SymbolKinds =>
               [uri |-> answer.uri, range |-> h.range] \in answer.definitions
          /\ t.kind \in {"Ident", "LocalVar"} /\ answer.hover = {} =>
               \A l \in answer.definitions : l.uri # answer.uri
          /\ {[kind |-> s.kind, name |-> s.name, range |-> s.range, uri |-> s.uri] : s \in answer.found} =
               UNION {{[kind |-> s.kind, name |-> s.name, range |-> s.range, uri |-> u] :
                         s \in WorkspaceSymbolsWithAnalysis(documents[u], t.text)} : u \in DOMAIN documents}
          /\ name /\ ~IsVar(t) =>
               answer.definitions \subseteq {[uri |-> s.uri, range |-> s.range] : s \in answer.found}
  /\ Positioned =>
       LET st == Asked.symbols
           used == {t \in Range(Asked.tokens) : IsVar(t) /\ FindVariableDefinition(st, t.text) # {}}
           items == answer.completion.items
       IN CASE answer.completion.context = "Column" ->
                 \A x \in items : \E key \in DOMAIN st["table"] : ColumnsNamed(st, key, x) # {}
            [] answer.completion.context = "Table" -> \A x \in items : FindObjectDefinition(st, x) # {}
            [] answer.completion.context = "Expression" ->
                 /\ \A x \in items \ Documented : FindVariableDefinition(st, x) # {}
                 /\ {Upper(t.text) : t \in used} \subseteq items
            [] OTHER -> items = {}

-----------------------------------------------------------------------------
RECURSIVE Respelled(_, _, _)
Respelled(n, old, new) ==
  [n EXCEPT !.op = IF Upper(@) = Upper(old) THEN new ELSE @,
            !.kids = [k \in DOMAIN @ |-> Respelled(@[k], old, new)]]
Spellings(d) == LET toks == LexFrom(d, 1) IN [k \in DOMAIN toks |-> SubSeq(d, toks[k].start + 1, toks[k].end)]
StatementKinds(stmts) == [k \in DOMAIN stmts |-> stmts[k].op]

(* Identifiers for the lexer that the parser reads as words of its own.    *)
Contextual == {"ADD", "COLUMN", "FOR", "TRUE", "FALSE", "UNKNOWN"}
(* before and after are the analyses of the document without and with the  *)
(* change, o is the offset it was asked for at.                            *)
RenameKept(edits, before, after, o) ==
  \A t \in Target(before, o) :
    LET new == edits[1].text[1]
    IN t.text \notin Contextual /\ SigilOf(new) = Sigil(t.kind) =>
         /\ after.statements = [k \in DOMAIN before.statements |-> Respelled(before.statements[k], t.text, new)]
         /\ after.errors = before.errors
         /\ DefinitionRanges(after, o) = DefinitionRanges(before, o)
ColumnsKept(before, after) ==
  /\ Len(after.errors) = Len(before.errors)
  /\ StatementKinds(after.statements) = StatementKinds(before.statements)

(* The formatter writes on after a line comment unless a new line is due.  *)
LineCommentsLast(d) ==
  LET toks == LexFrom(d, 1)
  IN \A k \in 1 .. Len(toks) - 1 :
       toks[k].kind = "LineComment" => ShouldNewlineBefore(toks[k + 1].kind, "LineComment")

(* An edit leaves what it is not about.  A rename to a new name leaves the *)
(* program as it was, spelled differently, and the name still finds its    *)
(* definition.  A column list added to an INSERT makes no error, and no    *)
(* statement changes its kind.  Formatting a document keeps every token    *)
(* and has nothing to change the second time, unless a line comment        *)
(* swallows a token or the indent has no width.                            *)
EditsKeepTheRest ==
  /\ answer.about = "change" /\ documents[answer.uri] # answer.before =>
       LET c == answer.change
           after == documents[answer.uri]
       IN IF c.title = "rename" THEN RenameKept(c.edits, answer.before, after, answer.at)
          ELSE ColumnsKept(answer.before, after)
  /\ Shown /\ LineCommentsLast(Asked.source) =>
       \A f \in answer.formatted : f.width > 0 =>
         /\ Spellings(Applied(Asked.source, f.edit)) = Spellings(Asked.source)
         /\ Format(Applied(Asked.source, f.edit), f.width) = {}
=============================================================================
