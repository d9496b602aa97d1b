# TLA+ specifications of tsqlremaker

tsqlremaker reads SAP ASE (Sybase) T-SQL. It holds a lexer and a recovering
parser, converters of the syntax tree to MySQL, PostgreSQL and SQLite, a schema
comparison tool and a language server for editors. These modules specify all of
it that computes or keeps a state. They are checked with TLC on small instances,
and what matters most of the server, the symbol index, the server's copies of documents,
the lexer, the token buffer, the parser's loops, the emitters' buffers and the schema diff is proved
with TLAPS for instances of any size.

## 1. Inventory of the system

| part | state | operations | hard behaviour | what makes it correct |
|---|---|---|---|---|
| language server (`crates/ase-ls/src/server.rs`, `panic_recovery.rs`) | `DocumentStore`, `SymbolStore` and `Config`, each behind a tokio `RwLock` of its own; the locals of every handler in flight | `did_open`, `did_change`, `did_close`, `did_change_configuration`, `did_change_watched_files`, 20 read-only requests | handlers interleave at each `.await`; blocking reads on other threads; locks taken in an order; lost reads; panics caught | server's texts = editor's buffers; diagnostics of the present text and configuration; symbols of open documents from their present text, of other files from the disk; every handler returns |
| cross-file symbol index (`ase-ls-core/src/symbol_store.rs`) | `by_name`, `by_uri` | `upsert`, `close`, `lookup` | two maps updated in two loops; letter case; one name of two kinds | the maps agree; `lookup` is exact |
| edits and line index (`incremental.rs`, `line_index.rs`) | none (values) | apply the changes of a notification, offset ↔ position | ranges reversed or out of bounds, characters of several bytes, line breaks of two kinds, changes that build on each other | server and client agree on the text and on positions |
| lexer (`tsql-lexer/src/*`) | cursor, collected errors | `next_token`, comments, strings, numbers | line breaks, unterminated literals, long operators | tokens are disjoint pieces of the text and stand for it |
| token buffer (`tsql-parser/src/buffer.rs`) | ring of three slots, `cursor`, `filled`, `eof_reached` | `peek`, `consume`, refill | renumbering at the wrap, end of input | no token lost, repeated or reordered |
| parser (`tsql-parser/src/parser/*`, `expression/*`) | token buffer, `errors`, `depth` | one function per statement and expression form, `synchronize` | recovery, nesting limit, precedence, statements without separators | both entry points agree; errors stay local; statements keep their bounds; the loops end |
| document analysis (`analysis.rs`, `symbol_table/`, `span_resolve.rs`) | none (values) | lexer, parser and symbol table of a text | spans that end with the next token, unfinished statements | symbols and ranges are places of the text |
| language features (`references.rs`, `rename.rs`, `definition.rs`, `completion.rs`, `hover.rs`, `code_actions.rs`, ...) | none | one function per request | each finds names by means of its own; edits at offsets found by other means than what they are about | they agree with the text and with each other; an edit that is offered leaves the rest of the program |
| conversion to common SQL, emitters (`to_common_sql.rs`, `common-sql`, `mysql-emitter`, `postgresql-emitter`, `sqlite-emitter`) | the output buffer, kept after a failure | tree to tree, tree to text, batches | parts without a counterpart, grouping, buffers shared by a script | each text is of its statement alone; clauses and conditions are kept; what operators bind is what the tree says |
| schema diff (`schema-diff/src/*`) | none (two catalogs); outside it the database, changed statement by statement | read a catalog and a DDL file, diff, plan, emit; then somebody applies | order of statements, statements refused midway, a second run, destructive changes | losses are warned about; a second run plans what is left; at the end nothing that is compared differs |
| workspace indexing (`workspace_index.rs`) | work list of directories | `discover_sql_files` | limits on depth and number of files | not called by the server |
| WebAssembly bindings (`wasm`) | one emitter per script | `convertTo`, `tokenize`, `parse` | a script with a statement that fails | one text per statement |
| editors, web page | none | wrappers | - | - |

How they interact: the client's messages reach the server through tower-lsp,
which polls up to four handlers in one task. A handler parses through
`DocumentAnalysis::new` (lexer, token buffer, parser, symbol table), keeps the
analysis in the document store under its own lock, and files the symbols in the
symbol store; a request computes on an analysis and, for names of other files,
on the symbol store. Parser and emitters are used again by the command-line
schema diff and the WebAssembly module, without shared state.

`PROJECT.json` lists every part with its status, and under `hazards` what can go
wrong in this code and a test would hardly reach, each with the property that
covers it, or the reason why none does.

## 2. Modules

| module | what it is |
|---|---|
| `LspServer` | the server: editor and file system, the executor, every handler |
| `MCLspServer`, `LspServerProofs` | texts, edits and configurations for TLC; theorems about handlers, open documents and files that are not open |
| `SymbolIndex` | what the symbol index promises (abstract) |
| `SymbolStore` | the two maps of the index, an implementation of `SymbolIndex` |
| `MCSymbolStore`, `SymbolStoreProofs` | names in two letter cases for TLC; theorems, the refinement among them |
| `TokenStream` | what the parser's token buffer promises (abstract) |
| `TokenBuffer` | the ring of three slots, an implementation of `TokenStream` |
| `TokenBufferProofs` | theorems about `TokenBuffer`, the refinement among them |
| `Characters` | texts as `Lexer` and `DocumentCopy` see them: bytes, and the line index with its conversions |
| `Lexer` | from characters to tokens, one turn of a loop at a time |
| `DocumentCopy` | an editor that changes a text, and the server's copy of it |
| `TextProofs` | theorems about positions, the copy and the lexer |
| `Reading`, `MCReading` | a document from the editor to the parser's buffer: composes `DocumentCopy`, `Lexer` and `TokenBuffer`; texts and changes for TLC |
| `ParserState` | the state of a parser, and the helpers that look, consume and recover |
| `Grammar` | every parse function, as a grammar of combinators and what runs it |
| `Shapes` | the fields of a type of node, and what fills them |
| `SyntaxTree` | the types of the parser's tree |
| `ParserLoops`, `ParserLoopsProofs` | the loops of `parse` and `parse_with_errors`, around any `parse_statement`; theorems about both |
| `Parser`, `MCParser` | `ParserLoops` with the grammar: what the statements are; scripts for TLC |
| `SqlText` | texts that may end in a failure |
| `SqlTree` | trees the converters and emitters share |
| `ToCommonSql` | conversion of the parser's tree to common SQL, and the types of common SQL |
| `SqliteEmitter`, `MySqlEmitter`, `PostgreSqlEmitter` | from a common tree to the text of a dialect |
| `Emission`, `EmissionProofs` | scripts converted and emitted statement by statement, around any conversion and any emitter; theorems about the texts |
| `Translate`, `MCTranslate` | `Emission` with parser, conversion and three emitters; jobs for TLC |
| `SchemaDiff` | catalogs, DDL, the difference, the plan, the statements of a dialect |
| `Migration`, `MCMigration` | the command line run after run against a database; databases and DDL files for TLC |
| `PlanProofs`, `MigrationProofs` | lemmas about the difference, one plan, and what its statements do to a table; theorems about runs |
| `Document` | the analysis of a text and its symbol table, over `Grammar` |
| `Navigation`, `Suggestions`, `Markings`, `Editing` | the language features |
| `Editor`, `MCEditor` | a session: documents, the symbol store, questions and accepted edits; sessions for TLC |

### 2.1 LspServer

*Steps.* Rust's async functions give up the executor only at an `.await` that is
not ready. An action is the code between two `.await`s, and `pc[h]` names the
one at which handler `h` stands. `frame[h]` holds its locals. Two kinds of
`.await` matter:

- flushing a message to the client and joining `spawn_blocking` may always
  suspend (`Suspending`);
- acquiring a tokio `RwLock` suspends only if the lock is taken or the task has
  used up its cooperative budget. The constant `YieldAtLocks` says whether that
  may happen. With `FALSE`, `running` names the handler that keeps the executor;
  with `TRUE` every `.await` is a point of interleaving.

Properties that name `YieldAtLocks` rely on the first form; the others are
checked and proved for both.

*State.* `docs` is `DocumentStore.docs`, `syms` what each document contributes to
the symbol store (the abstraction `SymbolStore` justifies), `config` the
configuration. `docsLock` is the documents write guard, the only guard held
across an `.await` (in `with_both`); the others live inside one action. A text
is one value: the analysis, the symbols and, with a configuration, the
diagnostics are functions of it. `buffer`, `disk` and `events` are the editor,
the files and the events the client still has to send; `diag` is what the
client last received for each document.

*Actions.*

| code | actions |
|---|---|
| `did_open` | `ReceiveOpen`, `SyncLiveDocs`, `SyncLive`, `Analysis`, `PublishDiagnostics`, `Flush` |
| `did_change` | `ReceiveChange`, `Source`, then as `did_open` |
| `did_close` | `ReceiveClose`, `SyncCloseDocs`, `SyncClose`, `Flush` |
| `did_change_configuration` | `ReceiveConfig`, `SetConfig`, `OpenUris`, then for each open document `Analysis`, `PublishDiagnostics`, `Flush` |
| `did_change_watched_files` | `ReceiveWatched`, `TakeSnapshot`, `ReadFile` per event, `ApplyBatch` or `ReadTaskLost` |
| `hover`, `document_symbol`, `folding_range`, `semantic_tokens_*`, and alike `signature_help`, `code_action`, `code_lens`, `rename`, `prepare_rename`, the resolve requests | `HoverDocs` |
| `completion` | `CompletionConfig`, `HoverDocs` |
| `formatting`, `range_formatting`, and alike `document_link`, `inlay_hint` | `FormattingDocs`, `FormattingConfig` |
| `goto_definition` | `DefinitionDocs`, `DefinitionSyms` |
| `references` | `ReferencesDocs`, `ReferencesAll`, `ReferencesSyms` |
| `symbol` | `SymbolSyms` |
| a panic caught by `guarded` | the second disjunct of `Answer` and `HoverDocs`: the user is notified, then the answer is sent |

*Abstractions.* All documents are `*.sql` files, so `is_sql_uri` holds. CREATED
and CHANGED share a match arm and are one kind of event. `Open` and `Live` are
told apart by no code and are one tag. A didChange is a function on texts
(`Edits`). The editor changes its buffer when it sends, and messages start in
the order in which they are sent: the transport is a stream and tower-lsp
polls a handler as soon as its message is read.

### 2.2 SymbolIndex and SymbolStore

`SymbolIndex` is the promise: one set of entries per document, replaced or
dropped as a whole, and `Lookup` over their union. `SymbolStore` has the code's
two maps, `close` that finds a document's entries through `by_uri`, and `upsert`
that closes and then inserts. Vectors are sets: an entry occurs once, and a key
that `by_uri` lists twice is met again by `close` after it is gone, which the
code tolerates. `Index == INSTANCE SymbolIndex WITH contrib <- Contribution` is
the refinement.

### 2.3 TokenStream and TokenBuffer

`TokenStream` is the promise of `buffer.rs`: `Consume` takes the first of the
tokens left and then end-of-file for ever, `Peek` sees three of them.
`TokenBuffer` is the ring. `Init` is `TokenBuffer::new`, `consume` the method
with the whole of `refill_buffer` (`Refill`: what the loop loads, `Loaded`, and
the renumbering, `Shifted`), `consume_if` the method. The loop over the lexer is
one step that takes as many tokens as there is room for. The lexer gives its
tokens and then end-of-file; it never returns `Err` (`Lexer::next_token` turns
bad input into `Unknown` tokens), so that arm is left out. `Rest`, the window
followed by what the lexer still has, is the refinement mapping.

### 2.4 Characters, Lexer, DocumentCopy and Reading

A text is a sequence of `Characters`, one for each thing the code tells apart: `S`
spells `SELECT`, `a` is any other letter, `W` a letter of several bytes, and so on.
`Size` and `BytesBefore` count bytes where the code counts bytes. The same module has
`LineIndex::new` and the conversions in both directions (`LineOffsets`,
`OffsetToPosition`, `PositionToOffset`), which lexer and copy are compared by.

`Lexer` is a machine without recursion. `text` is the source; `lexer` holds the cursor
`c`, the cursor at which the token in hand starts (`start`), the loop it stands in with
that loop's locals (`loop`), the tokens given, and whether comments are preserved. A step
(`LexTurn`) is one turn of a loop of the code, or the code between two loops: skipping
blanks (`SkipBlank`), the dispatch of `next_token_impl` (`Begin`), a turn of a reader
(`ReaderTurn`: characters of a set, up to a closing quote, escapes, digits, nested
comments), giving the token (`Give`), recovery (`Synchronize`). Every text and both
settings of comments are initial states.

`DocumentCopy` has `apply_content_change` (`ApplyContentChange`). Its specification is a
document after `did_open`. A step, `ChangeText`, is one turn of `did_change`'s fold over
the changes of a notification; where one notification ends and the next begins makes no
difference to the texts. The editor's side is external: `EditorLineStarts` and
`EditorChange` say what the client means by a position (lines end at LF, CR LF or CR;
characters of a line are counted, not bytes), `EditorChanges` which changes it may send,
and `SameChange` where both sides mean the same.

`Reading` composes the three: the lexer runs to the end of the document as it was
opened; then the parser takes its tokens through the ring while the editor goes on. `Lex`
is the lexer run to its end as an operator, for the tokens the ring is given and for
reading a token's text again on its own. Left out: the lexer's list of errors (one for
each `Unknown` token) and `Lexer::peek`.

### 2.5 ParserState, Grammar, ParserLoops and Parser

`Grammar` writes each `parse_*` function as it reads its tokens: combinators for a
token, a sequence, an alternative chosen by the next token, an optional part, a
list, a nested statement, an expression of a binding power. `Run` interprets them
on the state of a parser: position, errors, depth, the tree so far, and whether a
loop would hang. Loops and recovery (`synchronize`, the loop over the statements
of a block) are cases of `Run`. A token is its kind, a tree node is the operator or
statement with the tokens it spans. `SyntaxTree` has the types of the code's tree
(`ast/*.rs`) as sequences of fields, and `TypeOK` says that every node is a value of
one of them: the grammar of combinators builds no node that the code could not hold.

`ParserLoops` runs `parse` and `parse_with_errors` side by side on the same input; a
step is a turn of the loop of one of them. What `parse_statement` does is a constant
operator, `RunStatement`, which `Parser` fills in with `Grammar` (`AfterStatement`).
`Document` repeats the turn of `parse_with_errors` (`Recovered`) for a whole text.
`StatementsDependable` says what the loops rely on: a statement moves forward, takes no
error away, spans what it consumed if it is built, and fails without consuming anything
only where no statement starts, or at END, or at GO in SingleStatement mode. It is part
of `Parser!TypeOK`, so TLC checks of the grammar what the theorems ask of a
`parse_statement`. `MaxDepth`, `MaxExprDepth` and `MaxErrors`
are the code's limits (1000 and 100 for depth and errors), small enough here to be
met.

### 2.6 Translation

`ToCommonSql!Convert` is the conversion: a statement or nothing, with what is
renamed, dropped or refused on the way. The types of what it returns are in the same
module, up to `IsCommonSql`. An emitter's text is a sequence of tokens,
of which an `Error` token marks a failure; it depends on the tree alone, and the
buffer that the SQLite and PostgreSQL emitters keep between calls is a variable of
`Emission`. There, conversion (`Converted`) and emitters (`TextOf`) are constant
operators, of which nothing is assumed but that a text is a sequence of tokens and a
conversion gives one statement or none (`JobsAssumption`); `Translate` fills them in. A job is a script, a dialect and a list of calls: `each` and `batch` on
an emitter's interface, or `convertTo` of the WebAssembly module, which stops at
the first failure. Expressions of the grouping jobs are written as tokens, read by
the parser of `Grammar`, converted, emitted, and read again.

Left out: layout, quoting of names, the buffer of the MySQL emitter (made anew in
every call), and fields of the common tree that neither `to_common_sql` nor the
schema diff ever sets (CAST, CTE, joins, OFFSET, ON CONFLICT, IF EXISTS, table
options).

### 2.7 Migration

`SchemaDiff` has `diff_schema` with its parts, `plan_operations`, the statements for a
dialect with their warnings, and the two catalog adapters: the JSON file, which
carries the identity of a column but no defaults and no constraints, and the DDL. `Migration` runs the
program as `bin/schema-diff.rs` does: warnings, then all statements or none. Somebody
applies the statements in order; `Reject` is the database refusing one, `Interrupt`
is everything else that stops it (rows that break a constraint, a lost connection),
and then the program may be run again on the catalog as it has become.

Names are numbers in the order of the strings. A list of the code is a function on
some of its positions (`IsList`): what is left of a table's constraints when some
are dropped keeps its order, which decides which of two constraints of one name the
code's map keeps (`LastByKey`).

The database is not part of the repository. `CannotApply` and `Applied` say what
MySQL, PostgreSQL and SQLite do with the statements the emitters write; they are
listed as external. Nobody else changes the database meanwhile. A database holds no
`Malformed` table: one with two primary keys, two constraints of one name, or a
constraint on a column it does not have. (SQLite itself would take two constraints of
one name; here no database does.) A DDL file may define such a table, which the
program does not notice; `Misdeclared` names them where a property excepts them.

### 2.8 Document, the features and Editor

`Document!Analyse` is `DocumentAnalysis::new`: tokens without comments, statements
and errors from the grammar, the symbol table, and the fallbacks for an unfinished
`CREATE TABLE` and for constructs whose spans are not exact (`span_resolve.rs`). The
features are functions of it: `Navigation` (references, definition, rename, code
lenses, workspace symbols, outline, hover), `Suggestions` (completion, signature
help, inlay hints), `Markings` (semantic tokens, folding, diagnostics, links),
`Editing` (formatting, code actions).

`Editor` is a session. Files are indexed, opened, changed and closed; the symbol
store is the one of `SymbolStore`, by `INSTANCE`; `Ask` is what the editor may ask at
an offset, `Show` what it asks of a document; `Accept` applies a rename or a column
list that was offered, the server reads the new text, and the edit is taken back. The
other code actions and the formatting of a range are computed as the code computes
them, and not applied: they are known to take or repeat text (section 5), and no
property speaks of them. Notifications and requests are atomic here: how they
interleave is `LspServer`'s matter.

A document is a sequence of words and signs, each one character wide and without
blanks between them; so an offset is a unit, and a range covers whole words.
Indentation (beyond `formatting.indentWidth` being 0 or not), letter case of
keywords, snippets and the wording of answers are left out, and so are the settings
that switch a feature off.

## 3. What TLC checks

| run | instance | what it shows |
|---|---|---|
| `lsp_editing` | 2 documents, 2 texts, 2 configurations, 2 handlers in flight, all requests, no file events; locks do not suspend | `TypeOK`; `DocumentsMatchEditor` (no edit is lost or applied to another base); `DiagnosticsCurrent` and, with fairness, `DiagnosticsConverge`; `RequestsSeeOneState` |
| `lsp_workspace` | 1 document, 2 texts, at most 2 undelivered events, 2 handlers, locks may suspend, batches one at a time | `LiveEntriesMirrorDocuments`, `LiveEntryLostOnlyToBatch`, `BackgroundMatchesDisk` |
| `lsp_progress` | 1 document, 1 text, read errors, overlapping batches, locks may suspend | `EveryHandlerReturns` |
| `lsp_open_wins` | as `lsp_workspace`, 1 event | violation of `OpenDocumentWins`, see 5 |
| `lsp_background` | batches may overlap | violation of `BackgroundMatchesDisk`, see 5 |
| `symbol_store` | 2 documents, 3 names of which two differ in letter case, 2 kinds | the maps agree, `lookup` is exact, and the store implements `SymbolIndex` |
| `reading` | 13,534 starts: texts of up to 3 fragments of every lexical kind and a long one, comments skipped or preserved, and two changes, one after the other and at every position, of short texts | `CopyFollowsEditor`, `TokensStandAlone`, `PositionsComeBack`; the ring on these tokens: `TypeOK`, `PeekExact`, and it implements `TokenStream` |
| `parser` | scripts of 1 to 5 statements of every kind, complete or broken, separated or not; chains of operators | `TypeOK` (the tree is well-formed, and the grammar is what the loops depend on), `Agreement` of the two entry points, `BoundariesKept`, `RecoveryIsLocal`, `StatementsStandAlone`, `NothingDroppedSilently`, `PrecedenceKept` (levels of operators; grouping within a level is left open), `StallsOnlyAtFalseStarts`, and with fairness `LenientReturns` |
| `translate` | statements of every kind with each kind of expression in each place, chains of two operators, scripts in which statements fail, three dialects | `TypeOK` (what is converted is common SQL), `EachTextIsItsOwn`, `ConditionsKept`, `ClausesWritten`, `PostgreSqlReadsBack` |
| `translate_where` | UPDATE and DELETE with each kind of condition | violation of `WhereKept`, see 5 |
| `migration` | a database and a DDL file that differ in columns, constraints, indexes or tables; 3 dialects, 2 kinds of catalog, 2 runs | `LossesWarned`, `RerunPlansTheRest`, `NothingComparedDiffers`, `RejectionsAreForeseen` |
| `features` | documents of two statements, alone or next to a file that defines what they name, asked about at every offset | `AnswersPointAtTokens`, `NamesResolveAlike`, `EditsKeepTheRest` |

What the properties say is written above each of them. Where one names exceptions or
says what is outside it, that is what the code does, and section 5 has it. An
exception is no claim that the code is right there; behaviour that a document or
comment of the repository contradicts is kept out of the properties and told in
section 5 with the words that contradict it.

*Bounds, server.* Two handlers in flight are enough for every race between a pair of
handlers, and the races listed are between pairs; the safety properties of
`lsp_editing` and most of `lsp_workspace` are proved for any number. Two texts,
one of them empty, with an edit that swaps them and one that leaves the text as
it is, tell a lost edit from a repeated one and reach the short-circuit of
`DocumentStore::upsert`. Two documents are needed where a handler walks a list
(`refresh_all_diagnostics`, `references`); a file event concerns one document,
so the workspace runs have one. `MaxEvents` bounds events not yet delivered,
not those of a behaviour; two of them give a batch with a write and a deletion
of the same file.

*Bounds, text.* A reader of the lexer looks at most two characters ahead, so three
fragments hold every pair of neighbours with something between them; the long text
takes the ring past its end several times. Two changes in a
row of texts with a wide character and with line breaks of each kind are enough to see
them refer to different texts; any number is proved. The
parser's limits are met with depth 3, expression depth 8 and 4 errors: a script of
five pieces can leave the depth counter up, meet the limit and then need it. Chains
of two operators decide the precedence of every pair.

*Bounds, translation and migration.* Each place of an expression is filled with each
kind of expression, so a clause that drops or refuses one is met. Databases and DDL
files differ in one or two respects, chosen so that one statement depends on
another (an index on a dropped column, a foreign key to a table created later,
a constraint on a changed column); with `MaxRuns = 2` a run follows one that stopped
at any statement.

*Bounds, features.* Two statements are what a feature can confuse: a definition and
a use, a statement and the one after it, whose token ends the span of the first.
Every offset is asked about. Two files are what navigation over the symbol store
needs.

*Fairness.* In `LspServer`, `SF` of each handler's steps. The ready queue of the
executor and the lock queues are first in, first out, the blocking pool runs what it
is given, and the client reads its socket; so a handler that can go on again and
again does. Nothing is assumed of the editor or of the file system, and no
message need ever arrive. Strong fairness is needed because `docsLock` is taken
and released by others while a handler waits; a fair queue gives it. In `ParserLoops`,
weak fairness of the loop of `parse_with_errors`: a running function goes on. It is
written out, with the action's enabling condition as a state predicate, which is
much faster for TLC than `WF_vars(ParseWithErrors)` and means the same.

*Deadlock* is checked where the system must go on: in the server's, the symbol
store's, the reading and the features runs. Parser, translation and migration
are programs that end.

*Mutants.* Next to a definition stands, marked `Mutant`, what a plausible slip
would make of it; each property is violated when its mutant is put in place.

## 4. What is proved

`LspServerProofs`, for any sets of documents, texts, edits, configurations and
handlers, under the named assumptions of `LspServer` (the empty text is a text,
edits map texts to texts, the default configuration is one, the null values are
none of the others):

- `TypeCorrect`: `TypeOK` is inductive. What a handler carries fits the `.await`
  it stands at (`FrameFits`); that is what lets a step use it.
- `LiveEntriesCorrect`: `LiveEntriesMirrorDocuments` is inductive given `TypeOK`.
  Only `SyncLive`, `SyncClose` and `ApplyBatch` write either store; the first
  two write both under the documents guard, the third writes background
  entries or none. The short-circuit on unchanged text keeps the entry, which by
  the invariant stems from that same text.
- `LiveEntryLoss`: the action property follows from a case split over the same
  three writers.
- `CoopCorrect`: while locks do not suspend, `CoopInv` is inductive. For each
  handler, it is running exactly if it stands at no suspending `.await`, and
  then what it read still holds; for each document, whoever is writing it
  accounts for the difference between server and editor, and whoever is
  publishing accounts for out-of-date diagnostics. `OthersSuspended` carries
  it over a step for the handlers that do not move.
- `DocumentsCorrect`, `DiagnosticsCorrect`, `RequestsCorrect` read their
  properties off `CoopInv`.
- `BackgroundCorrect`, for any number of undelivered events, says that
  `BackgroundMatchesDisk` holds wherever batches do not overlap and reads succeed,
  which the run `lsp_background` shows to be needed.
  `BatchInvariant` is inductive: the last event that the client still has to send for a
  file tells whether the file is there; so does the last one in the batch being
  handled, once no later event is on its way, and what was read for it is what the disk
  holds; and while nothing is on its way for a file, the store has no entry or the
  disk's. The two first parts are what makes the third survive `ApplyBatch`. A document
  that is closed while the batch has it down as open is the delicate case: closing
  removed its entry, and the batch does not put it back.
- `NoDeadlock`, in both forms of scheduling: `NoCircularWait` says that of a handler in
  flight that cannot go on, the one it waits for can: the holder of the documents guard or
  of the executor. `CanGoOn` writes the guard of a handler's next step out, as ENABLED is
  out of the prover's reach. The inductive invariant `HoldingInv` says who may hold what:
  the guard is held only in `with_both`, at the `.await` for the symbol store's lock,
  whose holders never wait for anything; and without `YieldAtLocks` the holder of the guard
  is the handler that is running. So the chain of waiting has length one.
- `HandlersAreBounded`, for finitely many documents: `StepsLeft` of a handler, the
  `.await`s before its return, three for each document it has still to publish and one for
  each file it has still to read, goes down with each step of its own and never up with a
  step of another (`HandlersGetOn`). A retry that starts over, or a list that another
  handler makes longer, would break it.

  The two together are the part of `EveryHandlerReturns` that needs no fairness: somebody
  can go on, and nobody goes on for ever. That each is scheduled is the fairness, which
  stays with TLC.

`SymbolStoreProofs`, for any documents, names, kinds and sources: both maps are
functions of the set of entries in the store (`Grouped`); `close` and the
insertion loop act on that set. `TypeCorrect`, `AgreeCorrect`, `LookupCorrect` and
`Refinement` (`Spec => IndexSpec`) follow.

`TextProofs`, for texts of any length.

The copy, for any replacements and any number of changes: `CopyIsExact` says that the
server's copy is the editor's text while positions meant the same to both. `CopyInv` is
that and the type of the texts. A step keeps it because of two facts about one text:
`LinesAgree`, the server's line offsets are the bytes before the editor's line starts, of
which there are as many, so that the k-th is the k-th; and `PlacesAgree`, a position both
understand is converted to the bytes before the character the editor means. Then
`ChangesAgree` cuts both texts at the same characters. `PositionsRoundTrip` is about every
text, carriage returns and wide characters included: `position_to_offset` undoes
`offset_to_position` at each character.

The lexer, for either setting of comments. The inductive invariant `LexInv` says where it
may stand (`Standing`: cursor and start are cursors of this text, so that their lines and
offsets are functions of the index, `Placed`, and the loop's locals fit the loop), and of
a text in which no line feed follows a carriage return, that the tokens given are pieces
of it in order which end before the token in hand (`Spans`), and that the characters
before that are blank or in a token (`Covered`). The hypothesis is needed: after CR LF the
cursor's offset is one byte short (section 5).

- `PositionsOfTokens`: `PositionsComeBack`. On a text without carriage returns the line
  the cursor has counted is one more than the line feeds before it (`LinesBefore`,
  `OneFurther`), which is how many line offsets are not past its offset; the way back is
  `PositionsRoundTrip`.
- `TokensArePieces`: `SpansInOrder`. A token's span cuts its text out of the source, and
  the next one starts no earlier than it ends.
- `TokensKeepTheText`: `NothingIsLost`. If comments are preserved and no token is
  `Unknown`, each character that is not blank is in a token at the end. What the formatter
  prints from the tokens is therefore all there was. Recovery is the exception: what
  `synchronize` skips is in no token.
- `LexerEnds`: each turn lowers `TurnsLeft`, eight for each character left and a rank of
  the loop it stands in, and it is never more than `8 * Len(text) + 3`. The rank is least
  where the next turn must take a character: a reader that has just begun, and one that has
  met a character no token starts with, take at least that one before the next token begins.

`TokenBufferProofs`, for inputs of any length over any tokens: the inductive
invariant `IInv` says that the window is full as long as the lexer has not given
end-of-file, and that afterwards it has nothing left. It is why a step of
`consume` loads at most one token, into the slot just emptied (`TakeOne`).
`UnreadTail` turns that into a statement about sequences: what is unread
afterwards is the tail of what was. `Refinement` (`Spec => StreamSpec`),
`PeekExactCorrect`, `SlotsFilledCorrect` and `TypeCorrect` follow.

`MigrationProofs`, for any databases and DDL files of the right types whose databases
hold no `Malformed` table (`InputsAssumption`), any number of runs, and statements that
stop anywhere: the four properties of the `migration` run, `LossesWarned`,
`RerunPlansTheRest`, `NothingComparedDiffers` (theorem `NothingComparedIsLeft`) and
`RejectionsAreForeseen`. What they leave out they name: identity and column constraints of
existing columns and tables with a type that does not convert (`NothingComparedDiffers`),
a changed index (`RejectionsAreForeseen`), what goes without a warning (`Unannounced`). None of them is
inductive: what a statement may do depends on what the rest of the plan is for. The
inductive invariant `IInv` says how database, pending statements and warnings fit
together while a plan is applied (`Consistent`):

- whatever the desired schema lacks in the database as it is now was announced
  (`LossesAnnounced`), and so was every action that SQLite's statements leave out
  (`AlterationsAnnounced`);
- a pending statement is the one that would be planned now for its table or index,
  or the DROP INDEX of an index that went with a table or a column (`StillPlanned`), and
  each table and index has at most one (`OneEach`);
- a table without a pending statement is settled: columns and constraints are the
  desired ones as far as catalog and dialect can tell (`TablesSettled`); an index
  without one is as desired, or dangling (`IndexesPending`).

That a run establishes it is the part about the program (`RunConsistent`): the plan has
a statement for everything that differs, and the warnings cover it. That a statement
keeps it is the part about both (`Effect`, one lemma for each kind of statement): it
settles its own table or index, touches no other table, and the indexes it takes along
are announced. For ALTER TABLE that is `TableAfterSettled`, which rests on the lists of
constraints: the ones added come after the ones kept and hide those of the same name
(`ConstraintsBecomeDesired`). For `LossesWarned`, `ColumnUnannounced` adds that a column
loses its default, its kind or its identity only to a statement that modifies it, by
`ModificationTakes` to what that statement asks for, or in MySQL. For
`RejectionsAreForeseen`, the order of the plan tells what the earlier statements have done
to the other tables (`EarlierSettled`), so a foreign key that still refers to the table
dropped is one that no statement before drops (`EarlierRefers`). TLC checked `IInv` on the instance of the run before it was
proved. `PlanStaysConsistent` is `Spec => []IInv`; the four theorems follow from it.
`PlanProofs` holds the lemmas: what `DiffSchema` contains, that a table
created from a definition reads back as that definition (`TableRoundTrip`), which
statements a plan has (`PlanIs`), what an ALTER TABLE leaves of a table.

`ParserLoopsProofs`, for inputs of any length, any `MaxErrors` and any `RunStatement` under
which `StatementsDependable` holds throughout. That hypothesis is about the grammar, whose
recursion is out of the prover's reach; TLC checks it in the run `parser`.

- `EntryPointsAgree`: the inductive invariant is that both parsers walk one path
  (`OnePath`): a sequence of states without errors, in which each follows from the one
  before by a turn of `parse_with_errors`. A turn without an error is the same in both
  loops, and a turn keeps the first error (`TurnKeeps`); so each parser stands somewhere on
  the path, or it has left it at its end, where the next statement has an error, with that
  error first (`Follows`). Both have returned only if both stand at the end or both left.
- `NothingIsDropped`: `Covered` is inductive. The statements that `parse_with_errors` holds
  stand in order (`InOrder`), and every gap between them and the last one before its
  position is one semicolon at most or holds an error (`GapsAccounted`). A statement that is
  built starts where the loop stood, so the last gap becomes the gap before it
  (`CoveredAfterStatement`); one that fails leaves its error in the last gap, wherever
  recovery ends (`CoveredAfterError`).
- `ParseMovesOn`: recovery that starts at no statement moves on, by the semicolon at least
  (`RecoveryMovesOn`). What is left are END, GO and a statement that does not return.
- `RecoveryGetsOn`: each turn of `parse_with_errors` makes position plus number of errors
  grow, and the loop stops at the end of the input and at `MaxErrors`; so it takes at most
  `Len(input) + MaxErrors` turns, unless a statement does not return, which in batch mode
  each does. It is the part of `LenientReturns` that needs no fairness.

`EmissionProofs`, for any jobs, any conversion and any emitter: `TextsAreTheirOwn`. The
inductive invariant `IInv` says that every result is what `emit` gives for its statement,
or for the whole batch, from an empty buffer, that the buffer is empty unless the last
result is a failure, and that `convertTo` has one result for each statement it has
emitted, in order, of which only the last may be a failure, and then it has ended. It
holds because `emit` empties the buffer before it writes, after a failure too. `EmissionTypes` is the part of `Translate!TypeOK` that is
about the counters and the buffer.

Only model-checked: the liveness properties `EveryHandlerReturns`,
`DiagnosticsConverge` and `LenientReturns` (fairness and ENABLED are out of the
prover's reach; what `EveryHandlerReturns` and `LenientReturns` need besides fairness is
proved); `TokensStandAlone`, of which `TokensArePieces` is the part that needs no second
reading of a token's text; what the grammar makes of a script (`Parser!TypeOK` with `StatementsDependable`,
`BoundariesKept`, `RecoveryIsLocal`, `StatementsStandAlone`, `PrecedenceKept`); what the
conversion keeps and the emitters write (`Translate!TypeOK`, `ConditionsKept`,
`ClausesWritten`, `PostgreSqlReadsBack`); and the properties of `Editor`. Grammar,
converters, emitters and features are written with recursive operators over text and
trees, and the prover has no arithmetic left in a module that declares one; where such an
operator is only used, as the loops use a statement, it is a constant of the module that
is proved about. Where a proof needs an induction
over numbers, it argues from a least counterexample (`LeastElement`).

## 5. Where code and comments differ

- `lsp_open_wins`: the comments of `did_change_watched_files` and of
  `symbol_store.rs` promise that an open document's entry is never overwritten
  by the disk copy. The set of open documents is taken before the blocking
  reads and consulted after them. A document opened in between is overwritten,
  and stays so until its text changes (`did_change` with the same text does not
  touch the symbol store).
- `lsp_background`: two batches of file events read on threads of their own and
  apply when they resume, in either order. The store may keep the older text of
  a file although no event is outstanding.
- `translate_where`: `to_common_sql.rs` says that an expression without a counterpart
  makes the whole conversion fail. `UPDATE` and `DELETE` convert their condition with
  `and_then`: `DELETE FROM t WHERE a !> b` becomes `DELETE FROM t`.

Seen on the way. The models do as the code does. No property says that any of this is
right: a property that comes near names it as an exception or leaves it outside.

Server: a DELETED event evicts the live entry of a document that is open in the
editor (`LiveEntryLostOnlyToBatch`).

Text: after CR LF the lexer starts the next token one byte early, so its text begins
with the line feed and no keyword is recognised there; a line comment ends only at
LF, although the design document (`.kiro/specs/sap-ase-lexer/design.md:317`) lists
both forms of line break; a lone CR ends a line for the client and
the cursor but not for `LineIndex`; `N'abc'` is read as an `NString` `N'`, a name and the
start of another string; `LineIndex` counts bytes where the client counts UTF-16
units, and a position past the end of its line runs into the following ones.

Parser: operators of one power group to the right, where the design document
(`.kiro/specs/tsql-parser/design.md:1293-1298`, column 結合性) says left and
`test_associativity_left` is named for it (it looks at the top operator only), so
`PrecedenceKept` leaves the grouping of one level open; IN and BETWEEN bind tighter than a
comparison, where the comment on their line (`expression/binary.rs:39`, "IN, BETWEEN は比較演算子より低い優先順位")
and level 5 of the same table say that they bind less; IS, LIKE and the forms with NOT take what
stands before them whatever it is, and LIKE takes everything after it as its pattern;
`RETURN` and `THROW` without operands take the first word of the next statement for one,
`EXEC` without arguments takes BEGIN, END or GO for one; `;;` is an error; `parse`
does not return on a stray END, and neither entry point returns in SingleStatement
mode when GO stands in a block; the depth counter stays up when a nested statement
fails; when errors inside a block that is built reach MAX_ERRORS, `parse_with_errors`
drops what follows the block and no error stands there (`NothingDroppedSilently` speaks
of inputs read to the end); a comma after a JOIN and `EXEC ... OUTPUT` are errors.

Translation: PostgreSQL's parentheses fix the grouping of the parser, so `a - b - c`
becomes `(a - (b - c))`, and a prefix operator, IN, BETWEEN and IS NULL are written bare as
operands of one another; SQLite and MySQL write no parentheses at all, so `(a OR b) AND c` becomes
`a OR b AND c` and means something else; `<>` becomes `=`
(`convert_binary_op`, whose comment says that `Eq` folds both); joins and all tables but the first leave
the FROM clause in silence; MySQL queries inside expressions lose FROM and
WHERE, and values it cannot write are written as nothing; SQLite writes `GETDATE()` with
a second pair of parentheses and refuses `DATEADD` of a negative literal.

Schema diff: `IndexDiff::Modified` is documented as DROP and CREATE (`diff.rs:142` and
`.kiro/specs/schema-diff/design.md:345`, "DROP + CREATE のペアで表現") and is planned as CREATE alone
(`emit.rs:131`), which a database refuses while the old index is there; tables are created and dropped in the order of their names whatever
their foreign keys; a column is dropped before the constraint on it in one ALTER;
constraints are dropped by a made-up name `<kind>_<columns>` if they had none, and
unnamed CHECKs of a table share one key; a JSON catalog has no constraints and
defaults, so they are planned on every run; MySQL's MODIFY COLUMN is written without a
type when only nullability or default changed, and forgets default and identity
otherwise, without a warning; a change of a column's kind, which may narrow it, is not warned of either; SQLite refuses the whole migration when an ALTER has more than one action,
after the warnings were printed; a table with a Money, Bit or SmallDateTime
column is left out of the desired schema, so the plan drops it (with a
warning), where `.kiro/specs/schema-diff/design.md:142` calls for an explicit failure; differences in identity and in column
constraints of a column that is there already are not seen (`diff.rs:395`), though line 57 and
line 66 tell tables apart by their content ("内容が異なる", "内容が同一") and line 87 columns by type or
constraints ("型/制約が異なる").

Features: the name in CREATE PROC p is not recognised as a definition, so it counts as a use
of p in references without declarations and in code lenses, where `code_lens.rs:107` says
"count usages only (exclude the CREATE line)" and `references.rs:1-8,67` tells definition from use;
so does the first parameter of a procedure; the fold of IF, WHILE and CREATE ends before the END when the last
statement of the block has an exact span; wrapping in TRY ... CATCH ends at the END of
a CASE and loses what follows END on its line, and where the parser has no block it loses the
body, though `code_actions.rs:541` says that the whole is wrapped ("全体をTRY...CATCHでラップする");
expanding `SELECT *` writes SELECT twice (`code_actions.rs:207` replaces the star alone, line 4
promises the columns); the INSERT skeleton for DEFAULT VALUES eats the token after it; `prepareRename` refuses
keywords and temporary tables, `rename` handles both; variables are renamed across
procedures; a rename changes the open document only; range formatting takes the lines
of the formatted text by their numbers, so where formatting adds lines it repeats text from before the range
and loses text of it, though `formatting.rs:41` says that nothing outside the range changes
("範囲外は変更されない"); formatting a line comment followed by a word on the next
line may swallow the word; an `indentWidth` of 0 glues words together; comments never get
semantic tokens, because the analysis drops them; with several procedures in a document,
hover and definition depend on the order of a HashMap; the settings
`enable_column_completion` and `enable_variable_completion` are read by nobody.

## 6. Not modelled, and the plan

Not modelled:

- `initialize`, `initialized` and `shutdown` (capabilities and the registration of the
  watcher; `workspace_folders` is stored and never read); document versions, which are
  stored and never compared;
- `workspace_index.rs`, the discovery of files: nothing in the server calls it. Read,
  not checked: its limits exclude the level at `max_depth`, and with `max_files` it
  keeps the last names of a directory;
- `AseCatalogProvider` of the schema diff, which answers `NotImplemented`; the layout of
  its JSON report;
- `tokenize` and `parse` of the WebAssembly module, which hand results to
  JavaScript; editor extensions and the web page;
- layout, quoting, wording, letter case of keywords, and fields of the common tree that
  nothing sets.

In this order:

1. `CoopInv` of `LspServerProofs` extended to a handler's snapshot of all documents.
2. `SymbolIndex` in the place of `syms`: the server's steps on the symbol store refine to
   the index, so that the theorems of both meet.
3. `StatementsDependable` from the grammar: of the loops of a block and of a list, what
   can be said without an induction over the grammar.
4. Features over two open documents changed in turn, once a session can be bounded
   well enough for that.
