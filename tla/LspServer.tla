----------------------------- MODULE LspServer -----------------------------
(***************************************************************************)
(* The concurrent core of the language server (crates/ase-ls/src/server.rs) *)
(*                                                                         *)
(* Every LSP message is handled by an async function; tower-lsp keeps up   *)
(* to Cardinality(Slots) of them in flight and polls them in one task, in  *)
(* the order in which they arrived.  A handler gives up the executor only  *)
(* where an .await does not complete at once, so an action below is the    *)
(* code between two .awaits, and pc names the .await a handler stands at.  *)
(*                                                                         *)
(* Two kinds of .await are told apart.  Flushing a message to the client   *)
(* and joining a spawn_blocking thread always may suspend.  Acquiring a    *)
(* tokio RwLock suspends only when the lock is taken or the task has used  *)
(* up its cooperative budget: YieldAtLocks says whether that can happen,   *)
(* and running names the handler that keeps the executor when it cannot.   *)
(*                                                                         *)
(* A text is one abstract value, and the analysis built from it is a       *)
(* function of it, so the text stands for its analysis, its symbols and    *)
(* (with a configuration) its diagnostics.                                 *)
(***************************************************************************)
EXTENDS Naturals, Sequences

CONSTANTS
  Uris,          \* documents (all of them *.sql, so is_sql_uri holds)
  Texts,         \* document contents
  EmptyText,     \* the empty document
  Edits,         \* didChange payloads: what they do to a text
  Configs,       \* values of workspace/didChangeConfiguration
  DefaultConfig, \* Config::default()
  Slots,         \* places for handlers in flight
  Requests,      \* read-only requests the client sends
  MaxEvents,     \* bound on undelivered file events
  BatchesOverlap,\* may a batch of file events come before the last is done?
  YieldAtLocks,  \* may an uncontended lock .await suspend?
  ReadErrors,    \* may reading a file, or the task that reads, fail?
  NoDoc,         \* no document, no file, no contents
  NoEntry,       \* no entry in the symbol store
  Nobody         \* no handler

ASSUME TextsAssumption ==
  /\ NoDoc \notin Texts
  /\ EmptyText \in Texts
  /\ Edits \subseteq [Texts -> Texts]

ASSUME ConfigAssumption == DefaultConfig \in Configs

ASSUME SlotsAssumption == Nobody \notin Slots

ASSUME BoundsAssumption ==
  /\ MaxEvents \in Nat
  /\ BatchesOverlap \in BOOLEAN
  /\ YieldAtLocks \in BOOLEAN
  /\ ReadErrors \in BOOLEAN
  /\ Requests \subseteq {"hover", "completion", "formatting", "definition",
                          "references", "symbol"}

VARIABLES
  buffer,   \* the editor: text of every open document, NoDoc when closed
  disk,     \* the file system: text of every file, NoDoc when absent
  events,   \* file events the client has not sent yet
  docs,     \* DocumentStore.docs
  syms,     \* SymbolStore, as what each document contributes to it
  config,   \* AseLanguageServer.config
  diag,     \* diagnostics the client last received for each document
  docsLock, \* who holds the documents write guard across an .await
  pc,       \* the .await each handler stands at, "idle" for a free slot
  frame,    \* the local variables of each handler
  running   \* the handler that keeps the executor, or Nobody

client == <<buffer, disk, events>>
server == <<docs, syms, config, docsLock>>
vars == <<buffer, disk, events, docs, syms, config, diag, docsLock, pc, frame, running>>

Contents == Texts \cup {NoDoc}

(* SymbolEntry.source.  Open and Live are one tag here: is_live() holds of *)
(* both and no code tells them apart.                                      *)
Entry == [source : {"Live", "Background"}, text : Texts]

ASSUME EntryAssumption == NoEntry \notin Entry

Live(t) == [source |-> "Live", text |-> t]
Background(t) == [source |-> "Background", text |-> t]
IsLive(e) == e # NoEntry /\ e.source = "Live"

(* CREATED and CHANGED share one match arm and are one kind of event.      *)
Event == [uri : Uris, typ : {"CHANGED", "DELETED"}]

Cleared == <<>>
Diagnose(t, c) == <<t, c>>

(* Where a handler may stand.                                              *)
PCs == {"idle", "liveDocs", "liveSyms", "source", "closeDocs", "closeSyms",
        "analysis", "diagnose", "flush", "config", "openUris", "snapshot",
        "reading", "hoverDocs", "completionConfig", "formattingDocs",
        "formattingConfig", "definitionDocs", "definitionSyms",
        "referencesDocs", "referencesAll", "referencesSyms", "symbolSyms"}

(* .awaits that give up the executor whatever the state of the locks.      *)
Suspending == {"idle", "flush", "reading"}

Frame ==
  [uri   : Uris \cup {NoDoc},   \* document the handler works on
   text  : Contents,            \* text or analysis it carries
   edit  : Edits \cup {NoDoc},  \* content_changes of a didChange
   conf  : Configs,             \* settings of a didChangeConfiguration
   todo  : SUBSET Uris,         \* documents left to publish
   snap  : [Uris -> Contents],  \* snapshot of the documents
   batch : Seq(Event),          \* events of a watched-files batch
   reads : Seq(Contents)]       \* file contents read for them so far

NoSnapshot == [u \in Uris |-> NoDoc]

EmptyFrame ==
  [uri |-> NoDoc, text |-> NoDoc, edit |-> NoDoc,
   conf |-> DefaultConfig, todo |-> {},
   snap |-> NoSnapshot, batch |-> <<>>, reads |-> <<>>]

Init ==
  /\ buffer = [u \in Uris |-> NoDoc]
  /\ disk \in [Uris -> Contents]
  /\ events = <<>>
  /\ docs = [u \in Uris |-> NoDoc]
  /\ syms = [u \in Uris |-> NoEntry]
  /\ config = DefaultConfig
  /\ diag = [u \in Uris |-> Cleared]
  /\ docsLock = Nobody
  /\ pc = [h \in Slots |-> "idle"]
  /\ frame = [h \in Slots |-> EmptyFrame]
  /\ running = Nobody

-----------------------------------------------------------------------------
(* The executor.                                                           *)

(* h resumes at the .await `from` and runs until the .await `to`.          *)
Run(h, from, to) ==
  /\ pc[h] = from
  /\ running \in {Nobody, h}
  /\ pc' = [pc EXCEPT ![h] = to]
  /\ running' = IF YieldAtLocks \/ to \in Suspending THEN Nobody ELSE h

(* A new message is given to a free slot and polled: at its first .await.  *)
Start(h, to, f) ==
  /\ running = Nobody
  /\ Run(h, "idle", to)
  /\ frame' = [frame EXCEPT ![h] = f]

(* The handler returns.                                                    *)
Finish(h, from) ==
  /\ Run(h, from, "idle")
  /\ frame' = [frame EXCEPT ![h] = EmptyFrame]

(* A handler that has sent something waits for the socket to take it, and  *)
(* needs nothing more but the documents it still has to publish.           *)
Send(h, from) ==
  /\ Run(h, from, "flush")
  /\ frame' = [frame EXCEPT ![h] = [EmptyFrame EXCEPT !.todo = frame[h].todo]]

Publish(h, from, u, d) ==
  /\ Send(h, from)
  /\ diag' = [diag EXCEPT ![u] = d]

(* documents.read(): the guard is dropped before the next .await.          *)
DocsReadable == docsLock = Nobody

(* No watched-files handler is under way.                                  *)
NoBatchInFlight == \A g \in Slots : pc[g] \notin {"snapshot", "reading"}

-----------------------------------------------------------------------------
(* Messages from the client.  The editor changes its own buffer when it    *)
(* sends; messages start in the order they are sent.                       *)

ReceiveOpen(h, u, t) ==
  /\ buffer[u] = NoDoc
  /\ buffer' = [buffer EXCEPT ![u] = t]
  /\ Start(h, "liveDocs", [EmptyFrame EXCEPT !.uri = u, !.text = t])
  /\ UNCHANGED <<disk, events, server, diag>>

ReceiveChange(h, u, e) ==
  /\ buffer[u] # NoDoc
  /\ buffer' = [buffer EXCEPT ![u] = e[buffer[u]]]
  /\ Start(h, "source", [EmptyFrame EXCEPT !.uri = u, !.edit = e])
  /\ UNCHANGED <<disk, events, server, diag>>

ReceiveClose(h, u) ==
  /\ buffer[u] # NoDoc
  /\ buffer' = [buffer EXCEPT ![u] = NoDoc]
  /\ Start(h, "closeDocs", [EmptyFrame EXCEPT !.uri = u])
  /\ UNCHANGED <<disk, events, server, diag>>

ReceiveConfig(h, c) ==
  /\ Start(h, "config", [EmptyFrame EXCEPT !.conf = c])
  /\ UNCHANGED <<client, server, diag>>

ReceiveWatched(h) ==
  /\ events # <<>>
  /\ BatchesOverlap \/ NoBatchInFlight
  /\ events' = <<>>
  /\ Start(h, "snapshot", [EmptyFrame EXCEPT !.batch = events])
  /\ UNCHANGED <<buffer, disk, server, diag>>

(* The first .await of each read-only request.                             *)
FirstAwait ==
  [hover |-> "hoverDocs", completion |-> "completionConfig",
   formatting |-> "formattingDocs", definition |-> "definitionDocs",
   references |-> "referencesDocs", symbol |-> "symbolSyms"]

ReceiveRequest(h, r, u) ==
  /\ Start(h, FirstAwait[r], [EmptyFrame EXCEPT !.uri = u])
  /\ UNCHANGED <<client, server, diag>>

-----------------------------------------------------------------------------
(* The file system, and the client's watcher for "*.sql".                  *)

WriteFile(u, t) ==
  /\ Len(events) < MaxEvents
  /\ disk[u] # t
  /\ disk' = [disk EXCEPT ![u] = t]
  /\ events' = Append(events, [uri |-> u, typ |-> "CHANGED"])
  /\ UNCHANGED <<buffer, server, diag, pc, frame, running>>

DeleteFile(u) ==
  /\ Len(events) < MaxEvents
  /\ disk[u] # NoDoc
  /\ disk' = [disk EXCEPT ![u] = NoDoc]
  /\ events' = Append(events, [uri |-> u, typ |-> "DELETED"])
  /\ UNCHANGED <<buffer, server, diag, pc, frame, running>>

-----------------------------------------------------------------------------
(* did_open and did_change: DocumentStores::sync_live.                     *)

(* Mutant: did_change notifies the client between its read of the source   *)
(* and its write, and so gives up the executor.                            *)
SourceSuspending(h) ==
  LET current == docs[frame[h].uri]
      source  == IF current = NoDoc THEN EmptyText ELSE current
  IN /\ DocsReadable
     /\ pc[h] = "source"
     /\ running \in {Nobody, h}
     /\ pc' = [pc EXCEPT ![h] = "liveDocs"]
     /\ running' = Nobody
     /\ frame' = [frame EXCEPT ![h] =
                    [EmptyFrame EXCEPT !.uri = frame[h].uri,
                                       !.text = frame[h].edit[source]]]
     /\ UNCHANGED <<client, server, diag>>

(* did_change takes the current source under a read guard, drops it and    *)
(* folds the content changes; a document it does not know is empty.        *)
Source(h) ==
  LET current == docs[frame[h].uri]
      source  == IF current = NoDoc THEN EmptyText ELSE current
  IN /\ DocsReadable
     /\ Run(h, "source", "liveDocs")
     /\ frame' = [frame EXCEPT ![h] =
                    [EmptyFrame EXCEPT !.uri = frame[h].uri,
                                       !.text = frame[h].edit[source]]]
     /\ UNCHANGED <<client, server, diag>>

(* with_both takes the documents guard first and keeps it across the       *)
(* .await for the symbols guard: the one guard held across an .await.      *)
LockDocs(h, from, to) ==
  /\ docsLock = Nobody
  /\ docsLock' = h
  /\ Run(h, from, to)
  /\ UNCHANGED <<client, docs, syms, config, diag, frame>>

SyncLiveDocs(h) == LockDocs(h, "liveDocs", "liveSyms")

(* Mutant: the diagnostics are published with the guards still held.       *)
SyncLiveHoldingGuard(h) ==
  LET u == frame[h].uri
      t == frame[h].text
  IN /\ Run(h, "liveSyms", "analysis")
     /\ docs' = [docs EXCEPT ![u] = t]
     /\ syms' = IF docs[u] = t THEN syms ELSE [syms EXCEPT ![u] = Live(t)]
     /\ UNCHANGED <<client, config, docsLock, diag, frame>>

(* Mutant: a document that is indexed already is not indexed again.        *)
SyncLiveIndexingOnce(h) ==
  LET u == frame[h].uri
      t == frame[h].text
  IN /\ Run(h, "liveSyms", "analysis")
     /\ docs' = [docs EXCEPT ![u] = t]
     /\ syms' = IF IsLive(syms[u]) THEN syms ELSE [syms EXCEPT ![u] = Live(t)]
     /\ docsLock' = Nobody
     /\ UNCHANGED <<client, config, diag, frame>>

(* DocumentStore::upsert keeps an entry whose source is the same text, and *)
(* then the symbol store is left alone.                                    *)
SyncLive(h) ==
  LET u == frame[h].uri
      t == frame[h].text
  IN /\ Run(h, "liveSyms", "analysis")
     /\ docs' = [docs EXCEPT ![u] = t]
     /\ syms' = IF docs[u] = t THEN syms ELSE [syms EXCEPT ![u] = Live(t)]
     /\ docsLock' = Nobody
     /\ UNCHANGED <<client, config, diag, frame>>

(* did_close: DocumentStores::sync_close without a background source, then *)
(* the empty diagnostics; no .await lies between the two.                  *)
SyncCloseDocs(h) == LockDocs(h, "closeDocs", "closeSyms")

(* Mutant: the closed document is published once more, not cleared.        *)
SyncClosePublishing(h) ==
  LET u == frame[h].uri
  IN /\ Publish(h, "closeSyms", u, Diagnose(frame[h].text, config))
     /\ docs' = [docs EXCEPT ![u] = NoDoc]
     /\ syms' = [syms EXCEPT ![u] = NoEntry]
     /\ docsLock' = Nobody
     /\ UNCHANGED <<client, config>>

(* Mutant: the symbols of a closed document stay indexed.                  *)
SyncCloseKeepingSymbols(h) ==
  LET u == frame[h].uri
  IN /\ Publish(h, "closeSyms", u, Cleared)
     /\ docs' = [docs EXCEPT ![u] = NoDoc]
     /\ docsLock' = Nobody
     /\ UNCHANGED <<client, config, syms>>

SyncClose(h) ==
  LET u == frame[h].uri
  IN /\ Publish(h, "closeSyms", u, Cleared)
     /\ docs' = [docs EXCEPT ![u] = NoDoc]
     /\ syms' = [syms EXCEPT ![u] = NoEntry]
     /\ docsLock' = Nobody
     /\ UNCHANGED <<client, config>>

-----------------------------------------------------------------------------
(* publish_diagnostics_for, and refresh_all_diagnostics around it.         *)

(* Mutant: only the first document is republished.                         *)
NextDocumentDroppingRest(h, from) == Finish(h, from)

(* The loop over open_uris: a handler with documents left goes on with one *)
(* of them (the order is the hash map's), one without returns.             *)
NextDocument(h, from) ==
  \/ /\ frame[h].todo = {}
     /\ Finish(h, from)
  \/ \E u \in frame[h].todo :
       /\ Run(h, from, "analysis")
       /\ frame' = [frame EXCEPT ![h] =
                      [EmptyFrame EXCEPT !.uri = u, !.todo = frame[h].todo \ {u}]]

(* get_analysis; a document that is gone is not published.                 *)
Analysis(h) ==
  LET t == docs[frame[h].uri]
  IN /\ pc[h] = "analysis"
     /\ DocsReadable
     /\ \/ /\ t # NoDoc
           /\ Run(h, "analysis", "diagnose")
           /\ frame' = [frame EXCEPT ![h].text = t]
        \/ /\ t = NoDoc
           /\ NextDocument(h, "analysis")
     /\ UNCHANGED <<client, server, diag>>

PublishDiagnostics(h) ==
  /\ Publish(h, "diagnose", frame[h].uri, Diagnose(frame[h].text, config))
  /\ UNCHANGED <<client, server>>

(* The client's socket has taken the message.                              *)
Flush(h) ==
  /\ NextDocument(h, "flush")
  /\ UNCHANGED <<client, server, diag>>

(* Mutant: the configuration is stored, no diagnostics are republished.    *)
SetConfigOnly(h) ==
  /\ Finish(h, "config")
  /\ config' = frame[h].conf
  /\ UNCHANGED <<client, docs, syms, docsLock, diag>>

(* did_change_configuration.                                               *)
SetConfig(h) ==
  /\ Run(h, "config", "openUris")
  /\ config' = frame[h].conf
  /\ UNCHANGED <<client, docs, syms, docsLock, diag, frame>>

OpenDocs == {u \in Uris : docs[u] # NoDoc}

OpenUris(h) ==
  /\ DocsReadable
  /\ \/ /\ OpenDocs = {}
        /\ Finish(h, "openUris")
     \/ \E u \in OpenDocs :
          /\ Run(h, "openUris", "analysis")
          /\ frame' = [frame EXCEPT ![h] =
                         [EmptyFrame EXCEPT !.uri = u, !.todo = OpenDocs \ {u}]]
  /\ UNCHANGED <<client, server, diag>>

-----------------------------------------------------------------------------
(* did_change_watched_files.                                               *)

(* DocumentOpenSnapshot::from_documents.                                   *)
TakeSnapshot(h) ==
  /\ DocsReadable
  /\ Run(h, "snapshot", "reading")
  /\ frame' = [frame EXCEPT ![h].snap = docs]
  /\ UNCHANGED <<client, server, diag>>

(* The spawn_blocking thread reads one file after the other; it needs no   *)
(* executor.  DELETED needs no read; a file that is gone, or cannot be     *)
(* read (it is not UTF-8), reads as nothing.                               *)
ReadFile(h) ==
  LET read == frame[h].reads
      e    == frame[h].batch[Len(read) + 1]
  IN /\ pc[h] = "reading"
     /\ Len(read) < Len(frame[h].batch)
     /\ \E text \in {disk[e.uri]} \cup (IF ReadErrors THEN {NoDoc} ELSE {}) :
          frame' = [frame EXCEPT ![h].reads =
                      Append(read, IF e.typ = "DELETED" THEN NoDoc ELSE text)]
     /\ UNCHANGED <<client, server, diag, pc, running>>

(* A JoinError is logged to the client and the batch is dropped; nothing   *)
(* is left to apply after the flush.                                       *)
ReadTaskLost(h) ==
  /\ ReadErrors
  /\ Send(h, "reading")
  /\ UNCHANGED <<client, server, diag>>

(* Mutant: the snapshot of open documents is not consulted.                *)
AppliesToOpen(f, i) == f.batch[i].typ = "DELETED" \/ f.reads[i] # NoDoc

(* Mutant: DELETED is ignored.                                             *)
AppliesWritten(f, i) == f.snap[f.batch[i].uri] = NoDoc /\ f.reads[i] # NoDoc

(* The match of apply_pre_read_watched_file_events: what event i of the    *)
(* batch makes of the store's entry, if it does anything.                  *)
Applies(f, i) ==
  \/ f.batch[i].typ = "DELETED"
  \/ f.snap[f.batch[i].uri] = NoDoc /\ f.reads[i] # NoDoc

EventEntry(f, i) ==
  IF f.batch[i].typ = "DELETED" THEN NoEntry ELSE Background(f.reads[i])

(* The loop over the pairs: the last event that applies to u decides.      *)
AfterBatch(f, u) ==
  LET applied == {i \in DOMAIN f.batch : f.batch[i].uri = u /\ Applies(f, i)}
  IN IF applied = {}
     THEN syms[u]
     ELSE EventEntry(f, CHOOSE i \in applied : \A j \in applied : j <= i)

ApplyBatch(h) ==
  /\ Len(frame[h].reads) = Len(frame[h].batch)
  /\ Finish(h, "reading")
  /\ syms' = [u \in Uris |-> AfterBatch(frame[h], u)]
  /\ UNCHANGED <<client, docs, config, docsLock, diag>>

-----------------------------------------------------------------------------
(* Read-only requests.  Each holds an analysis (an Arc) while it goes on,  *)
(* and its core computation may panic: guarded() catches the panic, the    *)
(* user is notified and the answer is null.                                *)

(* get_analysis; without a document the answer is the fallback.            *)
RequestDocs(h, from, to) ==
  LET t == docs[frame[h].uri]
  IN /\ pc[h] = from
     /\ DocsReadable
     /\ \/ /\ t # NoDoc
           /\ Run(h, from, to)
           /\ frame' = [frame EXCEPT ![h].text = t]
        \/ /\ t = NoDoc
           /\ Finish(h, from)
     /\ UNCHANGED <<client, server, diag>>

(* run_feature, feature_outcome: an answer, or a panic to notify.          *)
Answer(h, from) ==
  /\ \/ Finish(h, from)
     \/ Send(h, from)
  /\ UNCHANGED <<client, server, diag>>

(* hover, document_symbol, folding_range, semantic_tokens, signature_help, *)
(* code_action, code_lens, rename and the resolve requests compute their   *)
(* answer as soon as they have the analysis; completion reads its          *)
(* configuration before that.                                              *)
HoverDocs(h) ==
  /\ pc[h] = "hoverDocs"
  /\ DocsReadable
  /\ \/ Finish(h, "hoverDocs")
     \/ docs[frame[h].uri] # NoDoc /\ Send(h, "hoverDocs")
  /\ UNCHANGED <<client, server, diag>>

CompletionConfig(h) ==
  /\ Run(h, "completionConfig", "hoverDocs")
  /\ UNCHANGED <<client, server, diag, frame>>

(* formatting, range_formatting, document_link and inlay_hint read their   *)
(* configuration while they hold the analysis.                             *)
FormattingDocs(h) == RequestDocs(h, "formattingDocs", "formattingConfig")
FormattingConfig(h) == Answer(h, "formattingConfig")

DefinitionDocs(h) == RequestDocs(h, "definitionDocs", "definitionSyms")
DefinitionSyms(h) == Answer(h, "definitionSyms")

(* references takes a snapshot of every document between the two.          *)
ReferencesDocs(h) == RequestDocs(h, "referencesDocs", "referencesAll")

ReferencesAll(h) ==
  /\ DocsReadable
  /\ Run(h, "referencesAll", "referencesSyms")
  /\ frame' = [frame EXCEPT ![h].snap = docs]
  /\ UNCHANGED <<client, server, diag>>

ReferencesSyms(h) == Answer(h, "referencesSyms")

SymbolSyms(h) == Answer(h, "symbolSyms")

-----------------------------------------------------------------------------
Receive(h) ==
  \/ \E u \in Uris, t \in Texts : ReceiveOpen(h, u, t)
  \/ \E u \in Uris, e \in Edits : ReceiveChange(h, u, e)
  \/ \E u \in Uris : ReceiveClose(h, u)
  \/ \E c \in Configs : ReceiveConfig(h, c)
  \/ ReceiveWatched(h)
  \/ \E r \in Requests, u \in Uris : ReceiveRequest(h, r, u)

Step(h) ==
  \/ Source(h) \/ SyncLiveDocs(h) \/ SyncLive(h)
  \/ SyncCloseDocs(h) \/ SyncClose(h)
  \/ Analysis(h) \/ PublishDiagnostics(h) \/ Flush(h)
  \/ SetConfig(h) \/ OpenUris(h)
  \/ TakeSnapshot(h) \/ ReadFile(h) \/ ReadTaskLost(h) \/ ApplyBatch(h)
  \/ HoverDocs(h) \/ CompletionConfig(h)
  \/ FormattingDocs(h) \/ FormattingConfig(h)
  \/ DefinitionDocs(h) \/ DefinitionSyms(h)
  \/ ReferencesDocs(h) \/ ReferencesAll(h) \/ ReferencesSyms(h)
  \/ SymbolSyms(h)

FileSystem ==
  \E u \in Uris : DeleteFile(u) \/ \E t \in Texts : WriteFile(u, t)

Next == FileSystem \/ \E h \in Slots : Receive(h) \/ Step(h)

(* Each future that is woken is polled again: the ready queue and tokio's  *)
(* lock queues are first in, first out, the blocking pool runs its tasks,  *)
(* and the client reads its socket.  So a handler that can go on again and *)
(* again does.  Neither the editor nor the file system owes us a step.     *)
Fairness == \A h \in Slots : SF_vars(Step(h))

Spec == Init /\ [][Next]_vars

FairSpec == Spec /\ Fairness

-----------------------------------------------------------------------------
(* Properties.                                                             *)

(* Where the code needs a document, a text or an edit, the frame has one.  *)
DocumentAwaits ==
  PCs \ {"idle", "flush", "config", "openUris", "snapshot", "reading", "symbolSyms"}

FrameFits(at, f) ==
  /\ at \in DocumentAwaits => f.uri \in Uris
  /\ at \in {"liveDocs", "liveSyms", "diagnose"} => f.text \in Texts
  /\ at = "source" => f.edit \in Edits
  /\ at = "snapshot" => f.reads = <<>>
  /\ at = "reading" => Len(f.reads) <= Len(f.batch)

HandlersOK ==
  /\ pc \in [Slots -> PCs]
  /\ frame \in [Slots -> Frame]
  /\ \A h \in Slots : FrameFits(pc[h], frame[h])
  /\ running \in Slots \cup {Nobody}

(* Types of the variables; what a handler carries fits where it stands.    *)
TypeOK ==
  /\ buffer \in [Uris -> Contents]
  /\ disk \in [Uris -> Contents]
  /\ events \in Seq(Event)
  /\ docs \in [Uris -> Contents]
  /\ syms \in [Uris -> Entry \cup {NoEntry}]
  /\ config \in Configs
  /\ diag \in [Uris -> {Cleared} \cup (Texts \X Configs)]
  /\ docsLock \in Slots \cup {Nobody}
  /\ HandlersOK

(* Open/Live entries of the symbol store mirror the document store: a live *)
(* entry belongs to a known document and was built from its present text,  *)
(* whatever the interleaving (sync_live, sync_close, the short-circuit of  *)
(* DocumentStore::upsert).                                                 *)
LiveEntriesMirrorDocuments ==
  \A u \in Uris : IsLive(syms[u]) => syms[u].text = docs[u]

(* A document that stays known loses its live entry only to a batch of     *)
(* watched-file events, and then only to a DELETED event for it or to a    *)
(* batch whose snapshot was taken before the document was opened.          *)
LiveEntryLostOnlyToBatch ==
  [][\A u \in Uris :
       IsLive(syms[u]) /\ ~IsLive(syms[u])' /\ docs'[u] # NoDoc
         => \E h \in Slots :
              /\ pc[h] = "reading" /\ pc'[h] = "idle"
              /\ \E i \in DOMAIN frame[h].batch :
                   /\ frame[h].batch[i].uri = u
                   /\ \/ frame[h].batch[i].typ = "DELETED"
                      \/ frame[h].snap[u] = NoDoc]_vars

(* Between messages the server's documents are the editor's buffers: no    *)
(* edit is lost, applied twice or applied to another base, although        *)
(* did_change reads the source under one guard and writes under another.   *)
DocumentsMatchEditor ==
  running = Nobody /\ ~YieldAtLocks => docs = buffer

Expected(u) == IF docs[u] = NoDoc THEN Cleared ELSE Diagnose(docs[u], config)

(* Between messages the client shows, for each document, the diagnostics   *)
(* of its present text under the present configuration (none if closed),   *)
(* unless a configuration change still has that document to publish.       *)
DiagnosticsCurrent ==
  running = Nobody /\ ~YieldAtLocks =>
    \A u \in Uris : diag[u] = Expected(u) \/ \E h \in Slots : u \in frame[h].todo

(* A read-only request computes its answer on the present text of its      *)
(* document, and references() on a snapshot of all documents that agrees   *)
(* with the symbol store it then reads, while no lock .await suspends.     *)
RequestsSeeOneState ==
  ~YieldAtLocks => \A h \in Slots :
    /\ pc[h] \in {"formattingConfig", "definitionSyms", "referencesSyms"}
         => frame[h].text = docs[frame[h].uri]
    /\ pc[h] = "referencesSyms"
         => \A u \in Uris : IsLive(syms[u]) => syms[u].text = frame[h].snap[u]

(* Once every file event has been handled, what the store holds of a       *)
(* document that is not open is what the disk holds, or nothing.           *)
BackgroundMatchesDisk ==
  events = <<>> /\ NoBatchInFlight =>
    \A u \in Uris : docs[u] = NoDoc => syms[u] \in {NoEntry, Background(disk[u])}

(* The disk copy never overwrites the live entry of an open document.      *)
OpenDocumentWins ==
  \A u \in Uris : docs[u] # NoDoc => syms[u] = NoEntry \/ IsLive(syms[u])

(* Every handler returns: no deadlock over the two stores, no lost wakeup, *)
(* no endless republishing.                                                *)
EveryHandlerReturns ==
  \A h \in Slots : pc[h] # "idle" ~> pc[h] = "idle"

(* Diagnostics that are out of date are republished.                       *)
DiagnosticsConverge ==
  \A u \in Uris : diag[u] # Expected(u) ~> diag[u] = Expected(u)

=============================================================================
