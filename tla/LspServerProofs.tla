-------------------------- MODULE LspServerProofs --------------------------
(***************************************************************************)
(* Theorems about LspServer, for any number of documents, texts, edits,    *)
(* configurations and handlers, and whatever the bounds.                   *)
(***************************************************************************)
EXTENDS LspServer, WellFoundedInduction, FiniteSetTheorems, TLAPS

-----------------------------------------------------------------------------
(* Type correctness.                                                       *)

(* A set of positions of a sequence that is not empty has a last element.  *)
LEMMA LastPosition ==
  ASSUME NEW n \in Nat, NEW S \in SUBSET (1 .. n), S # {}
  PROVE  \E i \in S : \A j \in S : j <= i
<1> DEFINE T == {n - i : i \in S}
<1>1. T \subseteq Nat
  OBVIOUS
<1>2. T # {}
  OBVIOUS
<1>3. PICK m \in T : \A k \in T : ~ (<<k, m>> \in OpToRel(<, Nat))
  BY <1>1, <1>2, NatLessThanWellFounded, WFMin
<1>4. \A k \in T : ~ (k < m)
  BY <1>1, <1>3 DEF OpToRel
<1>5. PICK i \in S : m = n - i
  OBVIOUS
<1>6. \A j \in S : ~ (n - j < n - i)
  BY <1>4, <1>5
<1>7. \A j \in S : j <= i
  BY <1>6
<1> QED
  BY <1>7

(* The last applying event of a batch, if one does.                        *)
LEMMA EventApplied ==
  ASSUME NEW f \in Frame, NEW u \in Uris
  PROVE  \/ AfterBatch(f, u) = syms[u]
         \/ \E i \in DOMAIN f.batch :
              /\ f.batch[i].uri = u
              /\ Applies(f, i)
              /\ AfterBatch(f, u) = EventEntry(f, i)
<1> DEFINE applied == {i \in DOMAIN f.batch : f.batch[i].uri = u /\ Applies(f, i)}
<1>1. CASE applied = {}
  BY <1>1 DEF AfterBatch
<1>2. CASE applied # {}
  <2>1. f.batch \in Seq(Event)
    BY DEF Frame
  <2>2. Len(f.batch) \in Nat /\ DOMAIN f.batch = 1 .. Len(f.batch)
    BY <2>1
  <2>3. \E i \in applied : \A j \in applied : j <= i
    BY <1>2, <2>2, LastPosition
  <2> DEFINE last == CHOOSE i \in applied : \A j \in applied : j <= i
  <2>4. last \in applied
    BY <2>3
  <2>5. AfterBatch(f, u) = EventEntry(f, last)
    BY <1>2 DEF AfterBatch
  <2> QED
    BY <2>4, <2>5
<1> QED
  BY <1>1, <1>2

LEMMA EntryAfterBatch ==
  ASSUME NEW f \in Frame, NEW u \in Uris,
         Len(f.reads) = Len(f.batch),
         syms[u] \in Entry \cup {NoEntry}
  PROVE  AfterBatch(f, u) \in Entry \cup {NoEntry}
<1>1. CASE AfterBatch(f, u) = syms[u]
  BY <1>1
<1>2. ASSUME NEW i \in DOMAIN f.batch, Applies(f, i), AfterBatch(f, u) = EventEntry(f, i)
      PROVE  AfterBatch(f, u) \in Entry \cup {NoEntry}
  <2>1. f.batch \in Seq(Event) /\ f.reads \in Seq(Contents)
    BY DEF Frame
  <2>2. f.reads[i] \in Contents
    BY <2>1
  <2> QED
    BY <1>2, <2>2 DEF EventEntry, Applies, Background, Entry, Contents
<1> QED
  BY <1>1, <1>2, EventApplied

(* What a handler's frame is assigned is a frame.                          *)
LEMMA FrameTypes ==
  /\ EmptyFrame \in Frame
  /\ \A u \in Uris, t \in Contents : [EmptyFrame EXCEPT !.uri = u, !.text = t] \in Frame
  /\ \A u \in Uris, e \in Edits : [EmptyFrame EXCEPT !.uri = u, !.edit = e] \in Frame
  /\ \A u \in Uris : [EmptyFrame EXCEPT !.uri = u] \in Frame
  /\ \A c \in Configs : [EmptyFrame EXCEPT !.conf = c] \in Frame
  /\ \A b \in Seq(Event) : [EmptyFrame EXCEPT !.batch = b] \in Frame
  /\ \A T \in SUBSET Uris : [EmptyFrame EXCEPT !.todo = T] \in Frame
  /\ \A u \in Uris, T \in SUBSET Uris : [EmptyFrame EXCEPT !.uri = u, !.todo = T] \in Frame
<1>1. NoSnapshot \in [Uris -> Contents]
  BY DEF NoSnapshot, Contents
<1>2. <<>> \in Seq(Event) /\ <<>> \in Seq(Contents)
  OBVIOUS
<1>3. EmptyFrame \in Frame
  BY <1>1, <1>2, ConfigAssumption DEF EmptyFrame, Frame, Contents
<1> QED
  BY <1>3 DEF Frame

(* frame[h], with one field replaced.                                      *)
LEMMA FrameUpdates ==
  ASSUME NEW f \in Frame
  PROVE  /\ \A t \in Contents : [f EXCEPT !.text = t] \in Frame
         /\ \A s \in [Uris -> Contents] : [f EXCEPT !.snap = s] \in Frame
         /\ \A r \in Seq(Contents) : [f EXCEPT !.reads = r] \in Frame
BY DEF Frame

-----------------------------------------------------------------------------
(* A step moves one handler, and leaves it a frame that fits.              *)

LEMMA MoveTypes ==
  ASSUME TypeOK, NEW h \in Slots, NEW from, NEW to \in PCs, NEW f \in Frame,
         FrameFits(to, f),
         Run(h, from, to),
         frame' = [frame EXCEPT ![h] = f]
  PROVE  HandlersOK'
<1>1. pc' = [pc EXCEPT ![h] = to] /\ running' \in {h, Nobody}
  BY DEF Run
<1>2. pc' \in [Slots -> PCs] /\ frame' \in [Slots -> Frame]
  BY <1>1 DEF TypeOK, HandlersOK
<1>3. ASSUME NEW g \in Slots
      PROVE  FrameFits(pc'[g], frame'[g])
  <2>1. CASE g = h
    BY <1>1, <2>1 DEF TypeOK, HandlersOK
  <2>2. CASE g # h
    BY <1>1, <2>2 DEF TypeOK, HandlersOK
  <2> QED
    BY <2>1, <2>2
<1>4. (\A g \in Slots : FrameFits(pc[g], frame[g]))'
  BY <1>3 DEF FrameFits
<1> QED
  BY <1>1, <1>2, <1>4 DEF HandlersOK

(* A handler that goes on with the frame it has.                           *)
LEMMA ContinueTypes ==
  ASSUME TypeOK, NEW h \in Slots, NEW from, NEW to \in PCs,
         FrameFits(to, frame[h]),
         Run(h, from, to),
         frame' = frame
  PROVE  HandlersOK'
<1>1. frame[h] \in Frame /\ frame' = [frame EXCEPT ![h] = frame[h]]
  BY DEF TypeOK, HandlersOK
<1> QED
  BY <1>1, MoveTypes

LEMMA FinishTypes ==
  ASSUME TypeOK, NEW h \in Slots, NEW from, Finish(h, from)
  PROVE  HandlersOK'
<1>1. "idle" \in PCs /\ FrameFits("idle", EmptyFrame)
  BY DEF PCs, FrameFits, DocumentAwaits
<1> QED
  BY <1>1, MoveTypes, FrameTypes DEF Finish

LEMMA SendTypes ==
  ASSUME TypeOK, NEW h \in Slots, NEW from, Send(h, from)
  PROVE  HandlersOK'
<1>1. "flush" \in PCs /\ \A f : FrameFits("flush", f)
  BY DEF PCs, FrameFits, DocumentAwaits
<1>2. frame[h].todo \in SUBSET Uris
  BY DEF TypeOK, HandlersOK, Frame
<1>3. [EmptyFrame EXCEPT !.todo = frame[h].todo] \in Frame
  BY <1>2, FrameTypes
<1> QED
  BY <1>1, <1>3, MoveTypes DEF Send

(* A handler that goes on to publish u, with T left to publish.            *)
LEMMA PublishTypes ==
  ASSUME TypeOK, NEW h \in Slots, NEW from, NEW u \in Uris, NEW T \in SUBSET Uris,
         Run(h, from, "analysis"),
         frame' = [frame EXCEPT ![h] = [EmptyFrame EXCEPT !.uri = u, !.todo = T]]
  PROVE  HandlersOK'
<1> DEFINE f == [EmptyFrame EXCEPT !.uri = u, !.todo = T]
<1>1. f \in Frame /\ f.uri = u
  BY FrameTypes DEF EmptyFrame
<1>2. "analysis" \in PCs /\ FrameFits("analysis", f)
  BY <1>1 DEF PCs, FrameFits, DocumentAwaits
<1> HIDE DEF f
<1> QED
  BY <1>1, <1>2, MoveTypes DEF f

LEMMA NextDocumentTypes ==
  ASSUME TypeOK, NEW h \in Slots, NEW from, NextDocument(h, from)
  PROVE  HandlersOK'
<1>1. frame[h].todo \in SUBSET Uris
  BY DEF TypeOK, HandlersOK, Frame
<1>2. CASE Finish(h, from)
  BY <1>2, FinishTypes
<1>3. ASSUME NEW u \in frame[h].todo,
             Run(h, from, "analysis"),
             frame' = [frame EXCEPT ![h] =
                         [EmptyFrame EXCEPT !.uri = u, !.todo = frame[h].todo \ {u}]]
      PROVE  HandlersOK'
  <2>1. u \in Uris /\ frame[h].todo \ {u} \in SUBSET Uris
    BY <1>1
  <2> QED
    BY <1>3, <2>1, PublishTypes
<1> QED
  BY <1>2, <1>3 DEF NextDocument

LEMMA ReceiveTypes ==
  ASSUME TypeOK, NEW h \in Slots, Receive(h)
  PROVE  TypeOK'
<1>0. {"liveDocs", "source", "closeDocs", "config", "snapshot"} \subseteq PCs
  BY DEF PCs
<1>1. ASSUME NEW u \in Uris, NEW t \in Texts, ReceiveOpen(h, u, t)
      PROVE  TypeOK'
  <2> DEFINE f == [EmptyFrame EXCEPT !.uri = u, !.text = t]
  <2>1. f \in Frame /\ f.uri = u /\ f.text = t
    BY FrameTypes DEF EmptyFrame, Contents
  <2>2. FrameFits("liveDocs", f)
    BY <2>1 DEF FrameFits
  <2> HIDE DEF f
  <2>3. HandlersOK'
    BY <1>0, <1>1, <2>1, <2>2, MoveTypes DEF ReceiveOpen, Start, f
  <2> QED
    BY <1>1, <2>3 DEF ReceiveOpen, TypeOK, Contents, server
<1>2. ASSUME NEW u \in Uris, NEW e \in Edits, ReceiveChange(h, u, e)
      PROVE  TypeOK'
  <2> DEFINE f == [EmptyFrame EXCEPT !.uri = u, !.edit = e]
  <2>1. f \in Frame /\ f.uri = u /\ f.edit = e
    BY FrameTypes DEF EmptyFrame
  <2>2. FrameFits("source", f)
    BY <2>1 DEF FrameFits
  <2> HIDE DEF f
  <2>3. HandlersOK'
    BY <1>0, <1>2, <2>1, <2>2, MoveTypes DEF ReceiveChange, Start, f
  <2>4. buffer[u] \in Texts /\ e \in [Texts -> Texts]
    BY <1>2, TextsAssumption DEF ReceiveChange, TypeOK, Contents
  <2> QED
    BY <1>2, <2>3, <2>4 DEF ReceiveChange, TypeOK, Contents, server
<1>3. ASSUME NEW u \in Uris, ReceiveClose(h, u)
      PROVE  TypeOK'
  <2> DEFINE f == [EmptyFrame EXCEPT !.uri = u]
  <2>1. f \in Frame /\ f.uri = u
    BY FrameTypes DEF EmptyFrame
  <2>2. FrameFits("closeDocs", f)
    BY <2>1 DEF FrameFits
  <2> HIDE DEF f
  <2>3. HandlersOK'
    BY <1>0, <1>3, <2>1, <2>2, MoveTypes DEF ReceiveClose, Start, f
  <2> QED
    BY <1>3, <2>3 DEF ReceiveClose, TypeOK, Contents, server
<1>4. ASSUME NEW c \in Configs, ReceiveConfig(h, c)
      PROVE  TypeOK'
  <2>1. \A f : FrameFits("config", f)
    BY DEF FrameFits, DocumentAwaits
  <2>2. HandlersOK'
    BY <1>0, <1>4, <2>1, FrameTypes, MoveTypes DEF ReceiveConfig, Start
  <2> QED
    BY <1>4, <2>2 DEF ReceiveConfig, TypeOK, client, server
<1>5. CASE ReceiveWatched(h)
  <2> DEFINE f == [EmptyFrame EXCEPT !.batch = events]
  <2>1. f.reads = <<>>
    BY DEF EmptyFrame
  <2>2. f \in Frame /\ FrameFits("snapshot", f)
    BY <2>1, FrameTypes DEF TypeOK, FrameFits, DocumentAwaits
  <2> HIDE DEF f
  <2>3. HandlersOK'
    BY <1>0, <1>5, <2>2, MoveTypes DEF ReceiveWatched, Start, f
  <2>4. events' \in Seq(Event)
    BY <1>5 DEF ReceiveWatched
  <2>5. UNCHANGED <<buffer, disk, docs, syms, config, diag, docsLock>>
    BY <1>5 DEF ReceiveWatched, server
  <2> QED
    BY <2>3, <2>4, <2>5 DEF TypeOK
<1>6. ASSUME NEW r \in Requests, NEW u \in Uris, ReceiveRequest(h, r, u)
      PROVE  TypeOK'
  <2> DEFINE f == [EmptyFrame EXCEPT !.uri = u]
  <2>1. f \in Frame /\ f.uri = u
    BY FrameTypes DEF EmptyFrame
  <2>2. FirstAwait[r] \in PCs /\ FrameFits(FirstAwait[r], f)
    BY <2>1, BoundsAssumption DEF FirstAwait, PCs, FrameFits, DocumentAwaits
  <2> HIDE DEF f
  <2>3. HandlersOK'
    BY <1>6, <2>1, <2>2, MoveTypes DEF ReceiveRequest, Start, f
  <2> QED
    BY <1>6, <2>3 DEF ReceiveRequest, TypeOK, client, server
<1> QED
  BY <1>1, <1>2, <1>3, <1>4, <1>5, <1>6 DEF Receive

LEMMA FileSystemTypes ==
  ASSUME TypeOK, FileSystem
  PROVE  TypeOK'
<1>1. ASSUME UNCHANGED <<pc, frame, running>>
      PROVE  HandlersOK'
  BY <1>1 DEF TypeOK, HandlersOK, FrameFits
<1>2. ASSUME NEW u \in Uris, NEW t \in Texts, WriteFile(u, t)
      PROVE  TypeOK'
  <2>1. [uri |-> u, typ |-> "CHANGED"] \in Event
    BY DEF Event
  <2>2. events' \in Seq(Event)
    BY <1>2, <2>1 DEF WriteFile, TypeOK
  <2> QED
    BY <1>1, <1>2, <2>2 DEF WriteFile, TypeOK, Contents, server
<1>3. ASSUME NEW u \in Uris, DeleteFile(u)
      PROVE  TypeOK'
  <2>1. [uri |-> u, typ |-> "DELETED"] \in Event
    BY DEF Event
  <2>2. events' \in Seq(Event)
    BY <1>3, <2>1 DEF DeleteFile, TypeOK
  <2> QED
    BY <1>1, <1>3, <2>2 DEF DeleteFile, TypeOK, Contents, server
<1> QED
  BY <1>2, <1>3 DEF FileSystem

LEMMA SyncTypes ==
  ASSUME TypeOK, NEW h \in Slots,
         \/ Source(h) \/ SyncLiveDocs(h) \/ SyncLive(h)
         \/ SyncCloseDocs(h) \/ SyncClose(h)
  PROVE  TypeOK'
<1>0. {"liveDocs", "liveSyms", "closeSyms", "analysis"} \subseteq PCs
  BY DEF PCs
<1>1. CASE Source(h)
  <2> DEFINE current == docs[frame[h].uri]
             source  == IF current = NoDoc THEN EmptyText ELSE current
             f == [EmptyFrame EXCEPT !.uri = frame[h].uri,
                                     !.text = frame[h].edit[source]]
  <2>1. pc[h] = "source" /\ FrameFits(pc[h], frame[h])
    BY <1>1 DEF Source, Run, TypeOK, HandlersOK
  <2>2. frame[h].uri \in Uris /\ frame[h].edit \in Edits
    BY <2>1 DEF FrameFits, DocumentAwaits, PCs
  <2>3. source \in Texts
    BY <2>2, TextsAssumption DEF TypeOK, Contents
  <2> HIDE DEF source
  <2>4. frame[h].edit[source] \in Texts
    BY <2>2, <2>3, TextsAssumption
  <2>5. f \in Frame /\ f.uri \in Uris /\ f.text \in Texts
    BY <2>2, <2>4, FrameTypes DEF Contents, EmptyFrame
  <2>6. FrameFits("liveDocs", f)
    BY <2>5 DEF FrameFits
  <2>7. /\ Run(h, "source", "liveDocs")
        /\ frame' = [frame EXCEPT ![h] = f]
        /\ UNCHANGED <<client, server, diag>>
    BY <1>1 DEF Source, source
  <2> HIDE DEF f
  <2>8. HandlersOK'
    BY <1>0, <2>5, <2>6, <2>7, MoveTypes
  <2> QED
    BY <2>7, <2>8 DEF TypeOK, client, server
<1>2. CASE SyncLiveDocs(h)
  <2>1. FrameFits("liveSyms", frame[h])
    BY <1>2 DEF SyncLiveDocs, LockDocs, Run, TypeOK, HandlersOK, FrameFits,
                DocumentAwaits, PCs
  <2>2. HandlersOK'
    BY <1>0, <1>2, <2>1, ContinueTypes DEF SyncLiveDocs, LockDocs
  <2> QED
    BY <1>2, <2>2 DEF SyncLiveDocs, LockDocs, TypeOK, client
<1>3. CASE SyncLive(h)
  <2>1. /\ FrameFits("analysis", frame[h])
        /\ frame[h].uri \in Uris
        /\ frame[h].text \in Texts
    BY <1>3 DEF SyncLive, Run, TypeOK, HandlersOK, FrameFits, DocumentAwaits, PCs
  <2>2. HandlersOK'
    BY <1>0, <1>3, <2>1, ContinueTypes DEF SyncLive
  <2> QED
    BY <1>3, <2>1, <2>2 DEF SyncLive, TypeOK, client, Contents, Live, Entry
<1>4. CASE SyncCloseDocs(h)
  <2>1. FrameFits("closeSyms", frame[h])
    BY <1>4 DEF SyncCloseDocs, LockDocs, Run, TypeOK, HandlersOK, FrameFits,
                DocumentAwaits, PCs
  <2>2. HandlersOK'
    BY <1>0, <1>4, <2>1, ContinueTypes DEF SyncCloseDocs, LockDocs
  <2> QED
    BY <1>4, <2>2 DEF SyncCloseDocs, LockDocs, TypeOK, client
<1>5. CASE SyncClose(h)
  <2>1. HandlersOK'
    BY <1>5, SendTypes DEF SyncClose, Publish
  <2> QED
    BY <1>5, <2>1 DEF SyncClose, Publish, TypeOK, client, Contents, Cleared
<1> QED
  BY <1>1, <1>2, <1>3, <1>4, <1>5

LEMMA DiagnosticsTypes ==
  ASSUME TypeOK, NEW h \in Slots,
         \/ Analysis(h) \/ PublishDiagnostics(h) \/ Flush(h)
         \/ SetConfig(h) \/ OpenUris(h)
  PROVE  TypeOK'
<1>1. CASE Analysis(h)
  <2> DEFINE t == docs[frame[h].uri]
  <2>1. frame[h].uri \in Uris /\ t \in Contents /\ frame[h] \in Frame
    BY <1>1 DEF Analysis, TypeOK, HandlersOK, FrameFits, DocumentAwaits, PCs
  <2>2. ASSUME t # NoDoc,
               Run(h, "analysis", "diagnose"),
               frame' = [frame EXCEPT ![h].text = t]
        PROVE  HandlersOK'
    <3> DEFINE f == [frame[h] EXCEPT !.text = t]
    <3>1. f \in Frame /\ f.uri = frame[h].uri /\ f.text = t
      BY <2>1, FrameUpdates DEF Frame
    <3>2. "diagnose" \in PCs /\ FrameFits("diagnose", f)
      BY <2>1, <2>2, <3>1 DEF PCs, FrameFits, Contents
    <3>3. frame' = [frame EXCEPT ![h] = f]
      BY <2>2
    <3> HIDE DEF f
    <3> QED
      BY <2>2, <3>1, <3>2, <3>3, MoveTypes
  <2>3. ASSUME NextDocument(h, "analysis")
        PROVE  HandlersOK'
    BY <2>3, NextDocumentTypes
  <2>4. HandlersOK'
    BY <1>1, <2>2, <2>3 DEF Analysis
  <2> QED
    BY <1>1, <2>4 DEF Analysis, TypeOK, client, server
<1>2. CASE PublishDiagnostics(h)
  <2>1. frame[h].text \in Texts
    BY <1>2 DEF PublishDiagnostics, Publish, Send, Run, TypeOK, HandlersOK, FrameFits
  <2>2. HandlersOK'
    BY <1>2, SendTypes DEF PublishDiagnostics, Publish
  <2> QED
    BY <1>2, <2>1, <2>2
       DEF PublishDiagnostics, Publish, Diagnose, TypeOK, client, server
<1>3. CASE Flush(h)
  <2>1. HandlersOK'
    BY <1>3, NextDocumentTypes DEF Flush
  <2> QED
    BY <1>3, <2>1 DEF Flush, TypeOK, client, server
<1>4. CASE SetConfig(h)
  <2>1. "openUris" \in PCs /\ FrameFits("openUris", frame[h])
    BY DEF PCs, FrameFits, DocumentAwaits
  <2>2. HandlersOK'
    BY <1>4, <2>1, ContinueTypes DEF SetConfig
  <2>3. config' \in Configs
    BY <1>4 DEF SetConfig, TypeOK, HandlersOK, Frame
  <2> QED
    BY <1>4, <2>2, <2>3 DEF SetConfig, TypeOK, client
<1>5. CASE OpenUris(h)
  <2>1. ASSUME Finish(h, "openUris")
        PROVE  HandlersOK'
    BY <2>1, FinishTypes
  <2>2. ASSUME NEW u \in OpenDocs,
               Run(h, "openUris", "analysis"),
               frame' = [frame EXCEPT ![h] =
                           [EmptyFrame EXCEPT !.uri = u, !.todo = OpenDocs \ {u}]]
        PROVE  HandlersOK'
    <3>1. u \in Uris /\ OpenDocs \ {u} \in SUBSET Uris
      BY DEF OpenDocs
    <3> QED
      BY <2>2, <3>1, PublishTypes
  <2>3. HandlersOK'
    BY <1>5, <2>1, <2>2 DEF OpenUris
  <2> QED
    BY <1>5, <2>3 DEF OpenUris, TypeOK, client, server
<1> QED
  BY <1>1, <1>2, <1>3, <1>4, <1>5

LEMMA BatchTypes ==
  ASSUME TypeOK, NEW h \in Slots,
         TakeSnapshot(h) \/ ReadFile(h) \/ ReadTaskLost(h) \/ ApplyBatch(h)
  PROVE  TypeOK'
<1>0. frame[h] \in Frame /\ FrameFits(pc[h], frame[h])
  BY DEF TypeOK, HandlersOK
<1>1. CASE TakeSnapshot(h)
  <2> DEFINE f == [frame[h] EXCEPT !.snap = docs]
  <2>1. f \in Frame /\ frame' = [frame EXCEPT ![h] = f]
    BY <1>0, <1>1, FrameUpdates DEF TakeSnapshot, TypeOK
  <2>2. /\ f.reads = frame[h].reads
        /\ f.batch = frame[h].batch
        /\ Len(f.batch) \in Nat
    BY <1>0 DEF Frame
  <2>3. f.reads = <<>>
    BY <1>0, <1>1, <2>2 DEF TakeSnapshot, Run, FrameFits
  <2>4. "reading" \in PCs /\ FrameFits("reading", f)
    BY <2>2, <2>3 DEF PCs, FrameFits, DocumentAwaits
  <2> HIDE DEF f
  <2>5. HandlersOK'
    BY <1>1, <2>1, <2>4, MoveTypes DEF TakeSnapshot
  <2> QED
    BY <1>1, <2>5 DEF TakeSnapshot, TypeOK, client, server
<1>2. CASE ReadFile(h)
  <2> DEFINE e == frame[h].batch[Len(frame[h].reads) + 1]
  <2>1. PICK text \in {disk[e.uri]} \cup (IF ReadErrors THEN {NoDoc} ELSE {}) :
          frame' = [frame EXCEPT ![h].reads =
                      Append(frame[h].reads, IF e.typ = "DELETED" THEN NoDoc ELSE text)]
    BY <1>2 DEF ReadFile
  <2> DEFINE reads == Append(frame[h].reads, IF e.typ = "DELETED" THEN NoDoc ELSE text)
             f == [frame[h] EXCEPT !.reads = reads]
  <2>a. frame[h].reads \in Seq(Contents) /\ frame[h].batch \in Seq(Event)
    BY <1>0 DEF Frame
  <2>b. Len(frame[h].reads) < Len(frame[h].batch)
    BY <1>2 DEF ReadFile
  <2>2. /\ Len(frame[h].reads) \in Nat
        /\ Len(frame[h].batch) \in Nat
        /\ Len(frame[h].reads) < Len(frame[h].batch)
        /\ frame[h].reads \in Seq(Contents)
        /\ frame[h].batch \in Seq(Event)
    BY <2>a, <2>b
  <2>3. e \in Event
    BY <2>2
  <2>4. text \in Contents
    BY <2>1, <2>3 DEF Event, TypeOK, Contents
  <2>5. reads \in Seq(Contents) /\ Len(reads) = Len(frame[h].reads) + 1
    BY <2>2, <2>4 DEF Contents
  <2> HIDE DEF reads
  <2>6. /\ f \in Frame
        /\ f.reads = reads
        /\ f.batch = frame[h].batch
        /\ frame' = [frame EXCEPT ![h] = f]
    BY <1>0, <2>1, <2>5, FrameUpdates DEF Frame, reads
  <2>7. FrameFits("reading", f)
    BY <2>2, <2>5, <2>6 DEF FrameFits, DocumentAwaits
  <2> HIDE DEF f
  <2>8. ASSUME NEW g \in Slots
        PROVE  frame'[g] \in Frame /\ FrameFits(pc[g], frame'[g])
    BY <1>2, <2>6, <2>7 DEF ReadFile, TypeOK, HandlersOK
  <2>9. HandlersOK'
    BY <1>2, <2>6, <2>8 DEF ReadFile, TypeOK, HandlersOK, FrameFits
  <2> QED
    BY <1>2, <2>9 DEF ReadFile, TypeOK, client, server
<1>3. CASE ReadTaskLost(h)
  <2>1. HandlersOK'
    BY <1>3, SendTypes DEF ReadTaskLost
  <2> QED
    BY <1>3, <2>1 DEF ReadTaskLost, TypeOK, client, server
<1>4. CASE ApplyBatch(h)
  <2>1. HandlersOK'
    BY <1>4, FinishTypes DEF ApplyBatch
  <2>2. \A u \in Uris : AfterBatch(frame[h], u) \in Entry \cup {NoEntry}
    BY <1>0, <1>4, EntryAfterBatch DEF ApplyBatch, TypeOK
  <2>3. syms' \in [Uris -> Entry \cup {NoEntry}]
    BY <1>4, <2>2 DEF ApplyBatch
  <2> QED
    BY <1>4, <2>1, <2>3 DEF ApplyBatch, TypeOK, client
<1> QED
  BY <1>1, <1>2, <1>3, <1>4

LEMMA RequestTypes ==
  ASSUME TypeOK, NEW h \in Slots,
         \/ HoverDocs(h) \/ CompletionConfig(h)
         \/ FormattingDocs(h) \/ FormattingConfig(h)
         \/ DefinitionDocs(h) \/ DefinitionSyms(h)
         \/ ReferencesDocs(h) \/ ReferencesAll(h) \/ ReferencesSyms(h)
         \/ SymbolSyms(h)
  PROVE  TypeOK'
<1>0. frame[h] \in Frame /\ FrameFits(pc[h], frame[h])
  BY DEF TypeOK, HandlersOK
<1>1. ASSUME HandlersOK', UNCHANGED <<client, server, diag>>
      PROVE  TypeOK'
  BY <1>1 DEF TypeOK, client, server
<1>2. ASSUME NEW from, Answer(h, from)
      PROVE  TypeOK'
  <2>1. HandlersOK'
    BY <1>2, FinishTypes, SendTypes DEF Answer
  <2> QED
    BY <1>1, <1>2, <2>1 DEF Answer
<1>3. ASSUME NEW from \in DocumentAwaits,
             NEW to \in {"formattingConfig", "definitionSyms", "referencesAll"},
             RequestDocs(h, from, to)
      PROVE  TypeOK'
  <2> DEFINE t == docs[frame[h].uri]
  <2>1. frame[h].uri \in Uris /\ t \in Contents
    BY <1>0, <1>3 DEF RequestDocs, FrameFits, TypeOK
  <2>2. ASSUME Run(h, from, to), frame' = [frame EXCEPT ![h].text = t]
        PROVE  HandlersOK'
    <3> DEFINE f == [frame[h] EXCEPT !.text = t]
    <3>1. /\ f \in Frame
          /\ f.uri = frame[h].uri
          /\ frame' = [frame EXCEPT ![h] = f]
      BY <1>0, <2>1, <2>2, FrameUpdates DEF Frame
    <3>2. to \in PCs /\ FrameFits(to, f)
      BY <2>1, <3>1 DEF PCs, FrameFits
    <3> HIDE DEF f
    <3> QED
      BY <2>2, <3>1, <3>2, MoveTypes
  <2>3. HandlersOK'
    BY <1>3, <2>2, FinishTypes DEF RequestDocs
  <2> QED
    BY <1>1, <1>3, <2>3 DEF RequestDocs
<1>4. CASE HoverDocs(h)
  <2>1. HandlersOK'
    BY <1>4, FinishTypes, SendTypes DEF HoverDocs
  <2> QED
    BY <1>1, <1>4, <2>1 DEF HoverDocs
<1>5. CASE CompletionConfig(h)
  <2>1. "hoverDocs" \in PCs /\ FrameFits("hoverDocs", frame[h])
    BY <1>0, <1>5 DEF CompletionConfig, Run, PCs, FrameFits, DocumentAwaits
  <2>2. HandlersOK'
    BY <1>5, <2>1, ContinueTypes DEF CompletionConfig
  <2> QED
    BY <1>1, <1>5, <2>2 DEF CompletionConfig
<1>6. CASE FormattingDocs(h) \/ DefinitionDocs(h) \/ ReferencesDocs(h)
  <2>1. {"formattingDocs", "definitionDocs", "referencesDocs"} \subseteq DocumentAwaits
    BY DEF DocumentAwaits, PCs
  <2> QED
    BY <1>3, <1>6, <2>1 DEF FormattingDocs, DefinitionDocs, ReferencesDocs
<1>7. CASE FormattingConfig(h) \/ DefinitionSyms(h) \/ ReferencesSyms(h) \/ SymbolSyms(h)
  BY <1>2, <1>7 DEF FormattingConfig, DefinitionSyms, ReferencesSyms, SymbolSyms
<1>8. CASE ReferencesAll(h)
  <2> DEFINE f == [frame[h] EXCEPT !.snap = docs]
  <2>1. /\ f \in Frame
        /\ f.uri = frame[h].uri
        /\ frame' = [frame EXCEPT ![h] = f]
    BY <1>0, <1>8, FrameUpdates DEF Frame, ReferencesAll, TypeOK
  <2>2. "referencesSyms" \in PCs /\ FrameFits("referencesSyms", f)
    BY <1>0, <1>8, <2>1 DEF ReferencesAll, Run, PCs, FrameFits, DocumentAwaits
  <2> HIDE DEF f
  <2>3. HandlersOK'
    BY <1>8, <2>1, <2>2, MoveTypes DEF ReferencesAll
  <2> QED
    BY <1>1, <1>8, <2>3 DEF ReferencesAll
<1> QED
  BY <1>4, <1>5, <1>6, <1>7, <1>8

LEMMA TypeInitial == Init => TypeOK
<1> SUFFICES ASSUME Init PROVE TypeOK
  OBVIOUS
<1>1. \A f : FrameFits("idle", f)
  BY DEF FrameFits, DocumentAwaits
<1>2. HandlersOK
  BY <1>1, FrameTypes DEF Init, HandlersOK, PCs
<1>3. events \in Seq(Event)
  BY DEF Init
<1> QED
  BY <1>2, <1>3, ConfigAssumption DEF Init, TypeOK, Contents

LEMMA TypeStep == TypeOK /\ [Next]_vars => TypeOK'
<1> SUFFICES ASSUME TypeOK, [Next]_vars PROVE TypeOK'
  OBVIOUS
<1>1. CASE FileSystem
  BY <1>1, FileSystemTypes
<1>2. ASSUME NEW h \in Slots, Receive(h)
      PROVE  TypeOK'
  BY <1>2, ReceiveTypes
<1>3. ASSUME NEW h \in Slots, Step(h)
      PROVE  TypeOK'
  BY <1>3, SyncTypes, DiagnosticsTypes, BatchTypes, RequestTypes DEF Step
<1>4. CASE UNCHANGED vars
  BY <1>4 DEF vars, TypeOK, HandlersOK, FrameFits
<1> QED
  BY <1>1, <1>2, <1>3, <1>4 DEF Next

(* The variables keep their types, and every handler carries the document, *)
(* text or edit the code after its .await uses.                            *)
THEOREM TypeCorrect == Spec => []TypeOK
<1> QED
  BY TypeInitial, TypeStep, PTL DEF Spec

-----------------------------------------------------------------------------
(* Who writes the two stores.                                              *)

LEMMA StoreWriters ==
  ASSUME [Next]_vars
  PROVE  \/ UNCHANGED <<docs, syms>>
         \/ \E h \in Slots : SyncLive(h) \/ SyncClose(h) \/ ApplyBatch(h)
<1>1. CASE FileSystem
  BY <1>1 DEF FileSystem, WriteFile, DeleteFile, server
<1>2. ASSUME NEW h \in Slots, Receive(h)
      PROVE  UNCHANGED <<docs, syms>>
  BY <1>2 DEF Receive, ReceiveOpen, ReceiveChange, ReceiveClose, ReceiveConfig,
              ReceiveWatched, ReceiveRequest, server
<1>3. ASSUME NEW h \in Slots, Step(h), ~ (SyncLive(h) \/ SyncClose(h) \/ ApplyBatch(h))
      PROVE  UNCHANGED <<docs, syms>>
  BY <1>3 DEF Step, Source, SyncLiveDocs, SyncCloseDocs, LockDocs, Analysis,
              PublishDiagnostics, Flush, SetConfig, OpenUris, TakeSnapshot, ReadFile,
              ReadTaskLost, HoverDocs, CompletionConfig, FormattingDocs,
              FormattingConfig, DefinitionDocs, DefinitionSyms, ReferencesDocs,
              ReferencesAll, ReferencesSyms, SymbolSyms, RequestDocs, Answer, server
<1>4. CASE UNCHANGED vars
  BY <1>4 DEF vars
<1> QED
  BY <1>1, <1>2, <1>3, <1>4 DEF Next

(* What a batch puts in the store is not live.                             *)
LEMMA BatchEntryNotLive ==
  ASSUME NEW f \in Frame, NEW u \in Uris
  PROVE  \/ AfterBatch(f, u) = syms[u]
         \/ /\ ~ IsLive(AfterBatch(f, u))
            /\ \E i \in DOMAIN f.batch : f.batch[i].uri = u /\ Applies(f, i)
<1>1. \A i : ~ IsLive(EventEntry(f, i))
  BY DEF EventEntry, IsLive, Background
<1> QED
  BY <1>1, EventApplied

LEMMA LiveEntriesStep ==
  TypeOK /\ LiveEntriesMirrorDocuments /\ [Next]_vars => LiveEntriesMirrorDocuments'
<1> SUFFICES ASSUME TypeOK, LiveEntriesMirrorDocuments, [Next]_vars,
                    NEW u \in Uris, IsLive(syms'[u])
             PROVE  syms'[u].text = docs'[u]
  BY DEF LiveEntriesMirrorDocuments, IsLive
<1>0. /\ docs \in [Uris -> Contents]
      /\ syms \in [Uris -> Entry \cup {NoEntry}]
      /\ IsLive(syms[u]) => syms[u].text = docs[u]
  BY DEF TypeOK, LiveEntriesMirrorDocuments
<1>1. CASE UNCHANGED <<docs, syms>>
  BY <1>0, <1>1
<1>2. ASSUME NEW h \in Slots, SyncLive(h)
      PROVE  syms'[u].text = docs'[u]
  BY <1>0, <1>2 DEF SyncLive, Live, IsLive
<1>3. ASSUME NEW h \in Slots, SyncClose(h)
      PROVE  syms'[u].text = docs'[u]
  BY <1>0, <1>3 DEF SyncClose, IsLive
<1>4. ASSUME NEW h \in Slots, ApplyBatch(h)
      PROVE  syms'[u].text = docs'[u]
  <2>1. frame[h] \in Frame
    BY DEF TypeOK, HandlersOK
  <2>2. syms'[u] = AfterBatch(frame[h], u) /\ docs' = docs
    BY <1>4 DEF ApplyBatch
  <2> QED
    BY <1>0, <2>1, <2>2, BatchEntryNotLive
<1> QED
  BY <1>1, <1>2, <1>3, <1>4, StoreWriters

(* A live entry of the symbol store is built from the present text of a    *)
(* document the server knows: sync_live and sync_close write both stores   *)
(* under both guards, and no batch of file events makes a live entry.      *)
THEOREM LiveEntriesCorrect == Spec => []LiveEntriesMirrorDocuments
<1>1. Init => LiveEntriesMirrorDocuments
  BY DEF Init, LiveEntriesMirrorDocuments, IsLive
<1> QED
  BY <1>1, LiveEntriesStep, TypeCorrect, PTL DEF Spec

LEMMA LiveEntryLostStep ==
  ASSUME TypeOK, [Next]_vars,
         NEW u \in Uris, IsLive(syms[u]), ~ IsLive(syms'[u]), docs'[u] # NoDoc
  PROVE  \E h \in Slots :
           /\ pc[h] = "reading" /\ pc'[h] = "idle"
           /\ \E i \in DOMAIN frame[h].batch :
                /\ frame[h].batch[i].uri = u
                /\ \/ frame[h].batch[i].typ = "DELETED"
                   \/ frame[h].snap[u] = NoDoc
<1>0. /\ docs \in [Uris -> Contents]
      /\ syms \in [Uris -> Entry \cup {NoEntry}]
  BY DEF TypeOK
<1>1. syms' # syms
  OBVIOUS
<1>2. ASSUME NEW h \in Slots, SyncLive(h)
      PROVE  FALSE
  <2>1. frame[h].text \in Texts
    BY <1>2 DEF SyncLive, Run, TypeOK, HandlersOK, FrameFits
  <2>2. IsLive(Live(frame[h].text))
    BY <2>1, EntryAssumption DEF IsLive, Live, Entry
  <2> QED
    BY <1>0, <1>2, <2>2 DEF SyncLive
<1>3. ASSUME NEW h \in Slots, SyncClose(h)
      PROVE  FALSE
  BY <1>0, <1>3 DEF SyncClose
<1>4. PICK h \in Slots : ApplyBatch(h)
  BY <1>1, <1>2, <1>3, StoreWriters
<1>5. pc[h] = "reading" /\ pc'[h] = "idle"
  BY <1>4 DEF ApplyBatch, Finish, Run, TypeOK, HandlersOK
<1>6. syms'[u] = AfterBatch(frame[h], u) /\ frame[h] \in Frame
  BY <1>4 DEF ApplyBatch, TypeOK, HandlersOK
<1>7. PICK i \in DOMAIN frame[h].batch :
        frame[h].batch[i].uri = u /\ Applies(frame[h], i)
  BY <1>6, BatchEntryNotLive
<1> QED
  BY <1>5, <1>7 DEF Applies

(* A document that stays known loses its live entry only to a batch of     *)
(* file events that names it, with a DELETED event or with a snapshot      *)
(* taken before the document was opened.                                   *)
THEOREM LiveEntryLoss == Spec => LiveEntryLostOnlyToBatch
<1>1. TypeOK /\ [Next]_vars =>
        \A u \in Uris :
          IsLive(syms[u]) /\ ~IsLive(syms[u])' /\ docs'[u] # NoDoc
            => \E h \in Slots :
                 /\ pc[h] = "reading" /\ pc'[h] = "idle"
                 /\ \E i \in DOMAIN frame[h].batch :
                      /\ frame[h].batch[i].uri = u
                      /\ \/ frame[h].batch[i].typ = "DELETED"
                         \/ frame[h].snap[u] = NoDoc
  BY LiveEntryLostStep DEF IsLive
<1> QED
  BY <1>1, TypeCorrect, PTL DEF Spec, LiveEntryLostOnlyToBatch

-----------------------------------------------------------------------------
(* One executor: while no lock .await suspends, a handler that has left a  *)
(* suspending .await is alone until it reaches the next.  So what it read  *)
(* at one .await still holds at the next, and it alone accounts for what   *)
(* is out of step between the editor, the documents and the diagnostics.   *)

Writing == {"source", "liveDocs", "liveSyms", "closeDocs", "closeSyms"}

Publishing == {"analysis", "diagnose"}

Holding ==
  {"diagnose", "formattingConfig", "definitionSyms", "referencesAll", "referencesSyms"}

(* What holds of a handler, and of the document it works on.               *)
HandlerInv(h) ==
  LET u == frame[h].uri
  IN /\ running = h <=> pc[h] \notin Suspending
     /\ pc[h] = "source" => docs[u] # NoDoc /\ frame[h].edit[docs[u]] = buffer[u]
     /\ pc[h] \in {"liveDocs", "liveSyms"} => frame[h].text = buffer[u]
     /\ pc[h] \in {"closeDocs", "closeSyms"} => buffer[u] = NoDoc
     /\ pc[h] \in Holding => frame[h].text = docs[u]
     /\ pc[h] = "referencesSyms" => frame[h].snap = docs
     /\ frame[h].todo # {} => pc[h] \in Publishing \cup {"flush"}

(* What holds of a document: who accounts for it when the server's text is *)
(* not the editor's, or the diagnostics are not those of the server's text.*)
Accounted(u) ==
  \E h \in Slots : \/ u \in frame[h].todo
                   \/ pc[h] \in Publishing /\ frame[h].uri = u
                   \/ pc[h] = "openUris"

DocumentInv(u) ==
  /\ docs[u] = buffer[u] \/ \E h \in Slots : pc[h] \in Writing /\ frame[h].uri = u
  /\ docs[u] = NoDoc => diag[u] = Cleared
  /\ diag[u] = Expected(u) \/ Accounted(u)

CoopInv ==
  /\ \A h \in Slots : HandlerInv(h)
  /\ \A u \in Uris : DocumentInv(u)

LEMMA CoopInitial == Init => CoopInv
<1>1. ASSUME Init, NEW h \in Slots
      PROVE  HandlerInv(h)
  BY <1>1, SlotsAssumption
     DEF Init, HandlerInv, Suspending, Holding, EmptyFrame
<1>2. ASSUME Init, NEW u \in Uris
      PROVE  DocumentInv(u)
  BY <1>2 DEF Init, DocumentInv, Expected, Cleared
<1> QED
  BY <1>1, <1>2 DEF CoopInv

(* The handlers that do not move stand where they stood, at an .await that *)
(* suspends, and nothing is claimed of them there but what they have left  *)
(* to publish.                                                             *)
LEMMA OthersSuspended ==
  ASSUME ~YieldAtLocks, TypeOK, CoopInv,
         NEW h \in Slots, NEW from, NEW to, NEW f,
         Run(h, from, to),
         frame' = [frame EXCEPT ![h] = f],
         NEW g \in Slots, g # h
  PROVE  /\ pc[g] \in Suspending
         /\ pc'[g] = pc[g]
         /\ frame'[g] = frame[g]
         /\ HandlerInv(g)'
<1>1. pc'[g] = pc[g] /\ frame'[g] = frame[g]
  BY DEF Run, TypeOK, HandlersOK
<1>2. running # g /\ HandlerInv(g)
  BY SlotsAssumption DEF Run, CoopInv
<1>3. pc[g] \in Suspending
  BY <1>2 DEF HandlerInv
<1>4. running' # g
  BY SlotsAssumption DEF Run
<1>5. HandlerInv(g)'
  BY <1>1, <1>2, <1>3, <1>4 DEF HandlerInv, Suspending, Holding, Publishing
<1> QED
  BY <1>1, <1>3, <1>5

(* The handler that moves: alone at a .await that does not suspend.        *)
LEMMA RunnerAlone ==
  ASSUME ~YieldAtLocks, TypeOK, NEW h \in Slots, NEW from, NEW to, Run(h, from, to)
  PROVE  /\ pc[h] = from /\ pc'[h] = to
         /\ running' = h <=> pc'[h] \notin Suspending
BY SlotsAssumption DEF Run, TypeOK, HandlersOK

LEMMA SomeoneWriting ==
  ASSUME CoopInv, NEW h \in Slots, running \in {Nobody, h},
         NEW u \in Uris, docs[u] # buffer[u]
  PROVE  pc[h] \in Writing /\ frame[h].uri = u
<1>1. PICK g \in Slots : pc[g] \in Writing /\ frame[g].uri = u
  BY DEF CoopInv, DocumentInv
<1>2. running = g
  BY <1>1 DEF CoopInv, HandlerInv, Writing, Suspending
<1> QED
  BY <1>1, <1>2, SlotsAssumption

(* A step that writes neither texts, nor diagnostics, nor configuration    *)
(* keeps every document accounted for, if its handler hands over what it   *)
(* accounted for.                                                          *)
LEMMA QuietStep ==
  ASSUME ~YieldAtLocks, TypeOK, CoopInv,
         NEW h \in Slots, NEW from, NEW to, NEW f,
         Run(h, from, to),
         frame' = [frame EXCEPT ![h] = f],
         UNCHANGED <<buffer, docs, diag, config>>,
         from \in Writing => to \in Writing /\ f.uri = frame[h].uri,
         \A v \in Uris :
           \/ v \in frame[h].todo
           \/ from \in Publishing /\ frame[h].uri = v
           \/ from = "openUris"
           => \/ v \in f.todo
              \/ to \in Publishing /\ f.uri = v
              \/ to = "openUris"
              \/ diag[v] = Expected(v),
         HandlerInv(h)'
  PROVE  CoopInv'
<1>1. ASSUME NEW g \in Slots
      PROVE  HandlerInv(g)'
  BY OthersSuspended
<1>2. ASSUME NEW u \in Uris
      PROVE  DocumentInv(u)'
  <2>0. DocumentInv(u)
    BY DEF CoopInv
  <2>1. pc[h] = from /\ pc'[h] = to /\ frame'[h] = f /\ running \in {Nobody, h}
    BY RunnerAlone DEF Run, TypeOK, HandlersOK
  <2>2. (docs[u] = buffer[u] \/ \E g \in Slots : pc[g] \in Writing /\ frame[g].uri = u)'
    <3>1. CASE docs[u] = buffer[u]
      BY <3>1
    <3>2. CASE docs[u] # buffer[u]
      BY <2>1, <3>2, SomeoneWriting
    <3> QED
      BY <3>1, <3>2
  <2>3. (docs[u] = NoDoc => diag[u] = Cleared)'
    BY <2>0 DEF DocumentInv
  <2>4. (diag[u] = Expected(u) \/ Accounted(u))'
    <3>1. CASE diag[u] = Expected(u)
      BY <3>1 DEF Expected
    <3>2. ASSUME NEW g \in Slots, g # h,
                 \/ u \in frame[g].todo
                 \/ pc[g] \in Publishing /\ frame[g].uri = u
                 \/ pc[g] = "openUris"
          PROVE  Accounted(u)'
      BY <3>2, OthersSuspended DEF Accounted
    <3>3. ASSUME \/ u \in frame[h].todo
                 \/ pc[h] \in Publishing /\ frame[h].uri = u
                 \/ pc[h] = "openUris",
                 diag[u] # Expected(u)
          PROVE  Accounted(u)'
      BY <2>1, <3>3 DEF Accounted
    <3> QED
      BY <2>0, <3>1, <3>2, <3>3 DEF DocumentInv, Accounted
  <2> QED
    BY <2>2, <2>3, <2>4 DEF DocumentInv
<1> QED
  BY <1>1, <1>2 DEF CoopInv

(* A step that moves on without anything left to publish.                  *)
LEMMA PlainStep ==
  ASSUME ~YieldAtLocks, TypeOK, CoopInv,
         NEW h \in Slots, NEW from, NEW to, NEW f,
         Run(h, from, to),
         frame' = [frame EXCEPT ![h] = f],
         UNCHANGED <<buffer, docs, diag, config>>,
         from \notin Writing \cup Publishing \cup {"openUris", "flush"},
         HandlerInv(h)'
  PROVE  CoopInv'
<1>1. frame[h].todo = {}
  BY RunnerAlone DEF CoopInv, HandlerInv
<1> QED
  BY <1>1, QuietStep

(* At an .await that suspends nothing is claimed of the handler.           *)
LEMMA AtSuspending ==
  ASSUME ~YieldAtLocks, TypeOK, NEW h \in Slots, NEW from, NEW to \in Suspending,
         NEW f, Run(h, from, to), frame' = [frame EXCEPT ![h] = f],
         f.todo # {} => to = "flush"
  PROVE  HandlerInv(h)'
<1>1. frame'[h] = f
  BY DEF TypeOK, HandlersOK
<1> QED
  BY <1>1, RunnerAlone DEF HandlerInv, Suspending, Holding, Publishing

(* The answer of a request, and every other return of a handler that has   *)
(* nothing left to publish.                                                *)
LEMMA PlainReturn ==
  ASSUME ~YieldAtLocks, TypeOK, CoopInv, NEW h \in Slots, NEW from,
         Finish(h, from) \/ Send(h, from),
         from \notin Writing \cup Publishing \cup {"openUris", "flush"},
         UNCHANGED <<buffer, docs, diag, config>>
  PROVE  CoopInv'
<1>1. CASE Finish(h, from)
  <2>1. EmptyFrame.todo = {} /\ "idle" \in Suspending
    BY DEF EmptyFrame, Suspending
  <2> QED
    BY <1>1, <2>1, AtSuspending, PlainStep DEF Finish
<1>2. CASE Send(h, from)
  <2>1. "flush" \in Suspending
    BY DEF Suspending
  <2> QED
    BY <1>2, <2>1, AtSuspending, PlainStep DEF Send
<1> QED
  BY <1>1, <1>2

(* A new message finds every handler suspended, and every text in step.    *)
LEMMA AtStart ==
  ASSUME ~YieldAtLocks, TypeOK, CoopInv,
         NEW h \in Slots, NEW to, NEW f, Start(h, to, f)
  PROVE  /\ docs = buffer
         /\ \A g \in Slots : pc[g] \in Suspending
         /\ frame[h].todo = {}
         /\ Run(h, "idle", to)
         /\ frame' = [frame EXCEPT ![h] = f]
         /\ pc'[h] = to /\ frame'[h] = f
         /\ running' = h <=> to \notin Suspending
<1>1. running = Nobody /\ Run(h, "idle", to) /\ frame' = [frame EXCEPT ![h] = f]
  BY DEF Start
<1>2. \A g \in Slots : pc[g] \in Suspending
  BY <1>1, SlotsAssumption DEF CoopInv, HandlerInv
<1>3. ASSUME NEW u \in Uris
      PROVE  docs[u] = buffer[u]
  BY <1>2 DEF CoopInv, DocumentInv, Writing, Suspending
<1>4. docs = buffer
  BY <1>3 DEF TypeOK
<1>5. frame[h].todo = {}
  BY <1>1, RunnerAlone DEF CoopInv, HandlerInv, Publishing
<1> QED
  BY <1>1, <1>2, <1>4, <1>5, RunnerAlone DEF TypeOK, HandlersOK

(* An editor message: the one document whose buffer changed is written by  *)
(* the handler that starts.                                                *)
LEMMA EditorStart ==
  ASSUME ~YieldAtLocks, TypeOK, CoopInv,
         NEW h \in Slots, NEW to \in Writing, NEW f, Start(h, to, f),
         NEW u \in Uris, f.uri = u,
         \A v \in Uris : v # u => buffer'[v] = buffer[v],
         UNCHANGED <<docs, diag, config>>,
         HandlerInv(h)'
  PROVE  CoopInv'
<1>0. /\ docs = buffer
      /\ \A g \in Slots : pc[g] \in Suspending
      /\ frame[h].todo = {}
      /\ Run(h, "idle", to)
      /\ frame' = [frame EXCEPT ![h] = f]
      /\ pc'[h] = to /\ frame'[h] = f
  BY AtStart
<1>1. ASSUME NEW g \in Slots
      PROVE  HandlerInv(g)'
  BY <1>0, OthersSuspended
<1>2. ASSUME NEW v \in Uris
      PROVE  DocumentInv(v)'
  <2>1. DocumentInv(v)
    BY DEF CoopInv
  <2>2. (docs[v] = buffer[v] \/ \E g \in Slots : pc[g] \in Writing /\ frame[g].uri = v)'
    BY <1>0
  <2>3. Expected(v)' = Expected(v)
    BY DEF Expected
  <2>4. Accounted(v) => Accounted(v)'
    <3>1. ASSUME NEW g \in Slots,
                 \/ v \in frame[g].todo
                 \/ pc[g] \in Publishing /\ frame[g].uri = v
                 \/ pc[g] = "openUris"
          PROVE  v \in frame'[g].todo
      <4>1. v \in frame[g].todo
        BY <1>0, <3>1 DEF Suspending, Publishing
      <4> QED
        BY <1>0, <4>1 DEF TypeOK, HandlersOK
    <3> QED
      BY <3>1 DEF Accounted
  <2> QED
    BY <2>1, <2>2, <2>3, <2>4 DEF DocumentInv
<1> QED
  BY <1>1, <1>2 DEF CoopInv

LEMMA CoopReceive ==
  ASSUME ~YieldAtLocks, TypeOK, CoopInv, NEW h \in Slots, Receive(h)
  PROVE  CoopInv'
<1>0. {"liveDocs", "source", "closeDocs"} \subseteq Writing
  BY DEF Writing
<1>1. ASSUME NEW u \in Uris, NEW t \in Texts, ReceiveOpen(h, u, t)
      PROVE  CoopInv'
  <2> DEFINE f == [EmptyFrame EXCEPT !.uri = u, !.text = t]
  <2>1. f.uri = u /\ f.text = t /\ f.todo = {}
    BY DEF EmptyFrame
  <2>2. Start(h, "liveDocs", f)
    BY <1>1 DEF ReceiveOpen
  <2> HIDE DEF f
  <2>3. buffer'[u] = t /\ UNCHANGED <<docs, diag, config>>
    BY <1>1 DEF ReceiveOpen, server, TypeOK
  <2>4. HandlerInv(h)'
    BY <2>1, <2>2, <2>3, AtStart DEF HandlerInv, Suspending, Holding
  <2>5. \A v \in Uris : v # u => buffer'[v] = buffer[v]
    BY <1>1 DEF ReceiveOpen, TypeOK
  <2> QED
    BY <1>0, <2>1, <2>2, <2>3, <2>4, <2>5, EditorStart
<1>2. ASSUME NEW u \in Uris, NEW e \in Edits, ReceiveChange(h, u, e)
      PROVE  CoopInv'
  <2> DEFINE f == [EmptyFrame EXCEPT !.uri = u, !.edit = e]
  <2>1. f.uri = u /\ f.edit = e /\ f.todo = {}
    BY DEF EmptyFrame
  <2>2. Start(h, "source", f)
    BY <1>2 DEF ReceiveChange
  <2> HIDE DEF f
  <2>3. /\ buffer'[u] = e[buffer[u]]
        /\ buffer[u] # NoDoc
        /\ UNCHANGED <<docs, diag, config>>
    BY <1>2 DEF ReceiveChange, server, TypeOK
  <2>4. HandlerInv(h)'
    BY <2>1, <2>2, <2>3, AtStart DEF HandlerInv, Suspending, Holding
  <2>5. \A v \in Uris : v # u => buffer'[v] = buffer[v]
    BY <1>2 DEF ReceiveChange, TypeOK
  <2> QED
    BY <1>0, <2>1, <2>2, <2>3, <2>4, <2>5, EditorStart
<1>3. ASSUME NEW u \in Uris, ReceiveClose(h, u)
      PROVE  CoopInv'
  <2> DEFINE f == [EmptyFrame EXCEPT !.uri = u]
  <2>1. f.uri = u /\ f.todo = {}
    BY DEF EmptyFrame
  <2>2. Start(h, "closeDocs", f)
    BY <1>3 DEF ReceiveClose
  <2> HIDE DEF f
  <2>3. buffer'[u] = NoDoc /\ UNCHANGED <<docs, diag, config>>
    BY <1>3 DEF ReceiveClose, server, TypeOK
  <2>4. HandlerInv(h)'
    BY <2>1, <2>2, <2>3, AtStart DEF HandlerInv, Suspending, Holding
  <2>5. \A v \in Uris : v # u => buffer'[v] = buffer[v]
    BY <1>3 DEF ReceiveClose, TypeOK
  <2> QED
    BY <1>0, <2>1, <2>2, <2>3, <2>4, <2>5, EditorStart
<1>4. ASSUME NEW to, NEW f, Start(h, to, f), f.todo = {},
             to \notin Writing \cup Holding \cup Publishing,
             UNCHANGED <<buffer, docs, diag, config>>
      PROVE  CoopInv'
  <2>1. HandlerInv(h)'
    BY <1>4, AtStart DEF HandlerInv, Writing, Holding
  <2>2. "idle" \notin Writing \cup Publishing \cup {"openUris", "flush"}
    BY DEF Writing, Publishing
  <2> QED
    BY <1>4, <2>1, <2>2, AtStart, PlainStep
<1>5. ASSUME NEW c \in Configs, ReceiveConfig(h, c)
      PROVE  CoopInv'
  <2>1. [EmptyFrame EXCEPT !.conf = c].todo = {}
    BY DEF EmptyFrame
  <2>2. "config" \notin Writing \cup Holding \cup Publishing
    BY DEF Writing, Holding, Publishing
  <2> QED
    BY <1>4, <1>5, <2>1, <2>2 DEF ReceiveConfig, client, server
<1>6. CASE ReceiveWatched(h)
  <2>1. [EmptyFrame EXCEPT !.batch = events].todo = {}
    BY DEF EmptyFrame
  <2>2. "snapshot" \notin Writing \cup Holding \cup Publishing
    BY DEF Writing, Holding, Publishing
  <2> QED
    BY <1>4, <1>6, <2>1, <2>2 DEF ReceiveWatched, server
<1>7. ASSUME NEW r \in Requests, NEW u \in Uris, ReceiveRequest(h, r, u)
      PROVE  CoopInv'
  <2>1. [EmptyFrame EXCEPT !.uri = u].todo = {}
    BY DEF EmptyFrame
  <2>2. FirstAwait[r] \notin Writing \cup Holding \cup Publishing
    BY BoundsAssumption DEF FirstAwait, Writing, Holding, Publishing
  <2> QED
    BY <1>4, <1>7, <2>1, <2>2 DEF ReceiveRequest, client, server
<1> QED
  BY <1>1, <1>2, <1>3, <1>5, <1>6, <1>7 DEF Receive

LEMMA CoopLock ==
  ASSUME ~YieldAtLocks, TypeOK, CoopInv, NEW h \in Slots,
         SyncLiveDocs(h) \/ SyncCloseDocs(h)
  PROVE  CoopInv'
<1>1. PICK from \in {"liveDocs", "closeDocs"}, to \in {"liveSyms", "closeSyms"} :
        /\ LockDocs(h, from, to)
        /\ from = "liveDocs" <=> to = "liveSyms"
  BY DEF SyncLiveDocs, SyncCloseDocs
<1>2. /\ Run(h, from, to)
      /\ frame' = [frame EXCEPT ![h] = frame[h]]
      /\ frame'[h] = frame[h]
      /\ UNCHANGED <<buffer, docs, diag, config>>
  BY <1>1 DEF LockDocs, client, TypeOK, HandlersOK
<1>3. HandlerInv(h)
  BY DEF CoopInv
<1>4. frame[h].todo = {}
  BY <1>1, <1>2, <1>3, RunnerAlone DEF HandlerInv, Publishing
<1>5. HandlerInv(h)'
  BY <1>1, <1>2, <1>3, <1>4, RunnerAlone DEF HandlerInv, Suspending, Holding
<1> HIDE DEF HandlerInv
<1> QED
  BY <1>1, <1>2, <1>4, <1>5, QuietStep DEF Writing, Publishing

LEMMA CoopSource ==
  ASSUME ~YieldAtLocks, TypeOK, CoopInv, NEW h \in Slots, Source(h)
  PROVE  CoopInv'
<1> DEFINE u == frame[h].uri
           source == IF docs[u] = NoDoc THEN EmptyText ELSE docs[u]
           f == [EmptyFrame EXCEPT !.uri = u, !.text = frame[h].edit[source]]
<1>1. /\ Run(h, "source", "liveDocs")
      /\ frame' = [frame EXCEPT ![h] = f]
      /\ UNCHANGED <<buffer, docs, diag, config>>
  BY DEF Source, client, server
<1>2. pc[h] = "source" /\ HandlerInv(h)
  BY <1>1, RunnerAlone DEF CoopInv
<1>3. /\ docs[u] # NoDoc
      /\ frame[h].edit[docs[u]] = buffer[u]
      /\ frame[h].todo = {}
  BY <1>2 DEF HandlerInv, Publishing
<1>4. source = docs[u]
  BY <1>3
<1>5. f.uri = u /\ f.text = buffer[u] /\ f.todo = {}
  BY <1>3, <1>4 DEF EmptyFrame
<1> HIDE DEF f
<1>6. frame'[h] = f /\ UNCHANGED <<buffer, docs>>
  BY <1>1 DEF TypeOK, HandlersOK
<1>7. HandlerInv(h)'
  BY <1>1, <1>5, <1>6, RunnerAlone DEF HandlerInv, Suspending, Holding
<1>8. "source" \in Writing /\ "liveDocs" \in Writing /\ "source" \notin Publishing
  BY DEF Writing, Publishing
<1> QED
  BY <1>1, <1>3, <1>5, <1>7, <1>8, QuietStep

LEMMA CoopSyncLive ==
  ASSUME ~YieldAtLocks, TypeOK, CoopInv, NEW h \in Slots, SyncLive(h)
  PROVE  CoopInv'
<1> DEFINE u == frame[h].uri
<1>1. /\ Run(h, "liveSyms", "analysis")
      /\ frame' = [frame EXCEPT ![h] = frame[h]]
      /\ frame'[h] = frame[h]
      /\ docs' = [docs EXCEPT ![u] = frame[h].text]
      /\ UNCHANGED <<buffer, diag, config>>
  BY DEF SyncLive, client, TypeOK, HandlersOK
<1>2. pc[h] = "liveSyms" /\ HandlerInv(h) /\ FrameFits(pc[h], frame[h])
  BY <1>1, RunnerAlone DEF CoopInv, TypeOK, HandlersOK
<1>3. /\ frame[h].text = buffer[u]
      /\ frame[h].todo = {}
      /\ u \in Uris
      /\ frame[h].text \in Texts
  BY <1>2 DEF HandlerInv, FrameFits, DocumentAwaits, PCs, Publishing
<1>4. docs'[u] = buffer[u] /\ docs'[u] # NoDoc
  BY <1>1, <1>3, TextsAssumption DEF TypeOK
<1>5. HandlerInv(h)'
  BY <1>1, <1>3, RunnerAlone DEF HandlerInv, Suspending, Holding
<1>6. ASSUME NEW g \in Slots
      PROVE  HandlerInv(g)'
  BY <1>1, <1>5, OthersSuspended
<1>7. ASSUME NEW v \in Uris
      PROVE  DocumentInv(v)'
  <2>1. CASE v = u
    <3>1. pc'[h] = "analysis" /\ frame'[h].uri = v
      BY <1>1, <2>1, RunnerAlone
    <3>2. Accounted(v)'
      BY <3>1 DEF Accounted, Publishing
    <3> QED
      BY <1>1, <1>4, <2>1, <3>2 DEF DocumentInv
  <2>2. CASE v # u
    <3>1. docs[v] = buffer[v] /\ DocumentInv(v)
      BY <1>1, <1>2, <2>2, SomeoneWriting DEF Run, CoopInv
    <3>2. docs'[v] = docs[v] /\ Expected(v)' = Expected(v)
      BY <1>1, <2>2 DEF TypeOK, Expected
    <3>3. Accounted(v) => Accounted(v)'
      <4>1. ASSUME NEW g \in Slots, g # h,
                   \/ v \in frame[g].todo
                   \/ pc[g] \in Publishing /\ frame[g].uri = v
                   \/ pc[g] = "openUris"
            PROVE  Accounted(v)'
        BY <1>1, <4>1, OthersSuspended DEF Accounted
      <4> QED
        BY <1>2, <1>3, <2>2, <4>1 DEF Accounted, Publishing
    <3> QED
      BY <1>1, <3>1, <3>2, <3>3 DEF DocumentInv
  <2> QED
    BY <2>1, <2>2
<1> QED
  BY <1>6, <1>7 DEF CoopInv

(* Publishing: what is sent is what is expected of the document, and the   *)
(* rest of what the handler accounts for stays to be published.            *)
LEMMA CoopPublish ==
  ASSUME ~YieldAtLocks, TypeOK, CoopInv, NEW h \in Slots,
         NEW from \in {"closeSyms", "diagnose"}, NEW u \in Uris, NEW d,
         frame[h].uri = u,
         Publish(h, from, u, d),
         UNCHANGED <<buffer, config>>,
         \A v \in Uris : v # u => docs'[v] = docs[v],
         docs'[u] = buffer[u],
         d = Expected(u)'
  PROVE  CoopInv'
<1> DEFINE f == [EmptyFrame EXCEPT !.todo = frame[h].todo]
<1>1. /\ Run(h, from, "flush")
      /\ frame' = [frame EXCEPT ![h] = f]
      /\ diag' = [diag EXCEPT ![u] = d]
  BY DEF Publish, Send
<1>2. f.todo = frame[h].todo
  BY DEF EmptyFrame
<1> HIDE DEF f
<1>3. pc[h] = from /\ frame'[h] = f /\ diag'[u] = d
  BY <1>1, RunnerAlone DEF TypeOK, HandlersOK
<1>4. "flush" \in Suspending
  BY DEF Suspending
<1>5. ASSUME NEW g \in Slots
      PROVE  HandlerInv(g)'
  BY <1>1, <1>2, <1>4, AtSuspending, OthersSuspended
<1>6. ASSUME NEW v \in Uris
      PROVE  DocumentInv(v)'
  <2>1. CASE v = u
    BY <1>3, <2>1 DEF DocumentInv, Expected
  <2>2. CASE v # u
    <3>1. docs[v] = buffer[v] /\ DocumentInv(v)
      BY <1>1, <2>2, SomeoneWriting DEF Run, CoopInv
    <3>2. docs'[v] = docs[v] /\ Expected(v)' = Expected(v) /\ diag'[v] = diag[v]
      BY <1>1, <2>2 DEF TypeOK, Expected
    <3>3. Accounted(v) => Accounted(v)'
      <4>1. ASSUME NEW g \in Slots, g # h,
                   \/ v \in frame[g].todo
                   \/ pc[g] \in Publishing /\ frame[g].uri = v
                   \/ pc[g] = "openUris"
            PROVE  Accounted(v)'
        BY <1>1, <4>1, OthersSuspended DEF Accounted
      <4>2. ASSUME \/ v \in frame[h].todo
                   \/ pc[h] \in Publishing /\ frame[h].uri = v
                   \/ pc[h] = "openUris"
            PROVE  Accounted(v)'
        <5>1. v \in frame'[h].todo
          BY <1>2, <1>3, <2>2, <4>2
        <5> QED
          BY <5>1 DEF Accounted
      <4> QED
        BY <4>1, <4>2 DEF Accounted
    <3> QED
      BY <3>1, <3>2, <3>3 DEF DocumentInv
  <2> QED
    BY <2>1, <2>2
<1> QED
  BY <1>5, <1>6 DEF CoopInv

LEMMA CoopSyncClose ==
  ASSUME ~YieldAtLocks, TypeOK, CoopInv, NEW h \in Slots, SyncClose(h)
  PROVE  CoopInv'
<1>1. Run(h, "closeSyms", "flush") /\ UNCHANGED <<buffer, config>>
  BY DEF SyncClose, Publish, Send, client
<1>2. pc[h] = "closeSyms" /\ HandlerInv(h) /\ FrameFits(pc[h], frame[h])
  BY <1>1, RunnerAlone DEF CoopInv, TypeOK, HandlersOK
<1>3. PICK u \in Uris : u = frame[h].uri
  BY <1>2 DEF FrameFits, DocumentAwaits, PCs
<1>4. Publish(h, "closeSyms", u, Cleared) /\ docs' = [docs EXCEPT ![u] = NoDoc]
  BY <1>3 DEF SyncClose
<1>5. buffer[u] = NoDoc
  BY <1>2, <1>3 DEF HandlerInv
<1>6. docs'[u] = NoDoc /\ \A v \in Uris : v # u => docs'[v] = docs[v]
  BY <1>4 DEF TypeOK
<1>7. Cleared = Expected(u)'
  BY <1>6 DEF Expected, Cleared
<1> HIDE DEF Expected, Cleared
<1> QED
  BY <1>1, <1>3, <1>4, <1>5, <1>6, <1>7, CoopPublish

LEMMA CoopPublishDiagnostics ==
  ASSUME ~YieldAtLocks, TypeOK, CoopInv, NEW h \in Slots, PublishDiagnostics(h)
  PROVE  CoopInv'
<1>1. Run(h, "diagnose", "flush") /\ UNCHANGED <<buffer, docs, config>>
  BY DEF PublishDiagnostics, Publish, Send, client, server
<1>2. pc[h] = "diagnose" /\ HandlerInv(h) /\ FrameFits(pc[h], frame[h])
  BY <1>1, RunnerAlone DEF CoopInv, TypeOK, HandlersOK
<1>3. PICK u \in Uris : u = frame[h].uri
  BY <1>2 DEF FrameFits, DocumentAwaits, PCs
<1>4. Publish(h, "diagnose", u, Diagnose(frame[h].text, config))
  BY <1>3 DEF PublishDiagnostics
<1>5. frame[h].text = docs[u] /\ docs[u] # NoDoc
  BY <1>2, <1>3, TextsAssumption DEF HandlerInv, Holding, FrameFits
<1>6. docs[u] = buffer[u]
  BY <1>1, <1>2, SomeoneWriting DEF Run, Writing
<1>7. Diagnose(frame[h].text, config) = Expected(u)'
  BY <1>1, <1>5 DEF Expected, Diagnose
<1>8. docs'[u] = buffer[u] /\ \A v \in Uris : v # u => docs'[v] = docs[v]
  BY <1>1, <1>6
<1> HIDE DEF Expected, Diagnose
<1> QED
  BY <1>1, <1>3, <1>4, <1>7, <1>8, CoopPublish

LEMMA CoopNextDocument ==
  ASSUME ~YieldAtLocks, TypeOK, CoopInv, NEW h \in Slots,
         NEW from \in {"analysis", "flush"}, NextDocument(h, from),
         UNCHANGED <<buffer, docs, diag, config>>,
         from = "analysis" => diag[frame[h].uri] = Expected(frame[h].uri)
  PROVE  CoopInv'
<1>0. from \notin Writing /\ from # "openUris"
  BY DEF Writing
<1>1. CASE frame[h].todo = {} /\ Finish(h, from)
  <2>1. Run(h, from, "idle") /\ frame' = [frame EXCEPT ![h] = EmptyFrame]
    BY <1>1 DEF Finish
  <2>2. "idle" \in Suspending /\ EmptyFrame.todo = {}
    BY DEF Suspending, EmptyFrame
  <2>3. HandlerInv(h)'
    BY <2>1, <2>2, AtSuspending
  <2> HIDE DEF Expected
  <2>4. from \in Publishing => from = "analysis"
    BY DEF Publishing
  <2> QED
    BY <1>0, <1>1, <2>1, <2>3, <2>4, QuietStep
<1>2. ASSUME NEW u \in frame[h].todo,
             Run(h, from, "analysis"),
             frame' = [frame EXCEPT ![h] =
                         [EmptyFrame EXCEPT !.uri = u, !.todo = frame[h].todo \ {u}]]
      PROVE  CoopInv'
  <2> DEFINE f == [EmptyFrame EXCEPT !.uri = u, !.todo = frame[h].todo \ {u}]
  <2>1. f.uri = u /\ f.todo = frame[h].todo \ {u}
    BY DEF EmptyFrame
  <2>2. frame' = [frame EXCEPT ![h] = f]
    BY <1>2
  <2> HIDE DEF f
  <2>3. frame'[h] = f
    BY <2>2 DEF TypeOK, HandlersOK
  <2>4. HandlerInv(h)'
    BY <1>2, <2>1, <2>3, RunnerAlone DEF HandlerInv, Suspending, Holding, Publishing
  <2>5. "analysis" \in Publishing /\ (from \in Publishing => from = "analysis")
    BY DEF Publishing
  <2> QED
    BY <1>0, <1>2, <2>1, <2>2, <2>4, <2>5, QuietStep
<1> QED
  BY <1>1, <1>2 DEF NextDocument

LEMMA CoopAnalysis ==
  ASSUME ~YieldAtLocks, TypeOK, CoopInv, NEW h \in Slots, Analysis(h)
  PROVE  CoopInv'
<1> DEFINE u == frame[h].uri
           t == docs[u]
<1>1. pc[h] = "analysis" /\ UNCHANGED <<buffer, docs, diag, config>>
  BY DEF Analysis, client, server
<1>2. u \in Uris /\ HandlerInv(h) /\ DocumentInv(u) /\ frame[h] \in Frame
  BY <1>1 DEF CoopInv, TypeOK, HandlersOK, FrameFits, DocumentAwaits, PCs
<1>3. ASSUME t = NoDoc, NextDocument(h, "analysis")
      PROVE  CoopInv'
  <2>1. diag[u] = Expected(u)
    BY <1>2, <1>3 DEF DocumentInv, Expected
  <2> HIDE DEF Expected
  <2> QED
    BY <1>1, <1>3, <2>1, CoopNextDocument
<1>4. ASSUME t # NoDoc,
             Run(h, "analysis", "diagnose"),
             frame' = [frame EXCEPT ![h].text = t]
      PROVE  CoopInv'
  <2> DEFINE f == [frame[h] EXCEPT !.text = t]
  <2>1. f.uri = u /\ f.text = t /\ f.todo = frame[h].todo
    BY <1>2 DEF Frame
  <2>2. frame' = [frame EXCEPT ![h] = f]
    BY <1>4
  <2> HIDE DEF f
  <2>3. frame'[h] = f
    BY <2>2 DEF TypeOK, HandlersOK
  <2>4. HandlerInv(h)'
    BY <1>1, <1>4, <2>1, <2>3, RunnerAlone
       DEF HandlerInv, Suspending, Holding, Publishing
  <2>5. /\ "analysis" \in Publishing /\ "diagnose" \in Publishing
        /\ "analysis" \notin Writing
    BY DEF Publishing, Writing
  <2>6. \A v \in Uris :
          \/ v \in frame[h].todo
          \/ "analysis" \in Publishing /\ frame[h].uri = v
          \/ "analysis" = "openUris"
          => v \in f.todo \/ ("diagnose" \in Publishing /\ f.uri = v)
    BY <2>1, <2>5
  <2>7. Run(h, "analysis", "diagnose")
    BY <1>4
  <2> HIDE DEF u, t
  <2> QED
    BY <1>1, <2>2, <2>4, <2>5, <2>6, <2>7, QuietStep
<1> QED
  BY <1>3, <1>4 DEF Analysis

LEMMA CoopSetConfig ==
  ASSUME ~YieldAtLocks, TypeOK, CoopInv, NEW h \in Slots, SetConfig(h)
  PROVE  CoopInv'
<1>1. /\ Run(h, "config", "openUris")
      /\ frame' = [frame EXCEPT ![h] = frame[h]]
      /\ UNCHANGED <<buffer, docs, diag>>
  BY DEF SetConfig, client, TypeOK, HandlersOK
<1>2. pc[h] = "config" /\ pc'[h] = "openUris" /\ HandlerInv(h)
  BY <1>1, RunnerAlone DEF CoopInv
<1>3. frame[h].todo = {} /\ frame'[h] = frame[h]
  BY <1>1, <1>2 DEF HandlerInv, Publishing, TypeOK, HandlersOK
<1>4. HandlerInv(h)'
  BY <1>1, <1>2, <1>3, RunnerAlone DEF HandlerInv, Suspending, Holding
<1>5. ASSUME NEW g \in Slots
      PROVE  HandlerInv(g)'
  BY <1>1, <1>4, OthersSuspended
<1>6. ASSUME NEW v \in Uris
      PROVE  DocumentInv(v)'
  <2>1. docs[v] = buffer[v] /\ DocumentInv(v)
    BY <1>1, <1>2, SomeoneWriting DEF Run, Writing, CoopInv
  <2>2. Accounted(v)'
    BY <1>2 DEF Accounted
  <2> QED
    BY <1>1, <2>1, <2>2 DEF DocumentInv
<1> QED
  BY <1>5, <1>6 DEF CoopInv

LEMMA CoopOpenUris ==
  ASSUME ~YieldAtLocks, TypeOK, CoopInv, NEW h \in Slots, OpenUris(h)
  PROVE  CoopInv'
<1>1. UNCHANGED <<buffer, docs, diag, config>>
  BY DEF OpenUris, client, server
<1>2. \A v \in Uris : v \in OpenDocs \/ diag[v] = Expected(v)
  BY DEF CoopInv, DocumentInv, OpenDocs, Expected
<1>3. "openUris" \notin Writing \cup Publishing
  BY DEF Writing, Publishing
<1>4. ASSUME Run(h, "openUris", "idle") PROVE frame[h].todo = {}
  BY <1>4, RunnerAlone DEF CoopInv, HandlerInv, Publishing
<1>5. ASSUME Run(h, "openUris", "analysis") PROVE frame[h].todo = {}
  BY <1>5, RunnerAlone DEF CoopInv, HandlerInv, Publishing
<1>6. CASE OpenDocs = {} /\ Finish(h, "openUris")
  <2>1. Run(h, "openUris", "idle") /\ frame' = [frame EXCEPT ![h] = EmptyFrame]
    BY <1>6 DEF Finish
  <2>2. "idle" \in Suspending /\ EmptyFrame.todo = {}
    BY DEF Suspending, EmptyFrame
  <2>3. HandlerInv(h)'
    BY <2>1, <2>2, AtSuspending
  <2> HIDE DEF Expected
  <2> QED
    BY <1>1, <1>2, <1>3, <1>4, <1>6, <2>1, <2>3, QuietStep
<1>7. ASSUME NEW u \in OpenDocs,
             Run(h, "openUris", "analysis"),
             frame' = [frame EXCEPT ![h] =
                         [EmptyFrame EXCEPT !.uri = u, !.todo = OpenDocs \ {u}]]
      PROVE  CoopInv'
  <2> DEFINE f == [EmptyFrame EXCEPT !.uri = u, !.todo = OpenDocs \ {u}]
  <2>1. f.uri = u /\ f.todo = OpenDocs \ {u}
    BY DEF EmptyFrame
  <2>2. frame' = [frame EXCEPT ![h] = f]
    BY <1>7
  <2> HIDE DEF f
  <2>3. frame'[h] = f
    BY <2>2 DEF TypeOK, HandlersOK
  <2>4. HandlerInv(h)'
    BY <1>7, <2>1, <2>3, RunnerAlone DEF HandlerInv, Suspending, Holding, Publishing
  <2>5. "analysis" \in Publishing
    BY DEF Publishing
  <2>6. \A v \in Uris :
          \/ v \in frame[h].todo
          \/ "openUris" \in Publishing /\ frame[h].uri = v
          \/ "openUris" = "openUris"
          => \/ v \in f.todo
             \/ "analysis" \in Publishing /\ f.uri = v
             \/ diag[v] = Expected(v)
    BY <1>2, <2>1, <2>5
  <2>7. Run(h, "openUris", "analysis")
    BY <1>7
  <2> QED
    BY <1>1, <1>3, <2>2, <2>4, <2>6, <2>7, QuietStep
<1> QED
  BY <1>6, <1>7 DEF OpenUris

LEMMA CoopBatch ==
  ASSUME ~YieldAtLocks, TypeOK, CoopInv, NEW h \in Slots,
         TakeSnapshot(h) \/ ReadFile(h) \/ ReadTaskLost(h) \/ ApplyBatch(h)
  PROVE  CoopInv'
<1>0. {"snapshot", "reading"} \cap (Writing \cup Publishing \cup {"openUris", "flush"}) = {}
  BY DEF Writing, Publishing
<1>1. CASE TakeSnapshot(h)
  <2> DEFINE f == [frame[h] EXCEPT !.snap = docs]
  <2>1. /\ Run(h, "snapshot", "reading")
        /\ frame' = [frame EXCEPT ![h] = f]
        /\ UNCHANGED <<buffer, docs, diag, config>>
    BY <1>1 DEF TakeSnapshot, client, server
  <2>2. f.todo = frame[h].todo
    BY DEF TypeOK, HandlersOK, Frame
  <2>3. frame[h].todo = {} /\ "reading" \in Suspending
    BY <2>1, RunnerAlone DEF CoopInv, HandlerInv, Publishing, Suspending
  <2> HIDE DEF f
  <2> QED
    BY <1>0, <2>1, <2>2, <2>3, AtSuspending, PlainStep
<1>2. CASE ReadFile(h)
  <2>1. UNCHANGED <<buffer, docs, diag, config, pc, running>> /\ pc[h] = "reading"
    BY <1>2 DEF ReadFile, client, server
  <2>2. PICK r : frame' = [frame EXCEPT ![h].reads = r]
    BY <1>2 DEF ReadFile
  <2>3. \A g \in Slots : /\ frame'[g].todo = frame[g].todo
                         /\ frame'[g].uri = frame[g].uri
                         /\ g # h => frame'[g] = frame[g]
    BY <2>2 DEF TypeOK, HandlersOK, Frame
  <2>4. ASSUME NEW g \in Slots
        PROVE  HandlerInv(g)'
    <3>1. HandlerInv(g)
      BY DEF CoopInv
    <3>2. CASE g = h
      BY <2>1, <2>3, <3>1, <3>2 DEF HandlerInv, Holding, Publishing
    <3>3. CASE g # h
      BY <2>1, <2>3, <3>1, <3>3 DEF HandlerInv
    <3> QED
      BY <3>2, <3>3
  <2>5. ASSUME NEW u \in Uris
        PROVE  DocumentInv(u)'
    <3>1. DocumentInv(u) /\ Expected(u)' = Expected(u)
      BY <2>1 DEF CoopInv, Expected
    <3>2. Accounted(u) => Accounted(u)'
      BY <2>1, <2>3 DEF Accounted
    <3> QED
      BY <2>1, <2>3, <3>1, <3>2 DEF DocumentInv
  <2> QED
    BY <2>4, <2>5 DEF CoopInv
<1>3. CASE ReadTaskLost(h)
  <2>1. UNCHANGED <<buffer, docs, diag, config>> /\ Send(h, "reading")
    BY <1>3 DEF ReadTaskLost, client, server
  <2> QED
    BY <1>0, <2>1, PlainReturn
<1>4. CASE ApplyBatch(h)
  <2>1. UNCHANGED <<buffer, docs, diag, config>> /\ Finish(h, "reading")
    BY <1>4 DEF ApplyBatch, client
  <2> QED
    BY <1>0, <2>1, PlainReturn
<1> QED
  BY <1>1, <1>2, <1>3, <1>4

LEMMA CoopRequest ==
  ASSUME ~YieldAtLocks, TypeOK, CoopInv, NEW h \in Slots,
         \/ HoverDocs(h) \/ CompletionConfig(h)
         \/ FormattingDocs(h) \/ FormattingConfig(h)
         \/ DefinitionDocs(h) \/ DefinitionSyms(h)
         \/ ReferencesDocs(h) \/ ReferencesAll(h) \/ ReferencesSyms(h)
         \/ SymbolSyms(h)
  PROVE  CoopInv'
<1> DEFINE Moving == Writing \cup Publishing \cup {"openUris", "flush"}
<1>0. /\ "hoverDocs" \notin Moving /\ "completionConfig" \notin Moving
      /\ "formattingDocs" \notin Moving /\ "formattingConfig" \notin Moving
      /\ "definitionDocs" \notin Moving /\ "definitionSyms" \notin Moving
      /\ "referencesDocs" \notin Moving /\ "referencesAll" \notin Moving
      /\ "referencesSyms" \notin Moving /\ "symbolSyms" \notin Moving
  BY DEF Writing, Publishing
<1> HIDE DEF Moving
<1>1. UNCHANGED <<buffer, docs, diag, config>>
  BY DEF HoverDocs, CompletionConfig, FormattingDocs, FormattingConfig,
         DefinitionDocs, DefinitionSyms, ReferencesDocs, ReferencesAll,
         ReferencesSyms, SymbolSyms, RequestDocs, Answer, client, server
<1>2. ASSUME NEW from, from \notin Moving, Finish(h, from) \/ Send(h, from)
      PROVE  CoopInv'
  BY <1>1, <1>2, PlainReturn DEF Moving
<1>3. ASSUME NEW from, from \notin Moving,
             NEW to \in {"formattingConfig", "definitionSyms", "referencesAll"},
             RequestDocs(h, from, to)
      PROVE  CoopInv'
  <2>1. CASE Finish(h, from)
    BY <1>2, <1>3, <2>1
  <2>2. ASSUME Run(h, from, to), frame' = [frame EXCEPT ![h].text = docs[frame[h].uri]]
        PROVE  CoopInv'
    <3> DEFINE f == [frame[h] EXCEPT !.text = docs[frame[h].uri]]
    <3>1. /\ f.uri = frame[h].uri
          /\ f.text = docs[frame[h].uri]
          /\ f.todo = frame[h].todo
      BY DEF TypeOK, HandlersOK, Frame
    <3>2. frame' = [frame EXCEPT ![h] = f]
      BY <2>2
    <3> HIDE DEF f
    <3>3. frame'[h] = f
      BY <3>2 DEF TypeOK, HandlersOK
    <3>4. pc[h] = from /\ Run(h, from, to)
      BY <2>2, RunnerAlone
    <3>5. frame[h].todo = {}
      BY <1>3, <3>4 DEF CoopInv, HandlerInv, Moving
    <3>6. HandlerInv(h)'
      BY <1>1, <1>3, <3>1, <3>3, <3>4, <3>5, RunnerAlone DEF HandlerInv, Suspending
    <3> QED
      BY <1>1, <1>3, <3>2, <3>4, <3>6, PlainStep DEF Moving
  <2> QED
    BY <1>3, <2>1, <2>2 DEF RequestDocs
<1>4. CASE HoverDocs(h)
  BY <1>0, <1>2, <1>4 DEF HoverDocs
<1>5. CASE CompletionConfig(h)
  <2>1. /\ Run(h, "completionConfig", "hoverDocs")
        /\ frame' = [frame EXCEPT ![h] = frame[h]]
        /\ frame'[h] = frame[h]
    BY <1>5 DEF CompletionConfig, TypeOK, HandlersOK
  <2>2. frame[h].todo = {}
    BY <1>0, <2>1, RunnerAlone DEF CoopInv, HandlerInv, Moving
  <2>3. HandlerInv(h)'
    BY <2>1, <2>2, RunnerAlone DEF HandlerInv, Suspending, Holding
  <2> QED
    BY <1>0, <1>1, <2>1, <2>3, PlainStep DEF Moving
<1>6. CASE FormattingDocs(h) \/ DefinitionDocs(h) \/ ReferencesDocs(h)
  BY <1>0, <1>3, <1>6 DEF FormattingDocs, DefinitionDocs, ReferencesDocs
<1>7. CASE FormattingConfig(h) \/ DefinitionSyms(h) \/ ReferencesSyms(h) \/ SymbolSyms(h)
  BY <1>0, <1>2, <1>7
     DEF FormattingConfig, DefinitionSyms, ReferencesSyms, SymbolSyms, Answer
<1>8. CASE ReferencesAll(h)
  <2> DEFINE f == [frame[h] EXCEPT !.snap = docs]
  <2>1. /\ Run(h, "referencesAll", "referencesSyms")
        /\ frame' = [frame EXCEPT ![h] = f]
    BY <1>8 DEF ReferencesAll
  <2>2. /\ f.uri = frame[h].uri /\ f.text = frame[h].text
        /\ f.snap = docs /\ f.todo = frame[h].todo
    BY DEF TypeOK, HandlersOK, Frame
  <2> HIDE DEF f
  <2>3. frame'[h] = f /\ pc[h] = "referencesAll" /\ HandlerInv(h)
    BY <2>1, RunnerAlone DEF TypeOK, HandlersOK, CoopInv
  <2>4. frame[h].todo = {} /\ frame[h].text = docs[frame[h].uri]
    BY <2>3 DEF HandlerInv, Holding, Publishing
  <2>5. HandlerInv(h)'
    BY <1>1, <2>1, <2>2, <2>3, <2>4, RunnerAlone DEF HandlerInv, Suspending
  <2> QED
    BY <1>0, <1>1, <2>1, <2>5, PlainStep DEF Moving
<1> QED
  BY <1>4, <1>5, <1>6, <1>7, <1>8

LEMMA CoopFlush ==
  ASSUME ~YieldAtLocks, TypeOK, CoopInv, NEW h \in Slots, Flush(h)
  PROVE  CoopInv'
<1>1. NextDocument(h, "flush") /\ UNCHANGED <<buffer, docs, diag, config>>
  BY DEF Flush, client, server
<1> QED
  BY <1>1, CoopNextDocument

LEMMA CoopUnchanged ==
  ASSUME CoopInv, UNCHANGED <<buffer, docs, config, diag, pc, frame, running>>
  PROVE  CoopInv'
<1>1. ASSUME NEW g \in Slots PROVE HandlerInv(g)'
  BY DEF CoopInv, HandlerInv
<1>2. ASSUME NEW u \in Uris PROVE DocumentInv(u)'
  BY DEF CoopInv, DocumentInv, Accounted, Expected
<1> QED
  BY <1>1, <1>2 DEF CoopInv

LEMMA CoopStep ==
  ~YieldAtLocks /\ TypeOK /\ CoopInv /\ [Next]_vars => CoopInv'
<1> SUFFICES ASSUME ~YieldAtLocks, TypeOK, CoopInv, [Next]_vars
             PROVE  CoopInv'
  OBVIOUS
<1>1. CASE FileSystem
  <2>1. UNCHANGED <<buffer, docs, config, diag, pc, frame, running>>
    BY <1>1 DEF FileSystem, WriteFile, DeleteFile, server
  <2> QED
    BY <2>1, CoopUnchanged
<1>2. ASSUME NEW h \in Slots, Receive(h)
      PROVE  CoopInv'
  BY <1>2, CoopReceive
<1>3. ASSUME NEW h \in Slots, Step(h)
      PROVE  CoopInv'
  BY <1>3, CoopSource, CoopLock, CoopSyncLive, CoopSyncClose, CoopAnalysis,
     CoopPublishDiagnostics, CoopFlush, CoopSetConfig, CoopOpenUris, CoopBatch,
     CoopRequest DEF Step
<1>4. CASE UNCHANGED vars
  BY <1>4, CoopUnchanged DEF vars
<1> QED
  BY <1>1, <1>2, <1>3, <1>4 DEF Next

(* While no lock .await suspends, whatever is out of step between editor,  *)
(* documents and diagnostics is accounted for by a handler under way.      *)
THEOREM CoopCorrect == Spec => [](~YieldAtLocks => CoopInv)
<1>1. Init => (~YieldAtLocks => CoopInv)
  BY CoopInitial
<1>2. TypeOK /\ (~YieldAtLocks => CoopInv) /\ [Next]_vars => (~YieldAtLocks => CoopInv)'
  BY CoopStep
<1> QED
  BY <1>1, <1>2, TypeCorrect, PTL DEF Spec

LEMMA AllSuspended ==
  ASSUME CoopInv, running = Nobody, NEW h \in Slots
  PROVE  pc[h] \in Suspending
BY SlotsAssumption DEF CoopInv, HandlerInv

(* No edit is lost, applied twice or applied to another base: between      *)
(* messages the server's documents are the editor's buffers.               *)
THEOREM DocumentsCorrect == Spec => []DocumentsMatchEditor
<1>1. TypeOK /\ (~YieldAtLocks => CoopInv) => DocumentsMatchEditor
  <2> SUFFICES ASSUME TypeOK, CoopInv, running = Nobody
               PROVE  docs = buffer
    BY DEF DocumentsMatchEditor
  <2>1. ASSUME NEW u \in Uris
        PROVE  docs[u] = buffer[u]
    BY AllSuspended DEF CoopInv, DocumentInv, Writing, Suspending
  <2> QED
    BY <2>1 DEF TypeOK
<1> QED
  BY <1>1, TypeCorrect, CoopCorrect, PTL

(* Between messages a document's diagnostics are those of its text under   *)
(* the present configuration, or a handler still has it to publish.        *)
THEOREM DiagnosticsCorrect == Spec => []DiagnosticsCurrent
<1>1. (~YieldAtLocks => CoopInv) => DiagnosticsCurrent
  <2> SUFFICES ASSUME CoopInv, running = Nobody, NEW u \in Uris
               PROVE  diag[u] = Expected(u) \/ \E h \in Slots : u \in frame[h].todo
    BY DEF DiagnosticsCurrent
  <2>1. diag[u] = Expected(u) \/ Accounted(u)
    BY DEF CoopInv, DocumentInv
  <2> QED
    BY <2>1, AllSuspended DEF Accounted, Publishing, Suspending
<1> QED
  BY <1>1, CoopCorrect, PTL

(* A read-only request answers from the present text of its document, and  *)
(* references() from a snapshot that agrees with the symbol store.         *)
THEOREM RequestsCorrect == Spec => []RequestsSeeOneState
<1>1. /\ LiveEntriesMirrorDocuments
      /\ ~YieldAtLocks => CoopInv
      => RequestsSeeOneState
  BY DEF RequestsSeeOneState, LiveEntriesMirrorDocuments, CoopInv, HandlerInv, Holding
<1> QED
  BY <1>1, LiveEntriesCorrect, CoopCorrect, PTL

------------------------------------------------------------------------------
(***************************************************************************)
(* What the symbol store holds of the files that are not open: the         *)
(* watched-file events and the batches they are handled in.                *)
(***************************************************************************)

InBatch == {"snapshot", "reading"}

(* The last event that s holds for u.                                      *)
IsLast(s, u, i) ==
  /\ i \in DOMAIN s
  /\ s[i].uri = u
  /\ \A j \in DOMAIN s : s[j].uri = u => j <= i

Mentions(s, u) == \E i \in DOMAIN s : s[i].uri = u

(* The last event for a file tells whether it is there, d being its text.  *)
TellsDisk(s, u, d) ==
  \A i \in DOMAIN s : IsLast(s, u, i) => (s[i].typ = "DELETED" <=> d = NoDoc)

(* A batch that no later event for u follows: its last event tells whether *)
(* the file is there, and was read as the file is.  While the snapshot has *)
(* u open and u is closed, the store has no entry: closing removed it.     *)
BatchInv(h, u) ==
  pc[h] \in InBatch =>
    /\ ~Mentions(events, u) =>
         /\ TellsDisk(frame[h].batch, u, disk[u])
         /\ \A i \in DOMAIN frame[h].reads :
              IsLast(frame[h].batch, u, i) /\ frame[h].batch[i].typ # "DELETED"
                => frame[h].reads[i] = disk[u]
    /\ pc[h] = "reading" /\ frame[h].snap[u] # NoDoc /\ docs[u] = NoDoc
         => syms[u] = NoEntry

(* No event for u is on its way.                                           *)
Settled(u) ==
  /\ ~Mentions(events, u)
  /\ \A h \in Slots : pc[h] \in InBatch => ~Mentions(frame[h].batch, u)

FileInv(u) ==
  /\ TellsDisk(events, u, disk[u])
  /\ \A h \in Slots : BatchInv(h, u)
  /\ Settled(u) /\ docs[u] = NoDoc => syms[u] \in {NoEntry, Background(disk[u])}

BatchInvariant ==
  /\ \A g, h \in Slots : pc[g] \in InBatch /\ pc[h] \in InBatch => g = h
  /\ \A u \in Uris : FileInv(u)

-----------------------------------------------------------------------------

LEMMA LastMention ==
  ASSUME NEW s \in Seq(Event), NEW u, Mentions(s, u)
  PROVE  \E i \in DOMAIN s : IsLast(s, u, i)
<1> DEFINE S == {i \in 1 .. Len(s) : s[i].uri = u}
<1>1. S \in SUBSET (1 .. Len(s)) /\ S # {} /\ DOMAIN s = 1 .. Len(s) /\ Len(s) \in Nat
  BY DEF Mentions
<1>2. PICK i \in S : \A j \in S : j <= i
  BY <1>1, LastPosition
<1> QED
  BY <1>1, <1>2 DEF IsLast

(* An event appended is the last for its file, and says nothing of others. *)
LEMMA AppendedEvent ==
  ASSUME NEW s \in Seq(Event), NEW e \in Event
  PROVE  /\ Mentions(Append(s, e), e.uri)
         /\ \A i \in DOMAIN Append(s, e) :
              IsLast(Append(s, e), e.uri, i) => Append(s, e)[i] = e
         /\ \A v \in Uris \ {e.uri} :
              /\ Mentions(Append(s, e), v) <=> Mentions(s, v)
              /\ \A i \in DOMAIN Append(s, e) :
                   IsLast(Append(s, e), v, i)
                     => i \in DOMAIN s /\ IsLast(s, v, i) /\ Append(s, e)[i] = s[i]
<1> DEFINE t == Append(s, e)
<1>1. /\ Len(s) \in Nat /\ DOMAIN s = 1 .. Len(s)
      /\ DOMAIN t = 1 .. (Len(s) + 1)
      /\ t[Len(s) + 1] = e
      /\ \A i \in DOMAIN s : t[i] = s[i]
  OBVIOUS
<1> HIDE DEF t
<1>2. Mentions(t, e.uri)
  BY <1>1 DEF Mentions
<1>3. ASSUME NEW i \in DOMAIN t, IsLast(t, e.uri, i)
      PROVE  t[i] = e
  BY <1>1, <1>3 DEF IsLast
<1>4. ASSUME NEW v \in Uris \ {e.uri}
      PROVE  /\ Mentions(t, v) <=> Mentions(s, v)
             /\ \A i \in DOMAIN t :
                  IsLast(t, v, i) => i \in DOMAIN s /\ IsLast(s, v, i) /\ t[i] = s[i]
  <2>1. \A i \in DOMAIN t : t[i].uri = v => i \in DOMAIN s
    BY <1>1
  <2> QED
    BY <1>1, <2>1 DEF Mentions, IsLast
<1> QED
  BY <1>2, <1>3, <1>4 DEF t

LEMMA BatchInitial == Init => BatchInvariant
<1> SUFFICES ASSUME Init PROVE BatchInvariant
  OBVIOUS
<1>1. \A h \in Slots : pc[h] \notin InBatch
  BY DEF Init, InBatch
<1>2. ASSUME NEW u \in Uris PROVE FileInv(u)
  BY <1>1 DEF Init, FileInv, BatchInv, TellsDisk
<1> QED
  BY <1>1, <1>2 DEF BatchInvariant

-----------------------------------------------------------------------------
(* Steps that neither begin nor end a batch nor touch a file: closing a    *)
(* document leaves no entry, and nothing else closes one.                  *)

LEMMA QuietFileStep ==
  ASSUME BatchInvariant,
         UNCHANGED <<disk, events>>,
         \A g \in Slots : /\ pc'[g] \in InBatch <=> pc[g] \in InBatch
                          /\ pc[g] \in InBatch => pc'[g] = pc[g] /\ frame'[g] = frame[g],
         \A u \in Uris : docs'[u] = NoDoc =>
           \/ syms'[u] = NoEntry
           \/ docs[u] = NoDoc /\ syms'[u] = syms[u]
  PROVE  BatchInvariant'
<1>1. \A g, h \in Slots : pc'[g] \in InBatch /\ pc'[h] \in InBatch => g = h
  BY DEF BatchInvariant
<1>2. ASSUME NEW u \in Uris PROVE FileInv(u)'
  <2>1. FileInv(u)
    BY DEF BatchInvariant
  <2>2. TellsDisk(events', u, disk'[u])
    BY <2>1 DEF FileInv, TellsDisk
  <2>3. ASSUME NEW h \in Slots PROVE BatchInv(h, u)'
    <3>1. BatchInv(h, u)
      BY <2>1 DEF FileInv
    <3> QED
      BY <3>1 DEF BatchInv, TellsDisk, InBatch
  <2>4. Settled(u)' => Settled(u)
    BY DEF Settled
  <2> QED
    BY <2>1, <2>2, <2>3, <2>4 DEF FileInv
<1> QED
  BY <1>1, <1>2 DEF BatchInvariant

(* A handler that moves between two .awaits outside of a batch.            *)
LEMMA RunOutside ==
  ASSUME TypeOK, NEW h \in Slots, NEW from, NEW to, NEW f,
         from \notin InBatch, to \notin InBatch,
         Run(h, from, to),
         frame' = [frame EXCEPT ![h] = f]
  PROVE  \A g \in Slots : /\ pc'[g] \in InBatch <=> pc[g] \in InBatch
                          /\ pc[g] \in InBatch => pc'[g] = pc[g] /\ frame'[g] = frame[g]
BY DEF Run, TypeOK, HandlersOK

(* The documents change in two places, and closing one removes its entry.  *)
LEMMA DocumentWriters ==
  ASSUME TypeOK, LiveEntriesMirrorDocuments, NEW h \in Slots, NEW u \in Uris,
         SyncLive(h) \/ SyncClose(h) \/ UNCHANGED <<docs, syms>>,
         docs'[u] = NoDoc
  PROVE  \/ syms'[u] = NoEntry
         \/ docs[u] = NoDoc /\ syms'[u] = syms[u]
<1>0. docs \in [Uris -> Contents] /\ syms \in [Uris -> Entry \cup {NoEntry}]
  BY DEF TypeOK
<1>1. CASE SyncLive(h)
  <2>1. frame[h].text # NoDoc /\ frame[h].uri \in Uris
    BY <1>1, TextsAssumption
       DEF SyncLive, Run, TypeOK, HandlersOK, FrameFits, DocumentAwaits, PCs
  <2> QED
    BY <1>0, <1>1, <2>1 DEF SyncLive
<1>2. CASE SyncClose(h)
  BY <1>0, <1>2 DEF SyncClose
<1> QED
  BY <1>0, <1>1, <1>2

LEMMA QuietHandlerStep ==
  ASSUME TypeOK, LiveEntriesMirrorDocuments, BatchInvariant,
         NEW h \in Slots, NEW from, NEW to, NEW f,
         from \notin InBatch, to \notin InBatch,
         Run(h, from, to),
         frame' = [frame EXCEPT ![h] = f],
         UNCHANGED <<disk, events>>,
         SyncLive(h) \/ SyncClose(h) \/ UNCHANGED <<docs, syms>>
  PROVE  BatchInvariant'
<1>1. \A g \in Slots : /\ pc'[g] \in InBatch <=> pc[g] \in InBatch
                       /\ pc[g] \in InBatch => pc'[g] = pc[g] /\ frame'[g] = frame[g]
  BY RunOutside
<1>2. \A u \in Uris : docs'[u] = NoDoc =>
        \/ syms'[u] = NoEntry
        \/ docs[u] = NoDoc /\ syms'[u] = syms[u]
  BY DocumentWriters
<1> QED
  BY <1>1, <1>2, QuietFileStep

LEMMA QuietReturn ==
  ASSUME TypeOK, LiveEntriesMirrorDocuments, BatchInvariant,
         NEW h \in Slots, NEW from, from \notin InBatch,
         NextDocument(h, from) \/ Finish(h, from) \/ Send(h, from),
         UNCHANGED <<disk, events>>,
         SyncClose(h) \/ UNCHANGED <<docs, syms>>
  PROVE  BatchInvariant'
<1>1. "idle" \notin InBatch /\ "flush" \notin InBatch /\ "analysis" \notin InBatch
  BY DEF InBatch
<1>2. CASE Finish(h, from)
  BY <1>1, <1>2, QuietHandlerStep DEF Finish
<1>3. CASE Send(h, from)
  BY <1>1, <1>3, QuietHandlerStep DEF Send
<1>4. ASSUME NEW u, Run(h, from, "analysis"),
             frame' = [frame EXCEPT ![h] =
                         [EmptyFrame EXCEPT !.uri = u, !.todo = frame[h].todo \ {u}]]
      PROVE  BatchInvariant'
  BY <1>1, <1>4, QuietHandlerStep
<1> QED
  BY <1>2, <1>3, <1>4 DEF NextDocument

LEMMA QuietRequestDocs ==
  ASSUME TypeOK, LiveEntriesMirrorDocuments, BatchInvariant,
         NEW h \in Slots, NEW from, NEW to,
         from \notin InBatch, to \notin InBatch,
         RequestDocs(h, from, to)
  PROVE  BatchInvariant'
<1>1. UNCHANGED <<disk, events, docs, syms>>
  BY DEF RequestDocs, client, server
<1>2. CASE Finish(h, from)
  BY <1>1, <1>2, QuietReturn
<1>3. CASE /\ Run(h, from, to)
           /\ frame' = [frame EXCEPT ![h].text = docs[frame[h].uri]]
  BY <1>1, <1>3, QuietHandlerStep
<1> QED
  BY <1>2, <1>3 DEF RequestDocs

LEMMA QuietAnswer ==
  ASSUME TypeOK, LiveEntriesMirrorDocuments, BatchInvariant,
         NEW h \in Slots, NEW from, from \notin InBatch, Answer(h, from)
  PROVE  BatchInvariant'
BY QuietReturn DEF Answer, client, server

LEMMA QuietStepOf ==
  ASSUME TypeOK, LiveEntriesMirrorDocuments, BatchInvariant, NEW h \in Slots,
         \/ Source(h) \/ SyncLiveDocs(h) \/ SyncLive(h)
         \/ SyncCloseDocs(h) \/ SyncClose(h)
         \/ Analysis(h) \/ PublishDiagnostics(h) \/ Flush(h)
         \/ SetConfig(h) \/ OpenUris(h)
  PROVE  BatchInvariant'
<1>0. frame \in [Slots -> Frame]
  BY DEF TypeOK, HandlersOK
<1>1. CASE Source(h)
  BY <1>1, QuietHandlerStep, "source" \notin InBatch, "liveDocs" \notin InBatch
     DEF Source, client, server, InBatch
<1>2. CASE SyncLiveDocs(h) \/ SyncCloseDocs(h)
  <2>1. /\ frame' = [frame EXCEPT ![h] = frame[h]]
        /\ UNCHANGED <<disk, events, docs, syms>>
    BY <1>0, <1>2 DEF SyncLiveDocs, SyncCloseDocs, LockDocs, client
  <2>2. Run(h, "liveDocs", "liveSyms") \/ Run(h, "closeDocs", "closeSyms")
    BY <1>2 DEF SyncLiveDocs, SyncCloseDocs, LockDocs
  <2>3. {"liveDocs", "liveSyms", "closeDocs", "closeSyms"} \cap InBatch = {}
    BY DEF InBatch
  <2> QED
    BY <2>1, <2>2, <2>3, QuietHandlerStep
<1>3. CASE SyncLive(h)
  <2>1. /\ frame' = [frame EXCEPT ![h] = frame[h]]
        /\ UNCHANGED <<disk, events>>
        /\ Run(h, "liveSyms", "analysis")
    BY <1>0, <1>3 DEF SyncLive, client
  <2> QED
    BY <1>3, <2>1, QuietHandlerStep, "liveSyms" \notin InBatch, "analysis" \notin InBatch
       DEF InBatch
<1>4. CASE SyncClose(h)
  <2>1. UNCHANGED <<disk, events>> /\ Send(h, "closeSyms") /\ "closeSyms" \notin InBatch
    BY <1>4 DEF SyncClose, Publish, client, InBatch
  <2> QED
    BY <1>4, <2>1, QuietReturn
<1>5. CASE Analysis(h)
  <2>1. UNCHANGED <<disk, events, docs, syms>>
    BY <1>5 DEF Analysis, client, server
  <2>2. "analysis" \notin InBatch /\ "diagnose" \notin InBatch
    BY DEF InBatch
  <2>3. CASE NextDocument(h, "analysis")
    BY <2>1, <2>2, <2>3, QuietReturn
  <2>4. CASE /\ Run(h, "analysis", "diagnose")
             /\ frame' = [frame EXCEPT ![h].text = docs[frame[h].uri]]
    BY <2>1, <2>2, <2>4, QuietHandlerStep
  <2> QED
    BY <1>5, <2>3, <2>4 DEF Analysis
<1>6. CASE PublishDiagnostics(h)
  <2>1. UNCHANGED <<disk, events, docs, syms>> /\ Send(h, "diagnose") /\ "diagnose" \notin InBatch
    BY <1>6 DEF PublishDiagnostics, Publish, client, server, InBatch
  <2> QED
    BY <2>1, QuietReturn
<1>7. CASE Flush(h)
  <2>1. UNCHANGED <<disk, events, docs, syms>> /\ NextDocument(h, "flush") /\ "flush" \notin InBatch
    BY <1>7 DEF Flush, client, server, InBatch
  <2> QED
    BY <2>1, QuietReturn
<1>8. CASE SetConfig(h)
  <2>1. /\ frame' = [frame EXCEPT ![h] = frame[h]]
        /\ UNCHANGED <<disk, events, docs, syms>>
        /\ Run(h, "config", "openUris")
    BY <1>0, <1>8 DEF SetConfig, client
  <2> QED
    BY <2>1, QuietHandlerStep, "config" \notin InBatch, "openUris" \notin InBatch DEF InBatch
<1>9. CASE OpenUris(h)
  <2>1. UNCHANGED <<disk, events, docs, syms>>
    BY <1>9 DEF OpenUris, client, server
  <2>2. "openUris" \notin InBatch /\ "analysis" \notin InBatch
    BY DEF InBatch
  <2>3. CASE Finish(h, "openUris")
    BY <2>1, <2>2, <2>3, QuietReturn
  <2>4. ASSUME NEW u, Run(h, "openUris", "analysis"),
               frame' = [frame EXCEPT ![h] =
                           [EmptyFrame EXCEPT !.uri = u, !.todo = OpenDocs \ {u}]]
        PROVE  BatchInvariant'
    BY <2>1, <2>2, <2>4, QuietHandlerStep
  <2> QED
    BY <1>9, <2>3, <2>4 DEF OpenUris
<1> QED
  BY <1>1, <1>2, <1>3, <1>4, <1>5, <1>6, <1>7, <1>8, <1>9

LEMMA QuietRequest ==
  ASSUME TypeOK, LiveEntriesMirrorDocuments, BatchInvariant, NEW h \in Slots,
         \/ HoverDocs(h) \/ CompletionConfig(h)
         \/ FormattingDocs(h) \/ FormattingConfig(h)
         \/ DefinitionDocs(h) \/ DefinitionSyms(h)
         \/ ReferencesDocs(h) \/ ReferencesAll(h) \/ ReferencesSyms(h)
         \/ SymbolSyms(h)
  PROVE  BatchInvariant'
<1>1. {"hoverDocs", "completionConfig", "formattingDocs", "formattingConfig",
       "definitionDocs", "definitionSyms", "referencesDocs", "referencesAll",
       "referencesSyms", "symbolSyms"} \subseteq PCs \ InBatch
  BY DEF PCs, InBatch
<1>2. CASE HoverDocs(h)
  <2>1. UNCHANGED <<disk, events, docs, syms>>
    BY <1>2 DEF HoverDocs, client, server
  <2> QED
    BY <1>1, <1>2, <2>1, QuietReturn DEF HoverDocs
<1>3. CASE CompletionConfig(h)
  <2>1. /\ frame' = [frame EXCEPT ![h] = frame[h]]
        /\ UNCHANGED <<disk, events, docs, syms>>
        /\ Run(h, "completionConfig", "hoverDocs")
    BY <1>3 DEF CompletionConfig, client, server, TypeOK, HandlersOK
  <2> QED
    BY <1>1, <2>1, QuietHandlerStep
<1>4. CASE FormattingDocs(h) \/ DefinitionDocs(h) \/ ReferencesDocs(h)
  BY <1>1, <1>4, QuietRequestDocs DEF FormattingDocs, DefinitionDocs, ReferencesDocs
<1>5. CASE FormattingConfig(h) \/ DefinitionSyms(h) \/ ReferencesSyms(h) \/ SymbolSyms(h)
  BY <1>1, <1>5, QuietAnswer DEF FormattingConfig, DefinitionSyms, ReferencesSyms, SymbolSyms
<1>6. CASE ReferencesAll(h)
  <2>1. /\ frame' = [frame EXCEPT ![h].snap = docs]
        /\ UNCHANGED <<disk, events, docs, syms>>
        /\ Run(h, "referencesAll", "referencesSyms")
    BY <1>6 DEF ReferencesAll, client, server
  <2> QED
    BY <1>1, <2>1, QuietHandlerStep
<1> QED
  BY <1>2, <1>3, <1>4, <1>5, <1>6

-----------------------------------------------------------------------------
(* The steps that make, deliver, read and apply file events.               *)

(* A message other than a batch of events.                                 *)
LEMMA BackgroundReceive ==
  ASSUME TypeOK, LiveEntriesMirrorDocuments, BatchInvariant, ~BatchesOverlap,
         NEW h \in Slots, Receive(h)
  PROVE  BatchInvariant'
<1>1. ASSUME NEW to, NEW f, to \notin InBatch, Start(h, to, f),
             UNCHANGED <<disk, events, docs, syms>>
      PROVE  BatchInvariant'
  BY <1>1, QuietHandlerStep, "idle" \notin InBatch DEF Start, InBatch
<1>2. CASE ReceiveWatched(h)
  <2> DEFINE f == [EmptyFrame EXCEPT !.batch = events]
  <2>1. /\ events' = <<>>
        /\ UNCHANGED <<disk, docs, syms>>
        /\ NoBatchInFlight
        /\ pc' = [pc EXCEPT ![h] = "snapshot"]
        /\ frame' = [frame EXCEPT ![h] = f]
    BY <1>2 DEF ReceiveWatched, server, Start, Run
  <2>2. f.batch = events /\ f.reads = <<>>
    BY DEF EmptyFrame
  <2> HIDE DEF f
  <2>3. /\ pc'[h] = "snapshot"
        /\ frame'[h] = f
        /\ \A g \in Slots : pc'[g] \in InBatch => g = h
    BY <2>1 DEF TypeOK, HandlersOK, NoBatchInFlight, InBatch
  <2>4. ASSUME NEW u \in Uris PROVE FileInv(u)'
    <3>1. FileInv(u)
      BY DEF BatchInvariant
    <3>2. TellsDisk(events', u, disk'[u])
      BY <2>1 DEF TellsDisk
    <3>3. TellsDisk(f.batch, u, disk'[u])
      BY <2>1, <2>2, <3>1 DEF FileInv, TellsDisk
    <3>4. \A g \in Slots : BatchInv(g, u)'
      BY <2>2, <2>3, <3>3 DEF BatchInv
    <3>5. Settled(u)' => Settled(u)
      BY <2>1, <2>2, <2>3 DEF Settled, NoBatchInFlight, InBatch
    <3> QED
      BY <2>1, <3>1, <3>2, <3>4, <3>5 DEF FileInv
  <2> QED
    BY <2>3, <2>4 DEF BatchInvariant
<1>3. {"liveDocs", "source", "closeDocs", "config"} \cap InBatch = {}
  BY DEF InBatch
<1>4. \A r \in Requests : FirstAwait[r] \notin InBatch
  BY BoundsAssumption DEF FirstAwait, InBatch
<1> QED
  BY <1>1, <1>2, <1>3, <1>4
     DEF Receive, ReceiveOpen, ReceiveChange, ReceiveClose, ReceiveConfig,
         ReceiveRequest, client, server

LEMMA BackgroundFileSystem ==
  ASSUME TypeOK, BatchInvariant, FileSystem
  PROVE  BatchInvariant'
<1>1. PICK u \in Uris : DeleteFile(u) \/ \E t \in Texts : WriteFile(u, t)
  BY DEF FileSystem
<1>2. PICK e \in Event : /\ e.uri = u
                         /\ events' = Append(events, e)
                         /\ e.typ = "DELETED" <=> disk'[u] = NoDoc
  <2>1. CASE DeleteFile(u)
    BY <2>1 DEF DeleteFile, Event, TypeOK
  <2>2. ASSUME NEW t \in Texts, WriteFile(u, t)
        PROVE  \E e \in Event : /\ e.uri = u
                                /\ events' = Append(events, e)
                                /\ e.typ = "DELETED" <=> disk'[u] = NoDoc
    <3>1. [uri |-> u, typ |-> "CHANGED"] \in Event /\ t # NoDoc
      BY <2>2, TextsAssumption DEF Event
    <3>2. disk'[u] = t
      BY <2>2 DEF WriteFile, TypeOK
    <3> QED
      BY <2>2, <3>1, <3>2 DEF WriteFile
  <2> QED
    BY <1>1, <2>1, <2>2
<1>3. /\ UNCHANGED <<docs, syms, pc, frame>>
      /\ \A v \in Uris \ {u} : disk'[v] = disk[v]
  BY <1>1 DEF DeleteFile, WriteFile, server, TypeOK
<1>4. events \in Seq(Event)
  BY DEF TypeOK
<1>5. ASSUME NEW v \in Uris PROVE FileInv(v)'
  <2>1. FileInv(v)
    BY DEF BatchInvariant
  <2>2. CASE v = u
    <3>1. Mentions(events', v) /\ TellsDisk(events', v, disk'[v])
      BY <1>2, <1>4, <2>2, AppendedEvent DEF TellsDisk
    <3>2. ASSUME NEW h \in Slots PROVE BatchInv(h, v)'
      BY <1>3, <2>1, <3>1 DEF FileInv, BatchInv
    <3> QED
      BY <3>1, <3>2 DEF FileInv, Settled
  <2>3. CASE v # u
    <3>1. /\ Mentions(events', v) <=> Mentions(events, v)
          /\ \A i \in DOMAIN events' : IsLast(events', v, i)
               => i \in DOMAIN events /\ IsLast(events, v, i) /\ events'[i] = events[i]
      BY <1>2, <1>4, <2>3, AppendedEvent
    <3>2. TellsDisk(events', v, disk'[v])
      BY <1>3, <2>1, <2>3, <3>1 DEF FileInv, TellsDisk
    <3>3. ASSUME NEW h \in Slots PROVE BatchInv(h, v)'
      BY <1>3, <2>1, <2>3, <3>1 DEF FileInv, BatchInv, TellsDisk
    <3>4. Settled(v)' => Settled(v)
      BY <1>3, <3>1 DEF Settled
    <3> QED
      BY <1>3, <2>1, <2>3, <3>2, <3>3, <3>4 DEF FileInv
  <2> QED
    BY <2>2, <2>3
<1> QED
  BY <1>3, <1>5 DEF BatchInvariant

LEMMA BackgroundSnapshot ==
  ASSUME TypeOK, BatchInvariant, NEW h \in Slots, TakeSnapshot(h)
  PROVE  BatchInvariant'
<1> DEFINE f == [frame[h] EXCEPT !.snap = docs]
<1>1. /\ pc[h] = "snapshot"
      /\ pc' = [pc EXCEPT ![h] = "reading"]
      /\ frame' = [frame EXCEPT ![h] = f]
      /\ UNCHANGED <<disk, events, docs, syms>>
  BY DEF TakeSnapshot, Run, client, server
<1>2. f.batch = frame[h].batch /\ f.reads = frame[h].reads /\ f.snap = docs
  BY DEF TypeOK, HandlersOK, Frame
<1> HIDE DEF f
<1>3. /\ pc'[h] = "reading" /\ frame'[h] = f
      /\ \A g \in Slots \ {h} : pc'[g] = pc[g] /\ frame'[g] = frame[g]
  BY <1>1 DEF TypeOK, HandlersOK
<1>4. ASSUME NEW u \in Uris PROVE FileInv(u)'
  <2>1. FileInv(u) /\ BatchInv(h, u)
    BY DEF BatchInvariant, FileInv
  <2>2. TellsDisk(events', u, disk'[u])
    BY <1>1, <2>1 DEF FileInv, TellsDisk
  <2>3. BatchInv(h, u)'
    BY <1>1, <1>2, <1>3, <2>1 DEF BatchInv, TellsDisk, InBatch
  <2>4. ASSUME NEW g \in Slots, g # h PROVE BatchInv(g, u)'
    BY <1>1, <1>3, <2>1, <2>4 DEF FileInv, BatchInv, TellsDisk
  <2>5. Settled(u)' => Settled(u)
    BY <1>1, <1>2, <1>3 DEF Settled, InBatch
  <2> QED
    BY <1>1, <2>1, <2>2, <2>3, <2>4, <2>5 DEF FileInv
<1> QED
  BY <1>1, <1>3, <1>4 DEF BatchInvariant, InBatch

LEMMA BackgroundRead ==
  ASSUME TypeOK, BatchInvariant, ~ReadErrors, NEW h \in Slots, ReadFile(h)
  PROVE  BatchInvariant'
<1> DEFINE n == Len(frame[h].reads) + 1
           e == frame[h].batch[n]
           read == IF e.typ = "DELETED" THEN NoDoc ELSE disk[e.uri]
           f == [frame[h] EXCEPT !.reads = Append(frame[h].reads, read)]
<1>1. /\ pc[h] = "reading"
      /\ frame' = [frame EXCEPT ![h] = f]
      /\ UNCHANGED <<disk, events, docs, syms, pc>>
  BY DEF ReadFile, client, server
<1>2. frame[h].reads \in Seq(Contents) /\ frame[h] \in Frame
  BY DEF TypeOK, HandlersOK, Frame
<1>3. /\ f.batch = frame[h].batch /\ f.snap = frame[h].snap
      /\ f.reads = Append(frame[h].reads, read)
  BY <1>2 DEF Frame
<1>4. \A i \in DOMAIN f.reads :
        \/ i = n /\ f.reads[i] = read
        \/ i \in DOMAIN frame[h].reads /\ f.reads[i] = frame[h].reads[i]
  <2> HIDE DEF read
  <2> QED
    BY <1>2, <1>3
<1> HIDE DEF f
<1>5. /\ frame'[h] = f
      /\ \A g \in Slots \ {h} : frame'[g] = frame[g]
  BY <1>1 DEF TypeOK, HandlersOK
<1>6. ASSUME NEW u \in Uris PROVE FileInv(u)'
  <2>1. FileInv(u) /\ BatchInv(h, u)
    BY DEF BatchInvariant, FileInv
  <2>2. TellsDisk(events', u, disk'[u])
    BY <1>1, <2>1 DEF FileInv, TellsDisk
  <2>3. BatchInv(h, u)'
    <3>1. ASSUME ~Mentions(events, u), NEW i \in DOMAIN f.reads,
                 IsLast(f.batch, u, i), f.batch[i].typ # "DELETED"
          PROVE  f.reads[i] = disk[u]
      <4>1. CASE i = n /\ f.reads[i] = read
        BY <1>3, <3>1, <4>1 DEF IsLast
      <4>2. CASE i \in DOMAIN frame[h].reads /\ f.reads[i] = frame[h].reads[i]
        BY <1>1, <1>3, <2>1, <3>1, <4>2 DEF BatchInv, InBatch
      <4> QED
        BY <1>4, <4>1, <4>2
    <3> HIDE DEF n
    <3>2. ~Mentions(events, u) => TellsDisk(f.batch, u, disk'[u])
      BY <1>1, <1>3, <2>1 DEF BatchInv, TellsDisk, InBatch
    <3> QED
      BY <1>1, <1>3, <1>5, <2>1, <3>1, <3>2 DEF BatchInv, InBatch
  <2>4. ASSUME NEW g \in Slots, g # h PROVE BatchInv(g, u)'
    BY <1>1, <1>5, <2>1, <2>4 DEF FileInv, BatchInv, TellsDisk
  <2>5. Settled(u)' => Settled(u)
    BY <1>1, <1>3, <1>5 DEF Settled
  <2> QED
    BY <1>1, <2>1, <2>2, <2>3, <2>4, <2>5 DEF FileInv
<1> QED
  BY <1>1, <1>6 DEF BatchInvariant

(* The last event that applies to u is the last for u, unless that one was *)
(* a write to a document open at the time.                                 *)
LEMMA BackgroundApply ==
  ASSUME TypeOK, LiveEntriesMirrorDocuments, BatchInvariant,
         NEW h \in Slots, ApplyBatch(h)
  PROVE  BatchInvariant'
<1> DEFINE f == frame[h]
<1>1. /\ pc[h] = "reading"
      /\ pc' = [pc EXCEPT ![h] = "idle"]
      /\ frame' = [frame EXCEPT ![h] = EmptyFrame]
      /\ Len(f.reads) = Len(f.batch)
      /\ syms' = [u \in Uris |-> AfterBatch(f, u)]
      /\ UNCHANGED <<disk, events, docs>>
  BY DEF ApplyBatch, Finish, Run, client
<1>2. /\ f \in Frame /\ f.batch \in Seq(Event) /\ f.reads \in Seq(Contents)
      /\ DOMAIN f.reads = DOMAIN f.batch
  BY <1>1 DEF TypeOK, HandlersOK, Frame
<1>3. \A g \in Slots : pc'[g] \notin InBatch
  BY <1>1 DEF BatchInvariant, InBatch, TypeOK, HandlersOK
<1>4. \A g \in Slots : pc[g] \in InBatch => g = h
  BY <1>1 DEF BatchInvariant, InBatch
<1>5. ASSUME NEW u \in Uris PROVE FileInv(u)'
  <2>1. FileInv(u) /\ BatchInv(h, u)
    BY DEF BatchInvariant, FileInv
  <2>2. ASSUME ~Mentions(events, u), docs[u] = NoDoc
        PROVE  syms'[u] \in {NoEntry, Background(disk[u])}
    <3>0. syms'[u] = AfterBatch(f, u)
      BY <1>1
    <3>1. CASE ~Mentions(f.batch, u)
      <4>1. AfterBatch(f, u) = syms[u]
        BY <1>2, <3>1, EventApplied DEF Mentions
      <4>2. Settled(u)
        BY <1>4, <2>2, <3>1 DEF Settled
      <4> QED
        BY <2>1, <2>2, <3>0, <4>1, <4>2 DEF FileInv
    <3>2. CASE Mentions(f.batch, u)
      <4>1. PICK last \in DOMAIN f.batch : IsLast(f.batch, u, last)
        BY <1>2, <3>2, LastMention
      <4>2. /\ f.batch[last].typ = "DELETED" <=> disk[u] = NoDoc
            /\ f.batch[last].typ # "DELETED" => f.reads[last] = disk[u]
            /\ f.snap[u] # NoDoc => syms[u] = NoEntry
        BY <1>1, <1>2, <2>1, <2>2, <4>1 DEF BatchInv, TellsDisk, InBatch
      <4>3. CASE Applies(f, last)
        <5> DEFINE applied == {i \in DOMAIN f.batch : f.batch[i].uri = u /\ Applies(f, i)}
        <5>1. last \in applied /\ \A j \in applied : j <= last
          BY <4>1, <4>3 DEF IsLast
        <5>2. \A i \in applied : (\A j \in applied : j <= i) => i = last
          <6>1. applied \subseteq Nat
            BY <1>2
          <6> QED
            BY <5>1, <6>1
        <5>3. AfterBatch(f, u) = EventEntry(f, last)
          <6>1. AfterBatch(f, u)
                  = EventEntry(f, CHOOSE i \in applied : \A j \in applied : j <= i)
            BY <5>1 DEF AfterBatch
          <6> HIDE DEF applied
          <6> QED
            BY <5>1, <5>2, <6>1
        <5> QED
          BY <3>0, <4>2, <5>3 DEF EventEntry
      <4>4. CASE ~Applies(f, last)
        <5>1. f.batch[last].typ # "DELETED" /\ f.reads[last] = disk[u] /\ disk[u] # NoDoc
          BY <4>2, <4>4 DEF Applies
        <5>2. f.snap[u] # NoDoc
          BY <4>1, <4>4, <5>1 DEF Applies, IsLast
        <5>3. syms[u] = NoEntry
          BY <4>2, <5>2
        <5>4. ASSUME NEW i \in DOMAIN f.batch, f.batch[i].uri = u, Applies(f, i)
              PROVE  EventEntry(f, i) = NoEntry
          BY <5>2, <5>4 DEF Applies, EventEntry
        <5> QED
          BY <1>2, <3>0, <5>3, <5>4, EventApplied
      <4> QED
        BY <4>3, <4>4
    <3> QED
      BY <3>1, <3>2
  <2>3. TellsDisk(events', u, disk'[u])
    BY <1>1, <2>1 DEF FileInv, TellsDisk
  <2>4. \A g \in Slots : BatchInv(g, u)'
    BY <1>3 DEF BatchInv
  <2>5. Settled(u)' /\ docs'[u] = NoDoc => syms'[u] \in {NoEntry, Background(disk'[u])}
    BY <1>1, <2>2 DEF Settled
  <2> QED
    BY <2>3, <2>4, <2>5 DEF FileInv
<1> QED
  BY <1>3, <1>5 DEF BatchInvariant

LEMMA BatchStep ==
  /\ ~BatchesOverlap /\ ~ReadErrors
  /\ TypeOK /\ LiveEntriesMirrorDocuments /\ BatchInvariant /\ [Next]_vars
  => BatchInvariant'
<1> SUFFICES ASSUME ~BatchesOverlap, ~ReadErrors,
                    TypeOK, LiveEntriesMirrorDocuments, BatchInvariant, [Next]_vars
             PROVE  BatchInvariant'
  OBVIOUS
<1>1. CASE FileSystem
  BY <1>1, BackgroundFileSystem
<1>2. ASSUME NEW h \in Slots, Receive(h)
      PROVE  BatchInvariant'
  BY <1>2, BackgroundReceive
<1>3. ASSUME NEW h \in Slots, Step(h)
      PROVE  BatchInvariant'
  <2>1. ~ReadTaskLost(h)
    BY DEF ReadTaskLost
  <2> QED
    BY <1>3, <2>1, QuietStepOf, QuietRequest,
       BackgroundSnapshot, BackgroundRead, BackgroundApply DEF Step
<1>4. CASE UNCHANGED vars
  <2>1. UNCHANGED <<disk, events, docs, syms, pc, frame>>
    BY <1>4 DEF vars
  <2> QED
    BY <2>1, QuietFileStep
<1> QED
  BY <1>1, <1>2, <1>3, <1>4 DEF Next

(* Where the client lets a batch of file events finish before it sends the *)
(* next and files can be read, what the store holds of a file that is not  *)
(* open is what the disk holds, or nothing, once every event is handled:   *)
(* however opening, editing and closing interleave with the batch.         *)
THEOREM BackgroundCorrect ==
  Spec => [](~BatchesOverlap /\ ~ReadErrors => BackgroundMatchesDisk)
<1>1. Init => BatchInvariant
  BY BatchInitial
<1>2. BatchInvariant => BackgroundMatchesDisk
  <2> SUFFICES ASSUME BatchInvariant, events = <<>>, NoBatchInFlight,
                      NEW u \in Uris, docs[u] = NoDoc
               PROVE  syms[u] \in {NoEntry, Background(disk[u])}
    BY DEF BackgroundMatchesDisk
  <2>1. Settled(u) /\ FileInv(u)
    BY DEF Settled, Mentions, NoBatchInFlight, InBatch, BatchInvariant
  <2> QED
    BY <2>1 DEF FileInv
<1>3. CASE BatchesOverlap \/ ReadErrors
  BY <1>3, PTL
<1>4. CASE ~BatchesOverlap /\ ~ReadErrors
  <2>1. TypeOK /\ LiveEntriesMirrorDocuments /\ BatchInvariant /\ [Next]_vars => BatchInvariant'
    BY <1>4, BatchStep
  <2> QED
    BY <1>1, <1>2, <2>1, TypeCorrect, LiveEntriesCorrect, PTL DEF Spec
<1> QED
  BY <1>3, <1>4

-----------------------------------------------------------------------------
(* Handlers get on: a measure of what a handler still has to do.           *)

(* The .awaits a handler still goes through, one document's publication    *)
(* included; each further one takes three.                                 *)
AwaitsLeft ==
  [idle |-> 0, flush |-> 1, diagnose |-> 2, analysis |-> 3,
   liveSyms |-> 4, liveDocs |-> 5, source |-> 6, closeSyms |-> 2, closeDocs |-> 3,
   openUris |-> 1, config |-> 2, reading |-> 2, snapshot |-> 3,
   hoverDocs |-> 2, completionConfig |-> 3, formattingConfig |-> 2, formattingDocs |-> 3,
   definitionSyms |-> 2, definitionDocs |-> 3,
   referencesSyms |-> 2, referencesAll |-> 3, referencesDocs |-> 4, symbolSyms |-> 2]

(* Before open_uris() is read, every document may have to be published.    *)
ToPublish(at, f) == IF at \in {"config", "openUris"} THEN Uris ELSE f.todo

FilesToRead(at, f) ==
  IF at \in {"snapshot", "reading"} THEN Len(f.batch) - Len(f.reads) ELSE 0

StepsLeftAt(at, f) ==
  AwaitsLeft[at] + 3 * Cardinality(ToPublish(at, f)) + FilesToRead(at, f)

StepsLeft(h) == StepsLeftAt(pc[h], frame[h])

(* The three parts of the measure are numbers.                             *)
LEMMA StepsLeftParts ==
  ASSUME IsFiniteSet(Uris), NEW at \in PCs, NEW f \in Frame, FrameFits(at, f)
  PROVE  /\ AwaitsLeft[at] \in Nat
         /\ ToPublish(at, f) \in SUBSET Uris
         /\ IsFiniteSet(ToPublish(at, f))
         /\ Cardinality(ToPublish(at, f)) \in Nat
         /\ FilesToRead(at, f) \in Nat
<1>1. AwaitsLeft[at] \in Nat
  BY DEF AwaitsLeft, PCs
<1>2. ToPublish(at, f) \in SUBSET Uris
  BY DEF ToPublish, Frame
<1>3. IsFiniteSet(ToPublish(at, f)) /\ Cardinality(ToPublish(at, f)) \in Nat
  BY <1>2, FS_Subset, FS_CardinalityType
<1>4. FilesToRead(at, f) \in Nat
  <2>1. f.batch \in Seq(Event) /\ f.reads \in Seq(Contents)
    BY DEF Frame
  <2>2. Len(f.batch) \in Nat /\ Len(f.reads) \in Nat /\ Len(<<>>) = 0
    BY <2>1
  <2>3. at \in {"snapshot", "reading"} => Len(f.reads) <= Len(f.batch)
    BY <2>2 DEF FrameFits
  <2> QED
    BY <2>2, <2>3 DEF FilesToRead
<1> QED
  BY <1>1, <1>2, <1>3, <1>4

(* Going on to a nearer .await with no more to publish or to read.         *)
LEMMA Onward ==
  ASSUME IsFiniteSet(Uris),
         NEW from \in PCs, NEW f \in Frame, FrameFits(from, f),
         NEW to \in PCs, NEW g \in Frame, FrameFits(to, g),
         AwaitsLeft[to] < AwaitsLeft[from],
         ToPublish(to, g) \subseteq ToPublish(from, f),
         FilesToRead(to, g) <= FilesToRead(from, f)
  PROVE  StepsLeftAt(to, g) \in 0 .. StepsLeftAt(from, f) - 1
<1>1. Cardinality(ToPublish(to, g)) <= Cardinality(ToPublish(from, f))
  BY StepsLeftParts, FS_Subset
<1>2. /\ AwaitsLeft[from] \in Nat /\ AwaitsLeft[to] \in Nat
      /\ Cardinality(ToPublish(from, f)) \in Nat /\ Cardinality(ToPublish(to, g)) \in Nat
      /\ FilesToRead(from, f) \in Nat /\ FilesToRead(to, g) \in Nat
  BY StepsLeftParts
<1> QED
  BY <1>1, <1>2 DEF StepsLeftAt

(* Going on to publish one of the documents to publish.                    *)
LEMMA OnwardToPublish ==
  ASSUME IsFiniteSet(Uris),
         NEW from \in PCs \ {"idle"}, NEW f \in Frame, FrameFits(from, f),
         NEW g \in Frame, FrameFits("analysis", g),
         NEW u \in ToPublish(from, f),
         g.todo \subseteq ToPublish(from, f) \ {u}
  PROVE  StepsLeftAt("analysis", g) \in 0 .. StepsLeftAt(from, f) - 1
<1> DEFINE n == Cardinality(ToPublish(from, f))
<1>1. /\ "analysis" \in PCs /\ AwaitsLeft["analysis"] = 3
      /\ ToPublish("analysis", g) = g.todo /\ FilesToRead("analysis", g) = 0
  BY DEF PCs, AwaitsLeft, ToPublish, FilesToRead
<1>2. AwaitsLeft[from] >= 1
  BY DEF PCs, AwaitsLeft
<1>3. /\ AwaitsLeft[from] \in Nat /\ n \in Nat /\ FilesToRead(from, f) \in Nat
      /\ IsFiniteSet(ToPublish(from, f)) /\ Cardinality(g.todo) \in Nat
  BY <1>1, StepsLeftParts
<1>4. IsFiniteSet(ToPublish(from, f) \ {u}) /\ Cardinality(ToPublish(from, f) \ {u}) = n - 1
  BY <1>3, FS_RemoveElement
<1>5. Cardinality(g.todo) <= n - 1
  BY <1>4, FS_Subset
<1> QED
  BY <1>1, <1>2, <1>3, <1>5 DEF StepsLeftAt

(* What a handler that moves leaves and reaches.                           *)
LEMMA Moved ==
  ASSUME TypeOK, TypeOK', NEW h \in Slots, NEW from, NEW to, Run(h, from, to)
  PROVE  /\ from \in PCs /\ frame[h] \in Frame /\ FrameFits(from, frame[h])
         /\ to \in PCs /\ frame'[h] \in Frame /\ FrameFits(to, frame'[h])
         /\ StepsLeft(h) = StepsLeftAt(from, frame[h])
         /\ StepsLeft(h)' = StepsLeftAt(to, frame'[h])
<1>1. pc[h] = from /\ pc'[h] = to
  BY DEF Run, TypeOK, HandlersOK
<1>2. pc[h] \in PCs /\ frame[h] \in Frame /\ FrameFits(pc[h], frame[h])
  BY DEF TypeOK, HandlersOK
<1>3. pc'[h] \in PCs /\ frame'[h] \in Frame /\ FrameFits(pc'[h], frame'[h])
  BY DEF TypeOK, HandlersOK, FrameFits
<1>4. StepsLeft(h)' = StepsLeftAt(pc'[h], frame'[h])
  BY DEF StepsLeft, StepsLeftAt, ToPublish, FilesToRead
<1> QED
  BY <1>1, <1>2, <1>3, <1>4 DEF StepsLeft

(* With the frame's lists as they are, and a nearer .await.                *)
LEMMA KeepingFrameGetsOn ==
  ASSUME IsFiniteSet(Uris), TypeOK, TypeOK',
         NEW h \in Slots, NEW from, NEW to, NEW g,
         Run(h, from, to), frame' = [frame EXCEPT ![h] = g],
         g.todo = frame[h].todo, g.batch = frame[h].batch, g.reads = frame[h].reads,
         AwaitsLeft[to] < AwaitsLeft[from],
         to \in {"config", "openUris"} => from \in {"config", "openUris"},
         to \in {"snapshot", "reading"} => from \in {"snapshot", "reading"}
  PROVE  StepsLeft(h)' \in 0 .. StepsLeft(h) - 1
<1>0. frame'[h] = g
  BY DEF TypeOK, HandlersOK
<1>1. /\ from \in PCs /\ frame[h] \in Frame /\ FrameFits(from, frame[h])
      /\ to \in PCs /\ g \in Frame /\ FrameFits(to, g)
      /\ StepsLeft(h) = StepsLeftAt(from, frame[h])
      /\ StepsLeft(h)' = StepsLeftAt(to, g)
  BY <1>0, Moved
<1>2. ToPublish(to, g) \subseteq ToPublish(from, frame[h])
  BY <1>1 DEF ToPublish, Frame
<1>3. FilesToRead(from, frame[h]) \in Nat
  BY <1>1, StepsLeftParts
<1>4. FilesToRead(to, g) <= FilesToRead(from, frame[h])
  <2>1. CASE to \in {"snapshot", "reading"}
    <3>1. FilesToRead(to, g) = FilesToRead(from, frame[h])
      BY <2>1 DEF FilesToRead
    <3> QED
      BY <1>3, <3>1
  <2>2. CASE to \notin {"snapshot", "reading"}
    BY <1>3, <2>2 DEF FilesToRead
  <2> QED
    BY <2>1, <2>2
<1> QED
  BY <1>1, <1>2, <1>4, Onward

(* A frame that has nothing left but documents to publish.                 *)
LEMMA FreshFrameGetsOn ==
  ASSUME IsFiniteSet(Uris), TypeOK, TypeOK',
         NEW h \in Slots, NEW from, NEW to \in PCs \ {"config", "openUris", "snapshot", "reading"}, NEW g,
         Run(h, from, to), frame' = [frame EXCEPT ![h] = g],
         g.todo \in {{}, frame[h].todo},
         AwaitsLeft[to] < AwaitsLeft[from]
  PROVE  StepsLeft(h)' \in 0 .. StepsLeft(h) - 1
<1>0. frame'[h] = g
  BY DEF TypeOK, HandlersOK
<1>1. /\ from \in PCs /\ frame[h] \in Frame /\ FrameFits(from, frame[h])
      /\ to \in PCs /\ g \in Frame /\ FrameFits(to, g)
      /\ StepsLeft(h) = StepsLeftAt(from, frame[h])
      /\ StepsLeft(h)' = StepsLeftAt(to, g)
  BY <1>0, Moved
<1>2. ToPublish(to, g) \subseteq ToPublish(from, frame[h])
  BY <1>1 DEF ToPublish, Frame
<1>3. FilesToRead(from, frame[h]) \in Nat /\ FilesToRead(to, g) = 0
  BY <1>1, StepsLeftParts DEF FilesToRead
<1>4. FilesToRead(to, g) <= FilesToRead(from, frame[h])
  BY <1>3
<1> QED
  BY <1>1, <1>2, <1>4, Onward

LEMMA FinishGetsOn ==
  ASSUME IsFiniteSet(Uris), TypeOK, TypeOK',
         NEW h \in Slots, NEW from \in PCs \ {"idle"}, Finish(h, from)
  PROVE  StepsLeft(h)' \in 0 .. StepsLeft(h) - 1
<1>1. "idle" \in PCs \ {"config", "openUris", "snapshot", "reading"}
      /\ AwaitsLeft["idle"] < AwaitsLeft[from]
  BY DEF PCs, AwaitsLeft
<1>2. EmptyFrame.todo = {}
  BY DEF EmptyFrame
<1> QED
  BY <1>1, <1>2, FreshFrameGetsOn DEF Finish

LEMMA SendGetsOn ==
  ASSUME IsFiniteSet(Uris), TypeOK, TypeOK',
         NEW h \in Slots, NEW from \in PCs \ {"idle", "flush", "openUris"}, Send(h, from)
  PROVE  StepsLeft(h)' \in 0 .. StepsLeft(h) - 1
<1> DEFINE g == [EmptyFrame EXCEPT !.todo = frame[h].todo]
<1>1. "flush" \in PCs \ {"config", "openUris", "snapshot", "reading"}
      /\ AwaitsLeft["flush"] < AwaitsLeft[from]
  BY DEF PCs, AwaitsLeft
<1>2. g.todo = frame[h].todo
  BY DEF EmptyFrame
<1>3. Run(h, from, "flush") /\ frame' = [frame EXCEPT ![h] = g]
  BY DEF Send
<1> HIDE DEF g
<1> QED
  BY <1>1, <1>2, <1>3, FreshFrameGetsOn

(* One of the documents left to publish is taken up.                       *)
LEMMA TakingUpGetsOn ==
  ASSUME IsFiniteSet(Uris), TypeOK, TypeOK',
         NEW h \in Slots, NEW from \in PCs \ {"idle"},
         NEW u \in ToPublish(from, frame[h]), NEW T \in SUBSET (ToPublish(from, frame[h]) \ {u}),
         Run(h, from, "analysis"),
         frame' = [frame EXCEPT ![h] = [EmptyFrame EXCEPT !.uri = u, !.todo = T]]
  PROVE  StepsLeft(h)' \in 0 .. StepsLeft(h) - 1
<1> DEFINE g == [EmptyFrame EXCEPT !.uri = u, !.todo = T]
<1>1. g.todo = T
  BY DEF EmptyFrame
<1>2. frame'[h] = g
  BY DEF TypeOK, HandlersOK
<1> HIDE DEF g
<1>3. /\ frame[h] \in Frame /\ FrameFits(from, frame[h])
      /\ g \in Frame /\ FrameFits("analysis", g)
      /\ StepsLeft(h) = StepsLeftAt(from, frame[h])
      /\ StepsLeft(h)' = StepsLeftAt("analysis", g)
  BY <1>2, Moved
<1> QED
  BY <1>1, <1>3, OnwardToPublish

LEMMA NextDocumentGetsOn ==
  ASSUME IsFiniteSet(Uris), TypeOK, TypeOK',
         NEW h \in Slots, NEW from \in {"analysis", "flush"}, NextDocument(h, from)
  PROVE  StepsLeft(h)' \in 0 .. StepsLeft(h) - 1
<1>1. from \in PCs \ {"idle"}
  BY DEF PCs
<1>2. CASE Finish(h, from)
  BY <1>1, <1>2, FinishGetsOn
<1>3. ASSUME NEW u \in frame[h].todo,
             Run(h, from, "analysis"),
             frame' = [frame EXCEPT ![h] =
                         [EmptyFrame EXCEPT !.uri = u, !.todo = frame[h].todo \ {u}]]
      PROVE  StepsLeft(h)' \in 0 .. StepsLeft(h) - 1
  <2>1. ToPublish(from, frame[h]) = frame[h].todo
    BY DEF ToPublish
  <2>2. /\ u \in ToPublish(from, frame[h])
        /\ frame[h].todo \ {u} \in SUBSET (ToPublish(from, frame[h]) \ {u})
    BY <2>1
  <2> QED
    BY <1>1, <1>3, <2>2, TakingUpGetsOn
<1> QED
  BY <1>2, <1>3 DEF NextDocument

(* Each step of a handler brings it nearer to its return.                  *)
LEMMA SyncGetsOn ==
  ASSUME IsFiniteSet(Uris), TypeOK, TypeOK', NEW h \in Slots,
         \/ Source(h) \/ SyncLiveDocs(h) \/ SyncLive(h)
         \/ SyncCloseDocs(h) \/ SyncClose(h)
  PROVE  StepsLeft(h)' \in 0 .. StepsLeft(h) - 1
<1>0. /\ {"source", "liveDocs", "liveSyms", "closeDocs", "closeSyms", "analysis"}
           \subseteq PCs \ {"idle", "flush", "openUris", "config", "snapshot", "reading"}
      /\ AwaitsLeft["analysis"] < AwaitsLeft["liveSyms"]
      /\ AwaitsLeft["liveSyms"] < AwaitsLeft["liveDocs"]
      /\ AwaitsLeft["liveDocs"] < AwaitsLeft["source"]
      /\ AwaitsLeft["closeSyms"] < AwaitsLeft["closeDocs"]
  BY DEF PCs, AwaitsLeft
<1>1. ASSUME NEW from, NEW to, LockDocs(h, from, to) \/ (Run(h, from, to) /\ UNCHANGED frame),
             from \in {"liveDocs", "liveSyms", "closeDocs"},
             to \in {"liveSyms", "closeSyms", "analysis"},
             AwaitsLeft[to] < AwaitsLeft[from]
      PROVE  StepsLeft(h)' \in 0 .. StepsLeft(h) - 1
  <2>1. Run(h, from, to) /\ frame' = [frame EXCEPT ![h] = frame[h]]
    BY <1>1 DEF LockDocs, TypeOK, HandlersOK
  <2> QED
    BY <1>0, <1>1, <2>1, KeepingFrameGetsOn
<1>2. CASE Source(h)
  <2> DEFINE current == docs[frame[h].uri]
             source  == IF current = NoDoc THEN EmptyText ELSE current
             g == [EmptyFrame EXCEPT !.uri = frame[h].uri, !.text = frame[h].edit[source]]
  <2>1. g.todo = {}
    BY DEF EmptyFrame
  <2>2. Run(h, "source", "liveDocs") /\ frame' = [frame EXCEPT ![h] = g]
    BY <1>2 DEF Source
  <2> HIDE DEF g
  <2> QED
    BY <1>0, <2>1, <2>2, FreshFrameGetsOn
<1>3. CASE SyncLiveDocs(h) \/ SyncLive(h) \/ SyncCloseDocs(h)
  BY <1>0, <1>1, <1>3 DEF SyncLiveDocs, SyncLive, SyncCloseDocs
<1>4. CASE SyncClose(h)
  BY <1>0, <1>4, SendGetsOn DEF SyncClose, Publish
<1> QED
  BY <1>2, <1>3, <1>4

LEMMA DiagnosticsGetOn ==
  ASSUME IsFiniteSet(Uris), TypeOK, TypeOK', NEW h \in Slots,
         \/ Analysis(h) \/ PublishDiagnostics(h) \/ Flush(h)
         \/ SetConfig(h) \/ OpenUris(h)
  PROVE  StepsLeft(h)' \in 0 .. StepsLeft(h) - 1
<1>0. /\ {"analysis", "diagnose"} \subseteq PCs \ {"idle", "flush", "openUris", "config", "snapshot", "reading"}
      /\ {"flush", "config", "openUris"} \subseteq PCs \ {"idle"}
      /\ AwaitsLeft["diagnose"] < AwaitsLeft["analysis"]
      /\ AwaitsLeft["openUris"] < AwaitsLeft["config"]
  BY DEF PCs, AwaitsLeft
<1>1. CASE Analysis(h)
  <2>1. ASSUME Run(h, "analysis", "diagnose"),
               frame' = [frame EXCEPT ![h].text = docs[frame[h].uri]]
        PROVE  StepsLeft(h)' \in 0 .. StepsLeft(h) - 1
    <3> DEFINE g == [frame[h] EXCEPT !.text = docs[frame[h].uri]]
    <3>1. frame[h] \in Frame
      BY DEF TypeOK, HandlersOK
    <3>2. g.todo = frame[h].todo
      BY <3>1 DEF Frame
    <3>3. frame' = [frame EXCEPT ![h] = g]
      BY <2>1
    <3> HIDE DEF g
    <3> QED
      BY <1>0, <2>1, <3>2, <3>3, FreshFrameGetsOn
  <2> QED
    BY <1>1, <2>1, NextDocumentGetsOn DEF Analysis
<1>2. CASE PublishDiagnostics(h)
  BY <1>0, <1>2, SendGetsOn DEF PublishDiagnostics, Publish
<1>3. CASE Flush(h)
  BY <1>3, NextDocumentGetsOn DEF Flush
<1>4. CASE SetConfig(h)
  <2>1. Run(h, "config", "openUris") /\ frame' = [frame EXCEPT ![h] = frame[h]]
    BY <1>4 DEF SetConfig, TypeOK, HandlersOK
  <2> QED
    BY <1>0, <2>1, KeepingFrameGetsOn
<1>5. CASE OpenUris(h)
  <2>1. ToPublish("openUris", frame[h]) = Uris /\ OpenDocs \subseteq Uris
    BY DEF ToPublish, OpenDocs
  <2>2. ASSUME NEW u \in OpenDocs,
               Run(h, "openUris", "analysis"),
               frame' = [frame EXCEPT ![h] =
                           [EmptyFrame EXCEPT !.uri = u, !.todo = OpenDocs \ {u}]]
        PROVE  StepsLeft(h)' \in 0 .. StepsLeft(h) - 1
    <3>1. OpenDocs \ {u} \in SUBSET (Uris \ {u}) /\ u \in Uris
      BY <2>1
    <3> QED
      BY <1>0, <2>1, <2>2, <3>1, TakingUpGetsOn
  <2> QED
    BY <1>0, <1>5, <2>2, FinishGetsOn DEF OpenUris
<1> QED
  BY <1>1, <1>2, <1>3, <1>4, <1>5

LEMMA BatchGetsOn ==
  ASSUME IsFiniteSet(Uris), TypeOK, TypeOK', NEW h \in Slots,
         TakeSnapshot(h) \/ ReadFile(h) \/ ReadTaskLost(h) \/ ApplyBatch(h)
  PROVE  StepsLeft(h)' \in 0 .. StepsLeft(h) - 1
<1>0. /\ "reading" \in PCs \ {"idle", "flush", "openUris"}
      /\ AwaitsLeft["reading"] < AwaitsLeft["snapshot"]
  BY DEF PCs, AwaitsLeft
<1>1. frame[h] \in Frame /\ FrameFits(pc[h], frame[h])
  BY DEF TypeOK, HandlersOK
<1>2. CASE TakeSnapshot(h)
  <2> DEFINE g == [frame[h] EXCEPT !.snap = docs]
  <2>1. g.todo = frame[h].todo /\ g.batch = frame[h].batch /\ g.reads = frame[h].reads
    BY <1>1 DEF Frame
  <2>2. Run(h, "snapshot", "reading") /\ frame' = [frame EXCEPT ![h] = g]
    BY <1>2 DEF TakeSnapshot
  <2> HIDE DEF g
  <2> QED
    BY <1>0, <2>1, <2>2, KeepingFrameGetsOn
<1>3. CASE ReadFile(h)
  <2> DEFINE f == frame[h]
             e == f.batch[Len(f.reads) + 1]
  <2>1. PICK text \in {disk[e.uri]} \cup (IF ReadErrors THEN {NoDoc} ELSE {}) :
          frame' = [frame EXCEPT ![h].reads =
                      Append(f.reads, IF e.typ = "DELETED" THEN NoDoc ELSE text)]
    BY <1>3 DEF ReadFile
  <2> DEFINE r == Append(f.reads, IF e.typ = "DELETED" THEN NoDoc ELSE text)
             g == [f EXCEPT !.reads = r]
  <2>2. f.reads \in Seq(Contents) /\ f.batch \in Seq(Event) /\ Len(f.reads) < Len(f.batch)
    BY <1>1, <1>3 DEF Frame, ReadFile
  <2>3. Len(r) = Len(f.reads) + 1 /\ Len(f.reads) \in Nat /\ Len(f.batch) \in Nat
    BY <2>2
  <2>4. g.reads = r /\ g.batch = f.batch /\ g.todo = f.todo
    BY <1>1 DEF Frame
  <2>5. pc[h] = "reading" /\ pc'[h] = "reading" /\ frame'[h] = g
    BY <1>3, <2>1 DEF ReadFile, TypeOK, HandlersOK
  <2>6. /\ StepsLeft(h) = StepsLeftAt("reading", f)
        /\ StepsLeft(h)' = StepsLeftAt("reading", g)
    BY <2>5 DEF StepsLeft, StepsLeftAt, ToPublish, FilesToRead
  <2> HIDE DEF g, r
  <2>7. /\ AwaitsLeft["reading"] \in Nat
        /\ Cardinality(f.todo) \in Nat
    BY <1>0, <1>1, <2>5, StepsLeftParts DEF ToPublish
  <2>8. /\ StepsLeftAt("reading", f) = AwaitsLeft["reading"] + 3 * Cardinality(f.todo) + (Len(f.batch) - Len(f.reads))
        /\ StepsLeftAt("reading", g) = AwaitsLeft["reading"] + 3 * Cardinality(f.todo) + (Len(f.batch) - Len(r))
    BY <2>4 DEF StepsLeftAt, ToPublish, FilesToRead
  <2>9. \A a, c, b, k \in Nat :
          k < b => a + 3 * c + (b - (k + 1)) \in 0 .. (a + 3 * c + (b - k)) - 1
    OBVIOUS
  <2>10. Len(f.batch) - Len(r) = Len(f.batch) - (Len(f.reads) + 1)
    BY <2>3
  <2> QED
    BY <2>2, <2>3, <2>6, <2>7, <2>8, <2>9, <2>10
<1>4. CASE ReadTaskLost(h)
  BY <1>0, <1>4, SendGetsOn DEF ReadTaskLost
<1>5. CASE ApplyBatch(h)
  BY <1>0, <1>5, FinishGetsOn DEF ApplyBatch
<1> QED
  BY <1>2, <1>3, <1>4, <1>5

LEMMA RequestGetsOn ==
  ASSUME IsFiniteSet(Uris), TypeOK, TypeOK', NEW h \in Slots,
         \/ HoverDocs(h) \/ CompletionConfig(h)
         \/ FormattingDocs(h) \/ FormattingConfig(h)
         \/ DefinitionDocs(h) \/ DefinitionSyms(h)
         \/ ReferencesDocs(h) \/ ReferencesAll(h) \/ ReferencesSyms(h)
         \/ SymbolSyms(h)
  PROVE  StepsLeft(h)' \in 0 .. StepsLeft(h) - 1
<1>0. /\ {"hoverDocs", "completionConfig", "formattingDocs", "formattingConfig", "definitionDocs",
           "definitionSyms", "referencesDocs", "referencesAll", "referencesSyms", "symbolSyms"}
           \subseteq PCs \ {"idle", "flush", "openUris", "config", "snapshot", "reading"}
      /\ AwaitsLeft["hoverDocs"] < AwaitsLeft["completionConfig"]
      /\ AwaitsLeft["formattingConfig"] < AwaitsLeft["formattingDocs"]
      /\ AwaitsLeft["definitionSyms"] < AwaitsLeft["definitionDocs"]
      /\ AwaitsLeft["referencesAll"] < AwaitsLeft["referencesDocs"]
      /\ AwaitsLeft["referencesSyms"] < AwaitsLeft["referencesAll"]
  BY DEF PCs, AwaitsLeft
<1>1. frame[h] \in Frame
  BY DEF TypeOK, HandlersOK
<1>2. ASSUME NEW from \in {"formattingConfig", "definitionSyms", "referencesSyms", "symbolSyms"},
             Answer(h, from)
      PROVE  StepsLeft(h)' \in 0 .. StepsLeft(h) - 1
  BY <1>0, <1>2, FinishGetsOn, SendGetsOn DEF Answer
<1>3. ASSUME NEW from \in {"formattingDocs", "definitionDocs", "referencesDocs"},
             NEW to \in {"formattingConfig", "definitionSyms", "referencesAll"},
             AwaitsLeft[to] < AwaitsLeft[from],
             RequestDocs(h, from, to)
      PROVE  StepsLeft(h)' \in 0 .. StepsLeft(h) - 1
  <2>1. ASSUME Run(h, from, to), frame' = [frame EXCEPT ![h].text = docs[frame[h].uri]]
        PROVE  StepsLeft(h)' \in 0 .. StepsLeft(h) - 1
    <3> DEFINE g == [frame[h] EXCEPT !.text = docs[frame[h].uri]]
    <3>1. g.todo = frame[h].todo
      BY <1>1 DEF Frame
    <3>2. frame' = [frame EXCEPT ![h] = g]
      BY <2>1
    <3> HIDE DEF g
    <3> QED
      BY <1>0, <1>3, <2>1, <3>1, <3>2, FreshFrameGetsOn
  <2> QED
    BY <1>0, <1>3, <2>1, FinishGetsOn DEF RequestDocs
<1>4. CASE HoverDocs(h)
  BY <1>0, <1>4, FinishGetsOn, SendGetsOn DEF HoverDocs
<1>5. CASE CompletionConfig(h)
  <2>1. Run(h, "completionConfig", "hoverDocs") /\ frame' = [frame EXCEPT ![h] = frame[h]]
    BY <1>5 DEF CompletionConfig, TypeOK, HandlersOK
  <2> QED
    BY <1>0, <2>1, KeepingFrameGetsOn
<1>6. CASE FormattingDocs(h) \/ DefinitionDocs(h) \/ ReferencesDocs(h)
  BY <1>0, <1>3, <1>6 DEF FormattingDocs, DefinitionDocs, ReferencesDocs
<1>7. CASE FormattingConfig(h) \/ DefinitionSyms(h) \/ ReferencesSyms(h) \/ SymbolSyms(h)
  BY <1>2, <1>7 DEF FormattingConfig, DefinitionSyms, ReferencesSyms, SymbolSyms
<1>8. CASE ReferencesAll(h)
  <2> DEFINE g == [frame[h] EXCEPT !.snap = docs]
  <2>1. g.todo = frame[h].todo
    BY <1>1 DEF Frame
  <2>2. Run(h, "referencesAll", "referencesSyms") /\ frame' = [frame EXCEPT ![h] = g]
    BY <1>8 DEF ReferencesAll
  <2> HIDE DEF g
  <2> QED
    BY <1>0, <2>1, <2>2, FreshFrameGetsOn
<1> QED
  BY <1>4, <1>5, <1>6, <1>7, <1>8

LEMMA StepGetsOn ==
  ASSUME IsFiniteSet(Uris), TypeOK, TypeOK', NEW h \in Slots, Step(h)
  PROVE  StepsLeft(h)' \in 0 .. StepsLeft(h) - 1
BY SyncGetsOn, DiagnosticsGetOn, BatchGetsOn, RequestGetsOn DEF Step

(* What any other handler does leaves h where it is, with what it has.     *)
LEMMA OthersKeep ==
  ASSUME TypeOK, NEW h \in Slots, NEW g \in Slots, g # h, Receive(g) \/ Step(g)
  PROVE  pc'[h] = pc[h] /\ frame'[h] = frame[h]
<1>0. pc \in [Slots -> PCs] /\ frame \in [Slots -> Frame]
  BY DEF TypeOK, HandlersOK
<1>1. ASSUME NEW from, NEW to, Run(g, from, to)
      PROVE  pc'[h] = pc[h]
  BY <1>0, <1>1 DEF Run
<1>2. ASSUME NEW from, Finish(g, from) \/ Send(g, from)
      PROVE  pc'[h] = pc[h] /\ frame'[h] = frame[h]
  BY <1>0, <1>1, <1>2 DEF Finish, Send
<1>3. ASSUME NEW from, NextDocument(g, from)
      PROVE  pc'[h] = pc[h] /\ frame'[h] = frame[h]
  BY <1>0, <1>1, <1>2, <1>3 DEF NextDocument
<1>4. ASSUME NEW from, NEW to, LockDocs(g, from, to)
      PROVE  pc'[h] = pc[h] /\ frame'[h] = frame[h]
  BY <1>0, <1>1, <1>4 DEF LockDocs
<1>5. ASSUME NEW from, NEW to, RequestDocs(g, from, to)
      PROVE  pc'[h] = pc[h] /\ frame'[h] = frame[h]
  BY <1>0, <1>1, <1>2, <1>5 DEF RequestDocs
<1>6. ASSUME NEW from, Answer(g, from)
      PROVE  pc'[h] = pc[h] /\ frame'[h] = frame[h]
  BY <1>2, <1>6 DEF Answer
<1>7. CASE Receive(g)
  BY <1>0, <1>1, <1>7
     DEF Receive, ReceiveOpen, ReceiveChange, ReceiveClose, ReceiveConfig, ReceiveWatched,
         ReceiveRequest, Start
<1>8. CASE \/ Source(g) \/ SyncLiveDocs(g) \/ SyncLive(g) \/ SyncCloseDocs(g) \/ SyncClose(g)
  BY <1>0, <1>1, <1>2, <1>4, <1>8 DEF Source, SyncLiveDocs, SyncLive, SyncCloseDocs, SyncClose, Publish
<1>9. CASE \/ Analysis(g) \/ PublishDiagnostics(g) \/ Flush(g) \/ SetConfig(g) \/ OpenUris(g)
  BY <1>0, <1>1, <1>2, <1>3, <1>9 DEF Analysis, PublishDiagnostics, Publish, Flush, SetConfig, OpenUris
<1>10. CASE TakeSnapshot(g) \/ ReadFile(g) \/ ReadTaskLost(g) \/ ApplyBatch(g)
  BY <1>0, <1>1, <1>2, <1>10 DEF TakeSnapshot, ReadFile, ReadTaskLost, ApplyBatch
<1>11. CASE \/ HoverDocs(g) \/ CompletionConfig(g)
            \/ FormattingDocs(g) \/ FormattingConfig(g)
            \/ DefinitionDocs(g) \/ DefinitionSyms(g)
            \/ ReferencesDocs(g) \/ ReferencesAll(g) \/ ReferencesSyms(g)
            \/ SymbolSyms(g)
  BY <1>0, <1>1, <1>2, <1>5, <1>6, <1>11
     DEF HoverDocs, CompletionConfig, FormattingDocs, FormattingConfig, DefinitionDocs, DefinitionSyms,
         ReferencesDocs, ReferencesAll, ReferencesSyms, SymbolSyms
<1> QED
  BY <1>7, <1>8, <1>9, <1>10, <1>11 DEF Step

(* Every step of a handler lowers the number of steps it has left, and no  *)
(* step of another handler, of the client or of the file system raises it: *)
(* nobody can keep a handler busy, by opening documents while a change of  *)
(* configuration republishes them, or by sending file events while a batch *)
(* is read.                                                                *)
HandlersGetOn ==
  [][\A h \in Slots :
       /\ Step(h) => StepsLeft(h)' \in 0 .. StepsLeft(h) - 1
       /\ pc[h] # "idle" => StepsLeft(h)' <= StepsLeft(h)]_vars

(* With finitely many documents, a handler that has started has a number   *)
(* of steps left that only goes down, whatever interleaves with it.        *)
THEOREM HandlersAreBounded ==
  ASSUME IsFiniteSet(Uris)
  PROVE  Spec => HandlersGetOn
<1>1. ASSUME TypeOK, TypeOK', [Next]_vars, NEW h \in Slots
      PROVE  /\ Step(h) => StepsLeft(h)' \in 0 .. StepsLeft(h) - 1
             /\ pc[h] # "idle" => StepsLeft(h)' <= StepsLeft(h)
  <2>1. StepsLeft(h) \in Nat
    <3>1. pc[h] \in PCs /\ frame[h] \in Frame /\ FrameFits(pc[h], frame[h])
      BY <1>1 DEF TypeOK, HandlersOK
    <3> QED
      BY <3>1, StepsLeftParts DEF StepsLeft, StepsLeftAt
  <2>2. Step(h) => StepsLeft(h)' \in 0 .. StepsLeft(h) - 1
    BY <1>1, StepGetsOn
  <2>3. pc[h] # "idle" => ~Receive(h)
    BY DEF Receive, ReceiveOpen, ReceiveChange, ReceiveClose, ReceiveConfig, ReceiveWatched,
           ReceiveRequest, Start, Run
  <2>4. ASSUME pc'[h] = pc[h], frame'[h] = frame[h]
        PROVE  StepsLeft(h)' = StepsLeft(h)
    BY <2>4 DEF StepsLeft, StepsLeftAt, ToPublish, FilesToRead
  <2>5. CASE FileSystem \/ UNCHANGED vars
    <3>1. pc' = pc /\ frame' = frame
      BY <2>5 DEF FileSystem, WriteFile, DeleteFile, vars
    <3> QED
      BY <2>1, <2>2, <2>4, <3>1
  <2>6. ASSUME NEW g \in Slots, g # h, Receive(g) \/ Step(g)
        PROVE  pc'[h] = pc[h] /\ frame'[h] = frame[h]
    BY <1>1, <2>6, OthersKeep
  <2>7. CASE \E g \in Slots : g # h /\ (Receive(g) \/ Step(g))
    BY <2>1, <2>2, <2>4, <2>6, <2>7
  <2>8. CASE Step(h)
    BY <2>1, <2>2, <2>8
  <2>9. CASE Receive(h)
    BY <2>2, <2>3, <2>9
  <2> QED
    BY <1>1, <2>5, <2>7, <2>8, <2>9 DEF Next
<1>2. TypeOK /\ TypeOK' /\ [Next]_vars =>
        [\A h \in Slots :
           /\ Step(h) => StepsLeft(h)' \in 0 .. StepsLeft(h) - 1
           /\ pc[h] # "idle" => StepsLeft(h)' <= StepsLeft(h)]_vars
  BY <1>1
<1> QED
  BY <1>2, TypeCorrect, PTL DEF Spec, HandlersGetOn

-----------------------------------------------------------------------------
(* No circular wait over the documents lock and the executor.              *)

(* The .awaits for the documents lock, as a reader or as a writer.         *)
AwaitsDocs ==
  {"source", "liveDocs", "closeDocs", "analysis", "openUris", "snapshot", "hoverDocs",
   "formattingDocs", "definitionDocs", "referencesDocs", "referencesAll"}

(* The guard of the step a handler takes next.                             *)
CanGoOn(h) ==
  /\ pc[h] # "idle"
  /\ running \in {Nobody, h}
  /\ pc[h] \in AwaitsDocs => docsLock = Nobody

(* The lock belongs to who stands between the two locks of with_both, the  *)
(* executor to who stands at an .await that does not give it up.           *)
HoldingInv ==
  \A h \in Slots :
    /\ docsLock = h <=> pc[h] \in {"liveSyms", "closeSyms"}
    /\ running = h <=> ~YieldAtLocks /\ pc[h] \notin Suspending

LEMMA HoldingInitial == Init => HoldingInv
BY SlotsAssumption DEF Init, HoldingInv, Suspending

(* A handler that neither takes the lock nor has it.                       *)
LEMMA HoldingRun ==
  ASSUME TypeOK, HoldingInv, NEW h \in Slots, NEW from, NEW to,
         from \notin {"liveSyms", "closeSyms"}, to \notin {"liveSyms", "closeSyms"},
         Run(h, from, to), docsLock' = docsLock
  PROVE  HoldingInv'
<1>1. /\ pc[h] = from /\ running \in {Nobody, h} /\ pc' = [pc EXCEPT ![h] = to]
      /\ running' = IF YieldAtLocks \/ to \in Suspending THEN Nobody ELSE h
      /\ pc \in [Slots -> PCs]
  BY DEF Run, TypeOK, HandlersOK
<1>2. ASSUME NEW g \in Slots
      PROVE  /\ docsLock' = g <=> pc'[g] \in {"liveSyms", "closeSyms"}
             /\ running' = g <=> ~YieldAtLocks /\ pc'[g] \notin Suspending
  <2>1. CASE g = h
    BY <1>1, <2>1, SlotsAssumption DEF HoldingInv
  <2>2. CASE g # h
    BY <1>1, <2>2, SlotsAssumption DEF HoldingInv
  <2> QED
    BY <2>1, <2>2
<1> QED
  BY <1>2 DEF HoldingInv

(* with_both, from the first lock to the second.                           *)
LEMMA HoldingLock ==
  ASSUME TypeOK, HoldingInv, NEW h \in Slots, NEW from, NEW to \in {"liveSyms", "closeSyms"},
         LockDocs(h, from, to)
  PROVE  HoldingInv'
<1>1. /\ pc[h] = from /\ running \in {Nobody, h} /\ pc' = [pc EXCEPT ![h] = to]
      /\ running' = IF YieldAtLocks \/ to \in Suspending THEN Nobody ELSE h
      /\ pc \in [Slots -> PCs] /\ docsLock = Nobody /\ docsLock' = h
  BY DEF LockDocs, Run, TypeOK, HandlersOK
<1>2. ASSUME NEW g \in Slots
      PROVE  /\ docsLock' = g <=> pc'[g] \in {"liveSyms", "closeSyms"}
             /\ running' = g <=> ~YieldAtLocks /\ pc'[g] \notin Suspending
  <2>1. CASE g = h
    BY <1>1, <2>1, SlotsAssumption DEF Suspending
  <2>2. CASE g # h
    BY <1>1, <2>2, SlotsAssumption DEF HoldingInv
  <2> QED
    BY <2>1, <2>2
<1> QED
  BY <1>2 DEF HoldingInv

(* with_both, from the second lock on: both guards are dropped.            *)
LEMMA HoldingUnlock ==
  ASSUME TypeOK, HoldingInv, NEW h \in Slots, NEW from \in {"liveSyms", "closeSyms"}, NEW to,
         to \notin {"liveSyms", "closeSyms"},
         Run(h, from, to), docsLock' = Nobody
  PROVE  HoldingInv'
<1>1. /\ pc[h] = from /\ running \in {Nobody, h} /\ pc' = [pc EXCEPT ![h] = to]
      /\ running' = IF YieldAtLocks \/ to \in Suspending THEN Nobody ELSE h
      /\ pc \in [Slots -> PCs] /\ docsLock = h
  BY DEF Run, TypeOK, HandlersOK, HoldingInv
<1>2. ASSUME NEW g \in Slots
      PROVE  /\ docsLock' = g <=> pc'[g] \in {"liveSyms", "closeSyms"}
             /\ running' = g <=> ~YieldAtLocks /\ pc'[g] \notin Suspending
  <2>1. CASE g = h
    BY <1>1, <2>1, SlotsAssumption
  <2>2. CASE g # h
    BY <1>1, <2>2, SlotsAssumption DEF HoldingInv
  <2> QED
    BY <2>1, <2>2
<1> QED
  BY <1>2 DEF HoldingInv

LEMMA HoldingStep ==
  ASSUME TypeOK, HoldingInv, [Next]_vars
  PROVE  HoldingInv'
<1>1. ASSUME pc' = pc, docsLock' = docsLock, running' = running
      PROVE  HoldingInv'
  BY <1>1 DEF HoldingInv
<1>2. ASSUME NEW h \in Slots, Receive(h)
      PROVE  HoldingInv'
  <2>1. \A r \in Requests : FirstAwait[r] \notin {"liveSyms", "closeSyms"}
    BY BoundsAssumption DEF FirstAwait
  <2>2. \E to : Run(h, "idle", to) /\ to \notin {"liveSyms", "closeSyms"} /\ docsLock' = docsLock
    BY <1>2, <2>1
       DEF Receive, ReceiveOpen, ReceiveChange, ReceiveClose, ReceiveConfig, ReceiveWatched,
           ReceiveRequest, Start, server
  <2> QED
    BY <2>2, HoldingRun
<1>3. ASSUME NEW h \in Slots, Step(h)
      PROVE  HoldingInv'
  <2>1. ASSUME NEW from, from \notin {"liveSyms", "closeSyms"}, UNCHANGED server,
               \/ Finish(h, from) \/ Send(h, from) \/ NextDocument(h, from)
               \/ Run(h, from, "analysis")
        PROVE  HoldingInv'
    <3>1. docsLock' = docsLock
      BY <2>1 DEF server
    <3>2. CASE Finish(h, from) \/ Send(h, from)
      BY <2>1, <3>1, <3>2, HoldingRun DEF Finish, Send
    <3>3. CASE Run(h, from, "analysis")
      BY <2>1, <3>1, <3>3, HoldingRun
    <3>4. CASE NextDocument(h, from)
      BY <3>2, <3>3, <3>4 DEF NextDocument
    <3> QED
      BY <2>1, <3>2, <3>3, <3>4
  <2>a. ASSUME NEW from, NEW to, from \notin {"liveSyms", "closeSyms"}, to \notin {"liveSyms", "closeSyms"},
               Run(h, from, to), UNCHANGED server
        PROVE  HoldingInv'
    BY <2>a, HoldingRun DEF server
  <2>2. CASE SyncLiveDocs(h) \/ SyncCloseDocs(h)
    BY <2>2, HoldingLock DEF SyncLiveDocs, SyncCloseDocs
  <2>3. CASE SyncLive(h) \/ SyncClose(h)
    BY <2>3, HoldingUnlock DEF SyncLive, SyncClose, Publish, Send
  <2>4. CASE Source(h)
    BY <2>4, <2>a DEF Source
  <2>5. CASE Analysis(h)
    BY <2>1, <2>5, <2>a DEF Analysis
  <2>6. CASE PublishDiagnostics(h)
    BY <2>1, <2>6 DEF PublishDiagnostics, Publish
  <2>7. CASE Flush(h)
    BY <2>1, <2>7 DEF Flush
  <2>8. CASE SetConfig(h)
    BY <2>8, HoldingRun DEF SetConfig
  <2>9. CASE OpenUris(h)
    <3>1. UNCHANGED server /\ (Finish(h, "openUris") \/ Run(h, "openUris", "analysis"))
      BY <2>9 DEF OpenUris
    <3> QED
      BY <2>1, <3>1
  <2>10. CASE TakeSnapshot(h)
    BY <2>10, <2>a DEF TakeSnapshot
  <2>11. CASE ReadFile(h)
    BY <1>1, <2>11 DEF ReadFile, server
  <2>12. CASE ReadTaskLost(h)
    BY <2>1, <2>12 DEF ReadTaskLost
  <2>13. CASE ApplyBatch(h)
    BY <2>13, HoldingRun DEF ApplyBatch, Finish
  <2>14. CASE HoverDocs(h)
    BY <2>1, <2>14 DEF HoverDocs
  <2>15. CASE CompletionConfig(h)
    BY <2>15, <2>a DEF CompletionConfig
  <2>16. CASE FormattingDocs(h) \/ DefinitionDocs(h) \/ ReferencesDocs(h)
    BY <2>1, <2>16, <2>a DEF FormattingDocs, DefinitionDocs, ReferencesDocs, RequestDocs
  <2>17. CASE FormattingConfig(h) \/ DefinitionSyms(h) \/ ReferencesSyms(h) \/ SymbolSyms(h)
    BY <2>1, <2>17 DEF FormattingConfig, DefinitionSyms, ReferencesSyms, SymbolSyms, Answer
  <2>18. CASE ReferencesAll(h)
    BY <2>18, <2>a DEF ReferencesAll
  <2> QED
    BY <1>3, <2>2, <2>3, <2>4, <2>5, <2>6, <2>7, <2>8, <2>9, <2>10, <2>11, <2>12, <2>13, <2>14,
       <2>15, <2>16, <2>17, <2>18 DEF Step
<1>4. CASE FileSystem \/ UNCHANGED vars
  BY <1>1, <1>4 DEF FileSystem, WriteFile, DeleteFile, server, vars
<1> QED
  BY <1>2, <1>3, <1>4 DEF Next

(* A handler that cannot go on waits for one that can: the holder of the   *)
(* documents lock or of the executor, and neither waits for anybody.  The  *)
(* stores' locks are taken in one order and the documents guard is held    *)
(* across no other .await than the symbols lock.                           *)
NoCircularWait ==
  \A h \in Slots :
    pc[h] # "idle" => CanGoOn(h) \/ \E g \in {running, docsLock} \cap Slots : CanGoOn(g)

(* Whatever interleaves, whether lock .awaits suspend or not: no deadlock  *)
(* over the two stores and the executor.                                   *)
THEOREM NoDeadlock == Spec => []NoCircularWait
<1>1. ASSUME TypeOK, HoldingInv
      PROVE  NoCircularWait
  <2> SUFFICES ASSUME NEW h \in Slots, pc[h] # "idle", ~CanGoOn(h)
               PROVE  \E g \in {running, docsLock} \cap Slots : CanGoOn(g)
    BY DEF NoCircularWait
  <2>1. running \in Slots \cup {Nobody} /\ docsLock \in Slots \cup {Nobody}
    BY <1>1 DEF TypeOK, HandlersOK
  <2>2. CASE running \in Slots
    <3>1. ~YieldAtLocks /\ pc[running] \notin Suspending
      BY <1>1, <2>2 DEF HoldingInv
    <3>2. docsLock \in Slots => running = docsLock
      BY <1>1, <3>1 DEF HoldingInv, Suspending
    <3>3. pc[running] \in AwaitsDocs => docsLock = Nobody
      BY <1>1, <2>1, <2>2, <3>2 DEF HoldingInv, AwaitsDocs
    <3> QED
      BY <2>2, <3>1, <3>3 DEF CanGoOn, Suspending
  <2>3. CASE running = Nobody
    <3>1. docsLock \in Slots
      BY <2>1, <2>3 DEF CanGoOn
    <3>2. pc[docsLock] \in {"liveSyms", "closeSyms"}
      BY <1>1, <3>1 DEF HoldingInv
    <3> QED
      BY <2>3, <3>1, <3>2 DEF CanGoOn, AwaitsDocs
  <2> QED
    BY <2>1, <2>2, <2>3
<1>2. TypeOK /\ HoldingInv /\ [Next]_vars => HoldingInv'
  BY HoldingStep
<1> QED
  BY <1>1, <1>2, HoldingInitial, TypeCorrect, PTL DEF Spec

=============================================================================
