SPECIFICATION FairSpec
CONSTANTS
  t0 = t0
  t1 = t1
  Texts = {t0, t1}
  EmptyText = t0
  Uris = {u1, u2}
  Edits <- AllEdits
  Configs = {c1, c2}
  DefaultConfig = c1
  Slots = {h1, h2}
  Requests = {"hover", "completion", "formatting", "definition", "references", "symbol"}
  MaxEvents = 0
  BatchesOverlap = FALSE
  YieldAtLocks = FALSE
  ReadErrors = FALSE
  NoDoc = NoDoc
  NoEntry = NoEntry
  Nobody = Nobody
INVARIANTS
  TypeOK
  DocumentsMatchEditor
  DiagnosticsCurrent
  RequestsSeeOneState
PROPERTIES
  DiagnosticsConverge
