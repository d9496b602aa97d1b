SPECIFICATION Spec
CONSTANTS
  t0 = t0
  t1 = t1
  Texts = {t0, t1}
  EmptyText = t0
  Uris = {u1}
  Edits <- ChangingEdits
  Configs = {c1}
  DefaultConfig = c1
  Slots = {h1, h2}
  Requests = {}
  MaxEvents = 2
  BatchesOverlap = FALSE
  YieldAtLocks = TRUE
  ReadErrors = FALSE
  NoDoc = NoDoc
  NoEntry = NoEntry
  Nobody = Nobody
INVARIANTS
  LiveEntriesMirrorDocuments
  BackgroundMatchesDisk
PROPERTIES
  LiveEntryLostOnlyToBatch
