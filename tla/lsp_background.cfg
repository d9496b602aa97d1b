SPECIFICATION Spec
CONSTANTS
  t0 = t0
  t1 = t1
  Texts = {t0, t1}
  EmptyText = t0
  Uris = {u1}
  Edits <- AllEdits
  Configs = {c1}
  DefaultConfig = c1
  Slots = {h1, h2}
  Requests = {}
  MaxEvents = 1
  BatchesOverlap = TRUE
  YieldAtLocks = FALSE
  ReadErrors = FALSE
  NoDoc = NoDoc
  NoEntry = NoEntry
  Nobody = Nobody
INVARIANTS
  BackgroundMatchesDisk
