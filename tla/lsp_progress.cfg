SPECIFICATION FairSpec
CONSTANTS
  t0 = t0
  t1 = t1
  Texts = {t0}
  EmptyText = t0
  Uris = {u1}
  Edits <- NeutralEdits
  Configs = {c1}
  DefaultConfig = c1
  Slots = {h1, h2}
  Requests = {"references"}
  MaxEvents = 1
  BatchesOverlap = TRUE
  YieldAtLocks = TRUE
  ReadErrors = TRUE
  NoDoc = NoDoc
  NoEntry = NoEntry
  Nobody = Nobody
PROPERTIES
  EveryHandlerReturns
