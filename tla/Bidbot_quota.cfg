SPECIFICATION Spec
CONSTANTS
  w1 = w1
  h1 = h1
  v1 = v1
  v2 = v2
  Bids = {1,2}
  Workers = {w1}
  Handlers = {h1}
  Winners = {v1}
  FetchAttempts = 1
  ConcurrentImports = 0
  ListLimit = 1
  DiscardOrphans = TRUE
  StoreFails = TRUE
  MaxBoots = 2
  Limit = 1
  Period = 1
  Expiration = 1
  Word = 8
  MaxLag = 0
  MaxTime = 2
  MaxGrants = 2
  DealSize <- UnitSizes
INVARIANTS
  TypeOK
  DownloadSecured
  ImportsCounted
  OutcomeSettles
  QuotaHeld
CONSTRAINT Bounds
CHECK_DEADLOCK FALSE
