SPECIFICATION Spec
CONSTANTS
  w1 = w1
  h1 = h1
  r1 = r1
  r2 = r2
  Cid = "cid"
  Bids = {1}
  Workers = {w1}
  Handlers = {h1}
  FetchAttempts = 1
  ConcurrentImports = 0
  DefaultListLimit = 1
  MaxListLimit = 1
  DiscardOrphans = TRUE
  StoreFails = FALSE
  MaxBoots = 1
  Requests = {r1}
  ChunkedDownload = FALSE
INVARIANTS
  InvalidCarReported
CHECK_DEADLOCK FALSE
