SPECIFICATION FairSpec
CONSTANTS
  w1 = w1
  w2 = w2
  h1 = h1
  h2 = h2
  Bids = {1, 2}
  Workers = {w1}
  Handlers = {h1}
  FetchAttempts = 2
  ConcurrentImports = 0
  ListLimit = 10
  DiscardOrphans = FALSE
  StoreFails = FALSE
  MaxBoots = 1
PROPERTIES
  AcceptedIsDownloaded
CHECK_DEADLOCK FALSE
