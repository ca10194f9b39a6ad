SPECIFICATION Spec
CONSTANTS
  w1 = w1
  w2 = w2
  h1 = h1
  h2 = h2
  Bids = {1, 2}
  Workers = {w1}
  Handlers = {h1, h2}
  FetchAttempts = 2
  ConcurrentImports = 0
  ListLimit = 10
  DiscardOrphans = TRUE
  StoreFails = TRUE
  MaxBoots = 2
INVARIANTS
  Inv
PROPERTIES
  ImplementsLifecycle
SYMMETRY Symmetry
CONSTRAINT NoneRaced
CHECK_DEADLOCK FALSE
