SPECIFICATION FairSpec
CONSTANTS
  c1 = c1
  c2 = c2
  Callers = {c1, c2}
  Books <- AllBooks
  MaxVersions = 2
  MaxCalls = 2
INVARIANTS
  TypeOK
  ReloadConfirmed
  VerifiedFirstMatch
  
PROPERTIES
  CallReturns
CHECK_DEADLOCK FALSE
