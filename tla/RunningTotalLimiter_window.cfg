SPECIFICATION Spec
CONSTANTS
  auction1 = auction1
  auction2 = auction2
  Ids = {auction1, auction2}
  Sizes = {1, 2}
  Limit = 3
  Period = 2
  Expiration = 1
  Word = 16
  MaxLag = 1
  MaxTime = 4
  MaxGrants = 3
INVARIANTS
  TypeOK
  Accounting
  WindowCapped
  TimersOwned
SYMMETRY IdSymmetry
CHECK_DEADLOCK FALSE
