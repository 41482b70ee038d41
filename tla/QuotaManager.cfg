SPECIFICATION FairSpec
CONSTANTS
  Files = {1, 2, 3}
  Size <- FileSizes
  MaxSize = 3
  MaxAge = 1
  MaxTime = 2
  MaxCreations = 3
INVARIANTS
PROPERTIES
  NoOverEviction
  QuotaEnforced
  FinishReturns
