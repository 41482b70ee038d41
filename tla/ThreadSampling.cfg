SPECIFICATION Spec
CONSTANTS
  Threads = {t1}
  Cpus = {c1}
  Interval = 2
  Reference = 1
  MaxTime = 7
INVARIANTS
  WallClockConserved
  StackIsOfThisSleep
PROPERTIES
  SamplesInTimeOrder
