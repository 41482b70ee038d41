SPECIFICATION Spec
CONSTANTS
  Tids = {t1, t2}
  Cpu = c1
  Interval = 2
  MaxTime = 5
  MaxStacks = 3
  MaxStarts = 1
INVARIANTS
  StackOfItsTime
  NothingLeftWaiting
  TimeConserved
SYMMETRY Symmetry
PROPERTIES
  SamplesInTimeOrder
CHECK_DEADLOCK FALSE
