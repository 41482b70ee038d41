SPECIFICATION Spec
CONSTANTS
  Pids = {1, 2}
  First = 1
  Span = 2
  MaxTime = 5
INVARIANTS
  NeverMisattributed
  Attributed
  BackdatedWithinSleep
