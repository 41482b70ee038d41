SPECIFICATION Spec
SYMMETRY Symmetry
CONSTANTS
  p1 = p1
  p2 = p2
  t1 = t1
  t2 = t2
  x = x
  y = y
  Pids = {p1, p2}
  Tids = {t1, t2}
  ProcessNames = {"a", "b"}
  ThreadNames = {x, y}
  IncludedNames = {"a"}
  IncludedPids = {}
  MaxTime = 6
  MaxUserEvents = 1
CHECK_DEADLOCK FALSE
INVARIANTS
  MarkerOnItsThread
  IntervalOfOneThread
  MethodInItsProcess
  ShownUnderItsProcess
