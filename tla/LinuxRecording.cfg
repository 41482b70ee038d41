SPECIFICATION FairSpec
CONSTANTS
  Modes = {"launch", "pid"}
  Iterations = 2
  MaxPresses = 2
INVARIANTS
  ExecOnlyWhenObserved
  RecordedToTheEnd
PROPERTIES
  SuspendedChildGoesOn
  
