SPECIFICATION FairSpec
CONSTANTS
  Modes = {"launch", "attach"}
  Iterations = 2
  MaxPid = 2
  ExecPids = {1}
  MaxImages = 2
  MaxFiles = 1
  MaxPresses = 1
INVARIANTS
  ReleasedTasksAreSampled
  PathsReachTheirTask
PROPERTIES
  HeldTasksGoOn
  RecordingEnds
CHECK_DEADLOCK FALSE
