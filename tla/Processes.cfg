SPECIFICATION Spec
CONSTANTS
  Pids = {p, q}
  Tids = {t, u}
  Names = {a, b}
  MaxProcesses = 3
  MaxThreads = 4
SYMMETRY IdSymmetry
INVARIANTS
  HandlesUnshared
  ShownNames
  ShownUnderItsProcess
