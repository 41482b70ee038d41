SPECIFICATION FCSpec
CONSTANTS
  Calls = {a, b, c}
  Evictions = "any"
SYMMETRY CallSymmetry
INVARIANTS
  DestinationIsWhole
