SPECIFICATION FCFairSpec
CONSTANTS
  Calls = {a, b, c}
  Evictions = "quiet"
INVARIANTS
  OneWriter
  DestinationIsWhole
PROPERTIES
  ImplementsCleanFile
  EveryCallEnds
