SPECIFICATION FairSpec
CONSTANTS
  Groups = {3, 5}
  Size = 2
  MaxTime = 2
  MaxRecords = 3
INVARIANTS
  RingAccounting
  RemovedRingsAreDrained
PROPERTIES
  OutputSorted
  EverythingDelivered
