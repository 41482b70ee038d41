SPECIFICATION FairSpec
CONSTANTS
  Lookups = {a, b}
  NServers = 2
  Contents <- MCContents
  DebugId = 1
  Cuts = {60}
  Networks <- MCNetworks
  Addresses <- MCAddresses
  MaxChunk = 3
  ReadSize = 7
  ChunkSize = 4
  MaxEvictions = 1
INVARIANTS
  SymbolsOfTheirFile
  DownloadsEndOnce
  FailsOnlyWithoutFile
PROPERTIES EveryLookupEnds
