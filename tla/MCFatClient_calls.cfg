SPECIFICATION Spec
CONSTANTS
  SectorSize = 2
  ClusterSize = 2
  FatPerSector = 4
  DirPerSector = 2
  Clusters = 8
  NFats = 2
  PartitionAt = 0
  Cards <- MCCards
  Names = {"a", "b", "c"}
  Blocks <- MCBlocks
  Reads = {1, 5}
  Places = {0, 4, 7}
  Modes <- MCModes
  MaxCalls = 5
INVARIANTS ObjectInChain ClosedIsTidy ShortOnlyWhenFull
PROPERTIES KeepsFiles
CHECK_DEADLOCK FALSE
