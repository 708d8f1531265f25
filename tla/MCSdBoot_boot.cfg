SPECIFICATION Spec
CONSTANTS
  SectorSize = 2
  ClusterSize = 2
  FatPerSector = 4
  DirPerSector = 2
  Clusters = 8
  NFats = 2
  PartitionAt = 1
  FILENAME = "boot"
  Cards <- MCCards
  Jobs <- MCJobs
  Faults = {"none", "glitch", "dead"}
  MaxLeft = 45
INVARIANTS CardSound BootFileOldOrNew OKMeansThere
PROPERTIES ComesToEnd
CHECK_DEADLOCK FALSE
