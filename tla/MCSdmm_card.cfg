SPECIFICATION Spec
CONSTANTS
  Kinds = {"SD2HC", "SD2", "SD1", "MMC"}
  Sectors = 2
  SectorSize = 4
  MaxWarm = 2
  Tries = 3
  MaxCalls = 4
  MaxFaults = 2
  Sizes <- MCSizes
INVARIANTS SyncedMeansStored InStep
PROPERTIES TellsTruth
CHECK_DEADLOCK FALSE
