CONSTANTS
  CommandLines <- MCCommandLines
  Programs <- MCPrograms
  Means <- MCMeans
  FileData <- MCFileData
  DefaultWait = 4
  Second = 2
  Tries = 2
  Retries = 2
  MaxHiccups = 2
  TermBuf = 4
  Keys <- MCKeys
  MaxTyped = 1
SPECIFICATION Spec
INVARIANT RecvHears
CHECK_DEADLOCK FALSE
