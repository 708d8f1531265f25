SPECIFICATION MCSpec
CONSTANTS
  f1 = f1
  f2 = f2
  Names = {"a"}
  Inodes = {1, 2, 3}
  Root = 1
  Byte = {0, 1}
  Nothing = Nothing
  Files = {f1, f2}
  RootDir = RootDir
  FidIds = {f1, f2, RootDir}
  NoFid = NoFid
  EntrySize <- MCEntrySize
  LENSZ = 1
  IOHDRSZ = 3
  ServerMsize = 9
  ReplySize <- MCReplySize
  QidSize = 1
  StatSize = 2
  ErrorSizes = {2, 3}
  LineFails = FALSE
  MAXLEN = 5
  MINLEN = 3
  HDR = 2
  Calls <- FileCalls
  MaxOff = 4
  HostPaths <- HostA
  MaxOutside = 1
  Radix = 8
  FidNo <- MCFidNo
  Spelling <- MCSpelling
INVARIANTS OpenMeansOpen SpeaksOneLanguage
PROPERTIES CallsReturn KeepsFilePromise
