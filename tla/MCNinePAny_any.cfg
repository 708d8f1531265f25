SPECIFICATION MCSpec
CONSTANTS
  f1 = f1
  f2 = f2
  Names = {"a", "b", "d"}
  Inodes = {1, 2, 3, 4, 5}
  Root = 1
  Byte = {0, 1}
  Nothing = Nothing
  FidIds = {f1, f2}
  NoFid = NoFid
  EntrySize <- MCEntrySize
  LENSZ = 1
  IOHDRSZ = 3
  ServerMsize = 9
  ReplySize <- MCReplySize
  QidSize = 1
  StatSize = 2
  ErrorSizes = {2, 4}
  LineFails = TRUE
  MaxWalk = 2
  Menus <- MCMenus
  MaxOutside = 1
  Radix = 8
  FidNo <- MCFidNo
  Spelling <- MCSpelling
INVARIANTS TypeOK HandleMatches ListsEachOnce WireUnambiguous
PROPERTIES RefusalKeepsFids AlwaysAnswers
