SPECIFICATION Spec
CONSTANTS
  LongSize = 2
  MaxImage = 40
  HeapBytes = {0, 77}
  Files <- MCFiles
  Hubs <- MCHubs
  Methods = {"single", "fast"}
  Programmer <- MCProgrammer
  LoaderLongs = 6
  PageLongs = 2
  SmallPages = 4
  BigPages = 8
  SmallMax = 4
  FlashPages = 16
  Erased = 65535
  Garbage = 123457
  Prop = 1000003
  MaxJobs = 2
  MaxCuts = 2
INVARIANTS NoErrantApp BootsWhatWasFlashed
PROPERTIES AlwaysBoots
CHECK_DEADLOCK FALSE
