SPECIFICATION MCSpec
CONSTANTS
  HubSize = 24
  MailBase = 9
  PageSize = 2
  SectorSize = 8
  FlashSize = 32
  Burst = 1000
  FlashContents <- MCFlash
  ChunkSize = 4
  BufBase = 14
  HelperBase = 8
  ErrText <- MCErrText
  Jobs <- AllJobs
  HostChunk = 4
  HostHelper = 8
  HelperImage <- MCHelperImage
  StubByte = 90
  MaxFaults = 1
  CorruptBytes = {0, 200}
  HeapBytes = {0, 77}
  Hasty <- BinJobs
INVARIANTS TypeOK PingPongSafe NoOverrun MailboxIntact StartsFirstFile
PROPERTIES ProgramErased HostTerminates SuccessLaunches KeepsPromise
CHECK_DEADLOCK FALSE
