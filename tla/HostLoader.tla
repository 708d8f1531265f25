----------------------------- MODULE HostLoader -----------------------------
(***************************************************************************)
(* The host side of a multi-stage download (loadp2.c): loadfile drives     *)
(* downloadData once per block (the himem helper, every file or ELF        *)
(* section, the flash stub or the ARGv block) and ends with 'F' or '-'.    *)
(* It starts here after the fast loader has answered the autobaud          *)
(* handshake.                                                              *)
(*                                                                         *)
(* stage is the caller of downloadData, hpc the place inside it:           *)
(*    next    in the caller, about to start the next block                 *)
(*    mode    sendAddressSize, waiting for the reply to the header         *)
(*    data    sending num more bytes of the current chunk                  *)
(*    waitk   waiting for the device to ask for the next chunk             *)
(*    verify  verify_chksum                                                *)
(*    return  downloadData has returned ret                                *)
(*    ok      loadfile returned 0                                          *)
(*    fail    promptexit(1)                                                *)
(***************************************************************************)
EXTENDS SerialLink

CONSTANTS
  Jobs,         \* the command lines, see JobType
  HostChunk,    \* bytes the host sends at a time   (1024 in the code)
  HostHelper,   \* where the helper and ARGv go     ($FC000)
  HelperImage,  \* bytes of the himem helper
  HeapBytes,    \* what memory from malloc may hold
  StubByte      \* any byte of the flash stub but its length

(* A command line.  A file is "bin" (a raw image), "sized" (@ADDR+file) or *)
(* "elf" (loaded section by section; data is its flat image).              *)
SegType  == [addr : Long, data : Seq(Byte)]
FileType == [kind : {"bin", "sized", "elf"}, addr : Long, data : Seq(Byte),
             segs : Seq(SegType)]
JobType  == [helper : BOOLEAN, files : Seq(FileType), flash : BOOLEAN,
             argv : Seq(Byte)]

ASSUME JobAssumption ==
  /\ Jobs \subseteq JobType
  /\ \A j \in Jobs : j.flash => j.helper
  /\ HelperImage \in Seq(Byte)
  /\ StubByte \in Byte
  /\ HeapBytes \subseteq Byte /\ HeapBytes # {}
  /\ HostChunk \in Nat \ {0}
  /\ HostHelper \in 0..HimemBit-1

RoundUp(n) == n + ((-n) % LongBytes)

(* The sizes of blocks are ints in the code; the one of @ADDR+file has a   *)
(* long in front of the file, and files are sent in whole longs.           *)
Sized32(data) == RoundUp(Len(data) + LongBytes) \in Long
ASSUME SizeAssumption ==
  /\ Sized32(HelperImage)
  /\ \A j \in Jobs :
       /\ Sized32(j.argv)
       /\ \A i \in DOMAIN j.files :
            /\ Sized32(j.files[i].data)
            /\ \A k \in DOMAIN j.files[i].segs : Sized32(j.files[i].segs[k].data)

VARIABLES
  job,
  hpc, stage,
  fno, sno,   \* file and section being loaded
  elfsum,     \* size in loadElfSections, the sum of downloadData's results
  size,       \* size in loadfile, uninitialized at first
  top,        \* g_highest_hub_addr
  rest,       \* bytes of the block not sent yet
  num,        \* bytes of the chunk not sent yet
  sent, hsum, mode, ret

hostVars == <<job, hpc, stage, fno, sno, elfsum, size, top,
              rest, num, sent, hsum, mode, ret>>

HostStates == {"next", "mode", "data", "waitk", "verify", "return", "ok", "fail"}
Stages     == {"start", "helper", "files", "elf", "bin", "stub", "argv"}

chunkWhole(n) == n
chunk(n)   == IF n > HostChunk THEN HostChunk ELSE n

File    == job.files[fno]
Segment == File.segs[sno]

(* The stub as flashed: one scaled long of it holds the image length. *)
Stub(len) == [i \in 1..HostChunk |-> IF i = 3 THEN len % 256 ELSE StubByte]

-----------------------------------------------------------------------------
(* downloadData *)

(* Entry: skip an empty block, update the hub limit, send the header. *)
Download(addr, data, caller) ==
  /\ stage' = caller
  /\ hsum' = 0
  /\ sent' = 0
  /\ IF data = <<>>
     THEN /\ hpc' = "return"
          /\ ret' = 0
          /\ UNCHANGED <<h2d, rest, num, mode>>
     ELSE /\ hpc' = "mode"
          /\ h2d' = h2d \o <<ReqLoad>> \o tx_raw_long(addr) \o tx_raw_long(Len(data))
          /\ rest' = data
          /\ num' = chunk(Len(data))
          /\ UNCHANGED <<ret, mode>>

HubLimit(addr, data) ==
  IF data # <<>> /\ addr < HostHelper /\ addr + Len(data) > top
  THEN addr + Len(data) ELSE top

(* sendAddressSize's answer and the two tests on it. *)
HostMode ==
  /\ hpc = "mode"
  /\ d2h # <<>>
  /\ d2h' = Tail(d2h)
  /\ CASE Head(d2h) = RepWait                -> UNCHANGED <<hpc, mode>>
       [] Head(d2h) \in {RepStream, RepChunk} -> hpc' = "data" /\ mode' = Head(d2h)
       [] OTHER                              -> hpc' = "fail" /\ UNCHANGED mode
  /\ UNCHANGED <<h2d, job, stage, fno, sno, elfsum, size, top, rest, num,
                 sent, hsum, ret>>

(* tx and the checksum loop, a byte at a time; at the end of the chunk     *)
(* wait for 'k' in chunk mode, go on in stream mode, or verify.            *)
HostSend ==
  /\ hpc = "data"
  /\ h2d' = Append(h2d, Head(rest))
  /\ hsum' = (hsum + Head(rest)) % 256
  /\ sent' = sent + 1
  /\ rest' = Tail(rest)
  /\ num' = IF num = 1 THEN chunk(Len(rest) - 1) ELSE num - 1
  /\ hpc' = CASE num > 1                                     -> "data"
              [] num <= 1 /\ Len(rest) = 1                    -> "verify"
              [] num <= 1 /\ Len(rest) # 1 /\ mode = RepChunk -> "waitk"
              [] OTHER                                       -> "data"
  /\ UNCHANGED <<d2h, job, stage, fno, sno, elfsum, size, top, mode, ret>>

(* The answer to a chunk: 'k', or 'e' and a message, or anything else.  Of *)
(* the message one read takes what has arrived so far.                     *)
HostNextChunk ==
  /\ hpc = "waitk"
  /\ d2h # <<>>
  /\ mode' = Head(d2h)
  /\ \E n \in 1..Len(d2h) : /\ d2h' = SubSeq(d2h, n + 1, Len(d2h))
                            /\ n > 1 => Head(d2h) = RepError
  /\ IF Head(d2h) = RepChunk
     THEN hpc' = "data" /\ UNCHANGED ret
     ELSE hpc' = "return" /\ ret' = -1
  /\ UNCHANGED <<h2d, job, stage, fno, sno, elfsum, size, top, rest, num,
                 sent, hsum>>

HostVerify ==
  /\ hpc = "verify"
  /\ Len(d2h) >= 3
  /\ d2h' = SubSeq(d2h, 4, Len(d2h))
  /\ IF recv_chksum(d2h) = hsum
     THEN hpc' = "return" /\ ret' = sent
     ELSE hpc' = "fail" /\ UNCHANGED ret
  /\ UNCHANGED <<h2d, job, stage, fno, sno, elfsum, size, top, rest, num,
                 sent, hsum, mode>>

(* rx_timeout gave up: with no byte for the first two callers, with fewer  *)
(* than three for verify_chksum.                                           *)
TimedOutSingle == hpc \in {"mode", "waitk"} /\ d2h = <<>>
TimedOut == \/ hpc \in {"mode", "waitk"} /\ d2h = <<>>
            \/ hpc = "verify" /\ Len(d2h) < 3

HostTimeout ==
  /\ TimedOut
  /\ IF hpc = "waitk"
     THEN hpc' = "return" /\ ret' = -1
     ELSE hpc' = "fail" /\ UNCHANGED ret
  /\ d2h' = <<>>
  /\ UNCHANGED <<h2d, job, stage, fno, sno, elfsum, size, top, rest, num,
                 sent, hsum, mode>>

(* rx_timeout returns what a single read gives: a reply that is still      *)
(* arriving is taken for a missing one.                                    *)
HostShortRead ==
  /\ hpc = "verify"
  /\ d2h # <<>>
  /\ hpc' = "fail"
  /\ d2h' = Tail(d2h)
  /\ UNCHANGED <<h2d, job, stage, fno, sno, elfsum, size, top, rest, num, sent,
                 hsum, mode, ret>>

-----------------------------------------------------------------------------
(* loadfile and loadElfSections *)

HostStart ==
  /\ hpc = "next" /\ stage = "start"
  /\ IF job.helper
     THEN Download(HostHelper, HelperImage, "helper")
     ELSE stage' = "files" /\ UNCHANGED <<h2d, hpc, rest, num, sent, hsum, mode, ret>>
  /\ UNCHANGED <<d2h, job, fno, sno, elfsum, size, top>>

HostHelperLoaded ==
  /\ hpc = "return" /\ stage = "helper"
  /\ IF ret = Len(HelperImage)
     THEN /\ h2d' = Append(h2d, ReqCall)
          /\ hpc' = "next"
          /\ stage' = "files"
     ELSE hpc' = "fail" /\ UNCHANGED <<h2d, stage>>
  /\ UNCHANGED <<d2h, job, fno, sno, elfsum, size, top, rest, num, sent, hsum,
                 mode, ret>>

(* The bytes readBinaryFile makes of a file that is not an ELF file: for   *)
(* @ADDR+file it prepends the long at &size, the value size has before the *)
(* call; and it rounds the length up, with what malloc's memory holds.     *)
Prefixed(f) == IF f.kind = "sized" THEN tx_raw_long(size) \o f.data ELSE f.data
PaddingAlways(n) == [1..LongBytes - (n % LongBytes) -> HeapBytes]
Padding(n) == [1..RoundUp(n) - n -> HeapBytes]

FileImages(f) ==
  IF f.kind = "elf" \/ f.data = <<>> THEN {f.data}
  ELSE {Prefixed(f) \o pad : pad \in Padding(Len(Prefixed(f)))}

LoadBinary ==
  \E image \in FileImages(File) :
    /\ Download(File.addr, image, "bin")
    /\ size' = Len(image)
    /\ top' = HubLimit(File.addr, image)

HostFile ==
  /\ hpc = "next" /\ stage = "files"
  /\ fno <= Len(job.files)
  /\ \/ /\ File.kind = "elf"
        /\ stage' = "elf" /\ sno' = 1 /\ elfsum' = 0
        /\ UNCHANGED <<h2d, hpc, size, top, rest, num, sent, hsum, mode, ret>>
     \/ /\ File.kind # "elf"
        /\ LoadBinary
        /\ UNCHANGED <<sno, elfsum>>
  /\ UNCHANGED <<d2h, job, fno>>

HostSegment ==
  /\ hpc = "next" /\ stage = "elf"
  /\ sno <= Len(File.segs)
  /\ Download(Segment.addr, Segment.data, "elf")
  /\ top' = HubLimit(Segment.addr, Segment.data)
  /\ UNCHANGED <<d2h, job, fno, sno, elfsum, size>>

HostSegmentDone ==
  /\ hpc = "return" /\ stage = "elf"
  /\ elfsum' = elfsum + ret
  /\ sno' = sno + 1
  /\ hpc' = "next"
  /\ UNCHANGED <<h2d, d2h, job, stage, fno, size, top, rest, num, sent, hsum,
                 mode, ret>>

(* loadElfSections returns elfsum; a negative sum sends loadfile down the  *)
(* path for files that are not ELF.                                        *)
HostElfDone ==
  /\ hpc = "next" /\ stage = "elf"
  /\ sno > Len(File.segs)
  /\ \/ /\ elfsum >= 0
        /\ stage' = "files"
        /\ fno' = fno + 1
        /\ UNCHANGED <<h2d, hpc, size, top, rest, num, sent, hsum, mode, ret>>
     \/ /\ elfsum < 0
        /\ LoadBinary
        /\ UNCHANGED fno
  /\ UNCHANGED <<d2h, job, sno, elfsum>>

HostBinaryDone ==
  /\ hpc = "return" /\ stage = "bin"
  /\ IF ret < 0
     THEN hpc' = "fail" /\ UNCHANGED <<stage, fno>>
     ELSE hpc' = "next" /\ stage' = "files" /\ fno' = fno + 1
  /\ UNCHANGED <<h2d, d2h, job, sno, elfsum, size, top, rest, num, sent, hsum,
                 mode, ret>>

(* After the last file: the flash stub, or the ARGv block, or '-'. *)
HostTail ==
  /\ hpc = "next" /\ stage = "files"
  /\ fno > Len(job.files)
  /\ \/ /\ job.flash
        /\ top' = RoundUp(top)
        /\ Download(HimemBit, Stub(RoundUp(top)), "stub")
     \/ /\ ~job.flash /\ job.argv # <<>>
        /\ Download(HostHelper, job.argv, "argv")
        /\ UNCHANGED top
     \/ /\ ~job.flash /\ job.argv = <<>>
        /\ h2d' = Append(h2d, ReqDone)
        /\ hpc' = "ok"
        /\ UNCHANGED <<stage, top, rest, num, sent, hsum, mode, ret>>
  /\ UNCHANGED <<d2h, job, fno, sno, elfsum, size>>

(* What downloadData returned for the stub or the ARGv block is ignored. *)
HostFinish ==
  /\ hpc = "return" /\ stage \in {"stub", "argv"}
  /\ h2d' = h2d \o IF stage = "stub" THEN <<ReqFlash>> \o tx_raw_long(top)
                                     ELSE <<ReqDone>>
  /\ hpc' = "ok"
  /\ UNCHANGED <<d2h, job, stage, fno, sno, elfsum, size, top, rest, num, sent,
                 hsum, mode, ret>>

(* The variables of loadfile, loadElfSections and downloadData. *)
HostTypeOK ==
  /\ job \in Jobs /\ hpc \in HostStates /\ stage \in Stages
  /\ fno \in Nat \ {0} /\ sno \in Nat \ {0} /\ elfsum \in Int /\ size \in Nat
  /\ top \in Nat /\ rest \in Seq(Byte) /\ num \in Nat
  /\ sent \in Nat /\ hsum \in Byte /\ mode \in Byte /\ ret \in Int

HostStep ==
  \/ HostMode \/ HostSend \/ HostNextChunk \/ HostVerify
  \/ HostStart \/ HostHelperLoaded
  \/ HostFile \/ HostSegment \/ HostSegmentDone \/ HostElfDone
  \/ HostBinaryDone \/ HostTail \/ HostFinish

HostInit ==
  /\ job \in Jobs
  /\ hpc = "next" /\ stage = "start"
  /\ fno = 1 /\ sno = 1 /\ elfsum = 0
  /\ size \in {0, 4660}        \* uninitialized; two of its possible values
  /\ top = 0
  /\ rest = <<>> /\ num = 0 /\ sent = 0 /\ hsum = 0 /\ mode = 0 /\ ret = 0
=============================================================================
