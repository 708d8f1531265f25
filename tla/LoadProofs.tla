----------------------------- MODULE LoadProofs -----------------------------
(***************************************************************************)
(* Proofs about LoadSystem, for every value of its constants: the types,   *)
(* the two buffers, how the host and the loader stay in step, so that no   *)
(* byte is lost in the receiver (NoOverrun), and what that does for the    *)
(* mailbox the loader and the helper share (MailboxIntact), for the flash  *)
(* the helper programs (ProgramErased) and for the address at which the    *)
(* application starts (StartsFirstFile).                                   *)
(***************************************************************************)
EXTENDS LoadSystem, SequenceTheorems, TLAPS

-----------------------------------------------------------------------------
(* Lemmas about the operators of the model. *)

(* The bytes of a long, as the host sends them, are bytes. *)
LEMMA LongIsBytes ==
  ASSUME NEW v \in Int
  PROVE  tx_raw_long(v) \in Seq(Byte)
BY DEF tx_raw_long, Byte

(* A long the device reads from two bytes is a long. *)
LEMMA BytesAreLong ==
  ASSUME NEW lo \in Byte, NEW hi \in Byte
  PROVE  ser_rx_long(lo, hi) \in Long
BY DEF ser_rx_long, Byte, Long

(* The 8-bit checksum stays a byte. *)
LEMMA SumIsByte ==
  ASSUME NEW c \in Byte, NEW b \in Byte
  PROVE  (c + b) % 256 \in Byte
BY DEF Byte

(* A checksum reply is three bytes. *)
LEMMA ChksumIsBytes ==
  ASSUME NEW c \in Byte
  PROVE  send_chksum(c) \in Seq(Byte)
<1>1. c % 16 \in 0..15 /\ (c \div 16) % 16 \in 0..15
  BY DEF Byte
<1> QED
  BY <1>1 DEF send_chksum, Byte, At, Space

(* What a channel holds after more bytes have been sent. *)
LEMMA SendIsSeq ==
  ASSUME NEW s \in Seq(Byte), NEW t \in Seq(Byte)
  PROVE  s \o t \in Seq(Byte)
OBVIOUS

(* What is left of a channel after n bytes have been taken. *)
LEMMA DropIsSeq ==
  ASSUME NEW s \in Seq(Byte), NEW n \in Nat, n <= Len(s)
  PROVE  SubSeq(s, n + 1, Len(s)) \in Seq(Byte)
BY SubSeqProperties

(* The array after programming a byte over a byte holds a byte. *)
LEMMA ProgrammedIsByte ==
  ASSUME NEW old \in Byte, NEW new \in Byte
  PROVE  Programmed(old, new) \in Byte
BY DEF Programmed, Byte, Garbled, Erased

(* Storing a byte keeps the types of the hub memory and the mailbox. *)
LEMMA StoreByteType ==
  ASSUME MemTypeOK, NEW a \in Nat, NEW b \in Byte, StoreByte(a, b)
  PROVE  /\ hub' \in [HubAddr -> Byte]
         /\ mbox' \in [word : Int, flash : Nat, size : Nat]
<1>1. b \in Int /\ b \in Nat
  BY DEF Byte
<1> QED
  BY <1>1 DEF MemTypeOK, StoreByte

(* A chunk is no longer than the file and than a buffer, and not empty.    *)
LEMMA BufsizBounds ==
  ASSUME NEW n \in Nat
  PROVE  /\ bufsiz(n) \in 0..n
         /\ bufsiz(n) <= ChunkSize
         /\ n # 0 => bufsiz(n) # 0
BY LoaderAssumption DEF bufsiz

LEMMA ChunkBounds ==
  ASSUME NEW n \in Nat
  PROVE  /\ chunk(n) \in 0..n
         /\ n # 0 => chunk(n) # 0
BY JobAssumption DEF chunk

LEMMA StubIsBytes ==
  ASSUME NEW len \in Nat
  PROVE  Stub(len) \in Seq(Byte) /\ Stub(len) # <<>>
<1>1. \A i \in 1..HostChunk : (IF i = 3 THEN len % 256 ELSE StubByte) \in Byte
  BY JobAssumption DEF Byte
<1>2. HostChunk \in Nat \ {0}
  BY JobAssumption
<1>3. Stub(len) \in [1..HostChunk -> Byte]
  BY <1>1 DEF Stub
<1> QED
  BY <1>2, <1>3, SeqDef

-----------------------------------------------------------------------------
(* Type correctness.  TypeOK is not inductive by itself: the host sends    *)
(* the head of rest and reads the current file, so it also matters that    *)
(* there is one.                                                           *)

HostInd ==
  /\ hpc \in {"mode", "data", "waitk"} => num \in 1..Len(rest)
  /\ stage \in {"elf", "bin"} => fno <= Len(job.files)

TypeInd == TypeOK /\ HostInd

LEMMA TypeInit == Init => TypeInd
<1> SUFFICES ASSUME Init PROVE TypeInd
  OBVIOUS
<1> USE DEF Init, HimemInit, DevInit, HostInit
<1>1. LinkTypeOK
  BY DEF LinkTypeOK, Byte
<1>2. MemTypeOK
  BY FlashAssumption DEF MemTypeOK, Byte, CogStates, FlashAddr
<1>3. DevTypeOK
  BY LoaderAssumption DEF DevTypeOK, DevStates, None, Ping, Byte, Long
<1>4. HostTypeOK
  BY DEF HostTypeOK, HostStates, Stages, Byte
<1>5. HostInd
  BY DEF HostInd
<1> QED
  BY <1>1, <1>2, <1>3, <1>4, <1>5, FaultAssumption DEF TypeInd, TypeOK

-----------------------------------------------------------------------------
(* The helper cog. *)

LEMMA CogType ==
  ASSUME TypeOK, CogStep
  PROVE  MemTypeOK'
<1> USE DEF TypeOK, MemTypeOK, CogStates
<1>1. CASE CogInit
  BY <1>1 DEF CogInit
<1>2. CASE CogAccept
  <2>1. mbox.flash % FlashSize \in Nat
    BY FlashAssumption
  <2>2. HubOf(mbox.word) \in Int
    BY HubAssumption DEF HubOf
  <2> QED
    BY <1>2, <2>1, <2>2 DEF CogAccept
<1>3. CASE Erase
  BY <1>3 DEF Erase, Erased, Byte
<1>4. CASE WritePage
  <2> DEFINE Pad == params.hubaddr + params.size .. params.hubaddr + PageSize - 1
             padded == [a \in HubAddr |->
                          IF a \in Pad \ MailCells THEN Erased ELSE hub[a]]
             Page == params.ouraddr..params.ouraddr + PageSize - 1
             cell(a) == Programmed(flash[a],
                          HubByte(padded, params.hubaddr + a - params.ouraddr))
  <2>1. hub' = padded /\ flash' = [a \in FlashAddr |-> IF a \in Page THEN cell(a) ELSE flash[a]]
    BY <1>4 DEF WritePage
  <2>2. padded \in [HubAddr -> Byte]
    BY DEF Erased, Byte
  <2>3. \A x : HubByte(padded, x) \in Byte
    BY <2>2 DEF HubByte, Byte
  <2> HIDE DEF padded
  <2>4. \A a \in FlashAddr : cell(a) \in Byte
    BY <2>3, ProgrammedIsByte
  <2> HIDE DEF cell
  <2>5. flash' \in [FlashAddr -> Byte]
    BY <2>1, <2>4
  <2>6. params' \in [hubaddr : Int, ouraddr : Nat, size : Nat] /\ cog' \in CogStates
    <3>1. (params.ouraddr + PageSize) % FlashSize \in Nat /\ PageSize \in Nat
      BY FlashAssumption
    <3> QED
      BY <1>4, <3>1 DEF WritePage
  <2>7. mbox' = mbox
    BY <1>4 DEF WritePage
  <2> QED
    BY <2>1, <2>2, <2>5, <2>6, <2>7
<1>5. CASE CogRespond
  BY <1>5, HubAssumption DEF CogRespond, ErrPtr
<1> QED
  BY <1>1, <1>2, <1>3, <1>4, <1>5 DEF CogStep
-----------------------------------------------------------------------------
(* The loader's cog. *)

LEMMA DevType ==
  ASSUME TypeOK, DevStep
  PROVE  LinkTypeOK' /\ MemTypeOK' /\ DevTypeOK'
<1> USE DEF TypeOK, LinkTypeOK, DevTypeOK, Reply
<1>a. MemTypeOK
  OBVIOUS
<1>b. Ping \in Nat /\ Pong \in Nat /\ ChunkSize \in Nat
  BY LoaderAssumption DEF Ping, Pong
<1>c. h2d # <<>> => Head(h2d) \in Byte /\ Tail(h2d) \in Seq(Byte)
  OBVIOUS
<1>d. \A n \in Nat : djnz(n) \in Long
  BY DEF djnz, HimemBit, Long
<1>e. \A i, k \in Int : (i + k) % 256 \in Byte
  BY DEF Byte
<1>f. filesize \in Nat /\ pb \in Nat /\ Byte \subseteq Int /\ Byte \subseteq Nat
  BY DEF Long, Byte
<1>g. \A b \in Byte : <<b>> \in Seq(Byte)
  OBVIOUS
<1>h. {RepStream, RepChunk, RepNoHigh, RepError} \subseteq Byte
  BY DEF RepStream, RepChunk, RepNoHigh, RepError, Byte
<1>i. 0 \in Long /\ 0 \in Byte
  BY DEF Long, Byte
<1>1. CASE NextRequest
  <2>1. UNCHANGED <<d2h, loadaddr, filesize, chksum, pingpong, ptrb, pb>> /\ h2d' \in Seq(Byte)
    BY <1>1, <1>c DEF NextRequest
  <2>2. dpc' \in DevStates
    BY <1>1 DEF NextRequest, DevStates
  <2>3. /\ startaddr' \in Long \cup {None}
        /\ mailbox' \in {0, MailBase}
        /\ cog' \in CogStates
    BY <1>1, <1>a DEF NextRequest, CallLast, MemTypeOK, CogStates
  <2>4. MemTypeOK'
    BY <1>1, <1>a, <2>3 DEF NextRequest, MemTypeOK
  <2> QED
    BY <2>1, <2>2, <2>3, <2>4
<1>2. CASE ReadHeader
  <2> DEFINE addr == ser_rx_long(h2d[1], h2d[2])
             len  == ser_rx_long(h2d[3], h2d[4])
  <2>1. Len(h2d) >= 4 /\ h2d' = SubSeq(h2d, 4 + 1, Len(h2d))
    BY <1>2 DEF ReadHeader, LongBytes
  <2>2. h2d' \in Seq(Byte)
    BY <2>1, DropIsSeq
  <2>3. addr \in Long /\ len \in Long
    <3>1. h2d[1] \in Byte /\ h2d[2] \in Byte /\ h2d[3] \in Byte /\ h2d[4] \in Byte
      BY <2>1
    <3> QED
      BY <3>1, BytesAreLong
  <2> HIDE DEF addr, len
  <2>4. bufsiz(len) \in Long
    <3>1. len \in Nat /\ len < 65536
      BY <2>3 DEF Long
    <3>2. bufsiz(len) \in 0..len
      BY <3>1, BufsizBounds
    <3> QED
      BY <3>1, <3>2 DEF Long
  <2>5. MemTypeOK'
    BY <1>2, <1>a DEF ReadHeader, memVars, MemTypeOK
  <2>6. loadaddr' = addr /\ filesize' = len /\ chksum' = 0 /\ mailbox' = mailbox
    BY <1>2 DEF ReadHeader, addr, len
  <2>7. startaddr' = IF startaddr = None THEN addr ELSE startaddr
    BY <1>2 DEF ReadHeader, addr
  <2>8. \/ /\ d2h' = d2h \o <<RepStream>> /\ dpc' = "stream" /\ ptrb' = addr
           /\ UNCHANGED <<pingpong, pb>>
        \/ /\ d2h' = d2h \o <<RepChunk>> /\ dpc' = "chunk" /\ pingpong' = Ping
           /\ ptrb' = Ping /\ pb' = bufsiz(len)
        \/ /\ d2h' = d2h \o <<RepNoHigh>> /\ dpc' = "header"
           /\ UNCHANGED <<ptrb, pingpong, pb>>
    BY <1>2 DEF ReadHeader, addr, len
  <2>9. d2h' \in Seq(Byte)
    <3>1. {<<RepStream>>, <<RepChunk>>, <<RepNoHigh>>} \subseteq Seq(Byte)
      BY <1>h, <1>g
    <3>2. \E r \in {<<RepStream>>, <<RepChunk>>, <<RepNoHigh>>} : d2h' = d2h \o r
      BY <2>8
    <3> QED
      BY <3>1, <3>2, SendIsSeq
  <2>10. dpc' \in DevStates
    BY <2>8 DEF DevStates
  <2>11. pingpong' \in {Ping, Pong} /\ ptrb' \in Nat /\ pb' \in Long
    BY <2>8, <2>3, <2>4, <1>b DEF Long
  <2>12. loadaddr' \in Nat
    BY <2>6, <2>3 DEF Long
  <2> QED
    BY <2>2, <2>3, <2>5, <2>6, <2>7, <2>9, <2>10, <2>11, <2>12, <1>i
<1>3. CASE StreamByte
  <2>1. Head(h2d) \in Byte /\ Tail(h2d) \in Seq(Byte)
    BY <1>3, <1>c DEF StreamByte
  <2>2. MemTypeOK'
    <3>1. StoreByte(ptrb, Head(h2d)) /\ ptrb \in Nat /\ UNCHANGED <<flash, cog, params>>
      BY <1>3 DEF StreamByte
    <3> QED
      BY <3>1, <2>1, <1>a, StoreByteType DEF MemTypeOK
  <2>3. chksum' \in Byte
    BY <1>3, <1>e, <1>f, <2>1 DEF StreamByte
  <2>4. filesize' \in Long
    BY <1>3, <1>d, <1>f DEF StreamByte
  <2>5. \/ d2h' = d2h \o send_chksum(chksum') /\ dpc' = "request"
        \/ d2h' = d2h /\ dpc' = dpc
    BY <1>3 DEF StreamByte
  <2>6. d2h' \in Seq(Byte) /\ dpc' \in DevStates
    <3>1. send_chksum(chksum') \in Seq(Byte) /\ d2h \in Seq(Byte)
      BY <2>3, ChksumIsBytes
    <3>2. d2h' \in Seq(Byte)
      BY <2>5, <3>1, SendIsSeq
    <3>3. dpc' \in DevStates
      BY <2>5 DEF DevStates
    <3> QED
      BY <3>2, <3>3
  <2> QED
    BY <1>3, <2>1, <2>2, <2>3, <2>4, <2>6 DEF StreamByte
<1>4. CASE ChunkByte
  <2>1. Head(h2d) \in Byte /\ Tail(h2d) \in Seq(Byte)
    BY <1>4, <1>c DEF ChunkByte
  <2>2. MemTypeOK'
    <3>1. StoreByte(ptrb, Head(h2d)) /\ ptrb \in Nat /\ UNCHANGED <<flash, cog, params>>
      BY <1>4 DEF ChunkByte
    <3> QED
      BY <3>1, <2>1, <1>a, StoreByteType DEF MemTypeOK
  <2>3. chksum' \in Byte
    BY <1>4, <1>e, <1>f, <2>1 DEF ChunkByte
  <2>4. pb' \in Long
    BY <1>4, <1>d, <1>f DEF ChunkByte
  <2>5. dpc' \in DevStates
    BY <1>4 DEF ChunkByte, DevStates
  <2> QED
    BY <1>4, <2>1, <2>2, <2>3, <2>4, <2>5 DEF ChunkByte
<1>5. CASE PostChunk
  <2>1. bufsiz(filesize) \in 0..filesize
    BY <1>f, BufsizBounds
  <2>2. filesize' \in Long /\ loadaddr' \in Nat
    BY <1>5, <2>1, <1>f DEF PostChunk, Long
  <2>3. bufsiz(filesize') \in Long
    BY <2>2, BufsizBounds DEF Long
  <2>4. Other(pingpong) \in {Ping, Pong}
    BY DEF Other
  <2>5. /\ pingpong' \in {Ping, Pong} /\ ptrb' \in Nat /\ pb' \in Long
        /\ d2h' \in Seq(Byte) /\ dpc' \in DevStates
    <3>1. \/ /\ pingpong' = Other(pingpong) /\ ptrb' = pingpong'
             /\ pb' = bufsiz(filesize') /\ d2h' = d2h \o <<RepChunk>> /\ dpc' = "chunk"
          \/ dpc' = "drain" /\ UNCHANGED <<pingpong, ptrb, pb, d2h>>
      BY <1>5 DEF PostChunk
    <3>2. <<RepChunk>> \in Seq(Byte)
      BY <1>g, <1>h
    <3>3. d2h' \in Seq(Byte)
      BY <3>1, <3>2
    <3> QED
      BY <3>1, <3>3, <2>3, <2>4, <1>b DEF DevStates
  <2>6. MemTypeOK'
    <3>1. mbox' = [word |-> pingpong - Burst, flash |-> loadaddr, size |-> bufsiz(filesize)]
      BY <1>5 DEF PostChunk, SendMailbox
    <3>2. pingpong - Burst \in Int /\ bufsiz(filesize) \in Nat
      BY <1>b, <2>1, HubAssumption
    <3> QED
      BY <1>5, <1>a, <3>1, <3>2 DEF PostChunk, MemTypeOK
  <2> QED
    BY <1>5, <2>2, <2>5, <2>6 DEF PostChunk
<1>6. CASE ChunksDone
  <2>1. MemTypeOK'
    BY <1>6, <1>a DEF ChunksDone, memVars, MemTypeOK
  <2>2. d2h' \in Seq(Byte) /\ dpc' \in DevStates
    BY <1>6, ChksumIsBytes DEF ChunksDone, DevStates
  <2> QED
    BY <1>6, <2>1, <2>2 DEF ChunksDone
<1>7. CASE HimemError
  <2>1. MemTypeOK'
    BY <1>7, <1>a DEF HimemError, memVars, MemTypeOK
  <2>2. d2h' \in Seq(Byte) /\ dpc' \in DevStates
    BY <1>7, <1>g, <1>h, LoaderAssumption DEF HimemError, DevStates
  <2> QED
    BY <1>7, <2>1, <2>2, <1>i DEF HimemError
<1>8. CASE ReadFlashLength
  <2>1. MemTypeOK'
    BY <1>8, <1>a DEF ReadFlashLength, memVars, MemTypeOK
  <2>2. Len(h2d) >= 2 /\ h2d' = SubSeq(h2d, 2 + 1, Len(h2d))
    BY <1>8 DEF ReadFlashLength, LongBytes
  <2>3. h2d' \in Seq(Byte)
    BY <2>2, DropIsSeq
  <2>4. filesize' \in Long
    BY <1>8, <2>2, BytesAreLong DEF ReadFlashLength
  <2> QED
    BY <1>8, <2>1, <2>3, <2>4 DEF ReadFlashLength, DevStates
<1>9. CASE PostFlashCopy
  <2>1. mbox' = [word |-> 0 - Burst, flash |-> FlashImage, size |-> filesize]
    BY <1>9 DEF PostFlashCopy, SendMailbox
  <2>2. 0 - Burst \in Int /\ FlashImage \in Nat
    BY <1>b, HubAssumption DEF FlashImage, HimemBit
  <2>3. MemTypeOK'
    BY <1>9, <1>a, <1>f, <2>1, <2>2 DEF PostFlashCopy, MemTypeOK
  <2> QED
    BY <1>9, <2>3 DEF PostFlashCopy, DevStates
<1>10. CASE DoneAndExec
  <2>1. mbox' = mbox \/ mbox' = [mbox EXCEPT !.word = -1]
    BY <1>10 DEF DoneAndExec
  <2>2. mbox' \in [word : Int, flash : Nat, size : Nat]
    <3>1. mbox \in [word : Int, flash : Nat, size : Nat] /\ -1 \in Int
      BY <1>a DEF MemTypeOK
    <3>2. CASE mbox' = [mbox EXCEPT !.word = -1]
      BY <3>1, <3>2
    <3>3. CASE mbox' = mbox
      BY <3>1, <3>3
    <3> QED
      BY <2>1, <3>2, <3>3
  <2>3. MemTypeOK'
    BY <1>10, <1>a, <2>2 DEF DoneAndExec, MemTypeOK
  <2> QED
    BY <1>10, <2>3 DEF DoneAndExec, DevStates
<1> QED
  BY <1>1, <1>2, <1>3, <1>4, <1>5, <1>6, <1>7, <1>8, <1>9, <1>10 DEF DevStep

-----------------------------------------------------------------------------
(* The host. *)

(* downloadData's entry: an empty block returns at once, another one sends *)
(* its header and leaves at least one byte of a chunk to send.             *)
LEMMA DownloadType ==
  ASSUME LinkTypeOK, HostTypeOK, NEW addr \in Int, NEW data \in Seq(Byte),
         NEW caller \in Stages, Download(addr, data, caller)
  PROVE  /\ h2d' \in Seq(Byte)
         /\ hpc' \in {"return", "mode"} /\ stage' = caller
         /\ rest' \in Seq(Byte) /\ num' \in Nat /\ sent' \in Nat
         /\ hsum' \in Byte /\ mode' \in Byte /\ ret' \in Int
         /\ hpc' = "mode" => num' \in 1..Len(rest')
<1> USE DEF LinkTypeOK, HostTypeOK
<1>0. 0 \in Byte /\ sent' = 0 /\ hsum' = 0 /\ stage' = caller
  BY DEF Download, Byte
<1>1. CASE data = <<>>
  BY <1>0, <1>1 DEF Download
<1>2. CASE data # <<>>
  <2>1. /\ hpc' = "mode" /\ rest' = data /\ num' = chunk(Len(data))
        /\ UNCHANGED <<ret, mode>>
        /\ h2d' = ((h2d \o <<ReqLoad>>) \o tx_raw_long(addr)) \o tx_raw_long(Len(data))
    BY <1>2 DEF Download
  <2>2. Len(data) \in Nat /\ Len(data) # 0
    BY <1>2
  <2>3. num' \in 1..Len(rest')
    BY <2>1, <2>2, ChunkBounds
  <2>4. h2d' \in Seq(Byte)
    <3>1. <<ReqLoad>> \in Seq(Byte)
      BY DEF ReqLoad, Byte
    <3>2. tx_raw_long(addr) \in Seq(Byte) /\ tx_raw_long(Len(data)) \in Seq(Byte)
      BY <2>2, LongIsBytes
    <3> QED
      BY <2>1, <3>1, <3>2, SendIsSeq
  <2> QED
    BY <1>0, <2>1, <2>2, <2>3, <2>4
<1> QED
  BY <1>1, <1>2

(* Where the helper is loaded, and what it is.                             *)
LEMMA HelperFacts ==
  HostHelper \in Int /\ HelperImage \in Seq(Byte)
<1>1. HostHelper \in 0..HimemBit - 1 /\ HelperImage \in Seq(Byte)
  BY JobAssumption
<1> QED
  BY <1>1 DEF HimemBit

(* The file being loaded, the section being loaded and the file's image.   *)
LEMMA JobFacts ==
  ASSUME HostTypeOK
  PROVE  /\ job \in JobType
         /\ fno <= Len(job.files) => /\ File \in FileType
                                     /\ sno <= Len(File.segs) => Segment \in SegType
<1>1. job \in JobType /\ fno \in Nat \ {0} /\ sno \in Nat \ {0} /\ size \in Nat
  BY JobAssumption DEF HostTypeOK
<1>2. job.files \in Seq(FileType)
  BY <1>1 DEF JobType
<1>3. CASE fno <= Len(job.files)
  <2>1. File \in FileType
    BY <1>1, <1>2, <1>3 DEF File
  <2>2. File.segs \in Seq(SegType) /\ File.data \in Seq(Byte)
    BY <2>1 DEF FileType
  <2>3. sno <= Len(File.segs) => Segment \in SegType
    BY <1>1, <2>2 DEF Segment
  <2> QED
    BY <1>1, <2>1, <2>3
<1> QED
  BY <1>1, <1>3

(* What RoundUp does with the scaled long of two bytes.                    *)
LEMMA RoundedUp ==
  ASSUME NEW n \in Nat
  PROVE  RoundUp(n) \in {n, n + 1} /\ RoundUp(n) \in Nat
BY DEF RoundUp, LongBytes

(* A block that has its size in an int has its length in a long.           *)
LEMMA FitsLong ==
  ASSUME NEW data \in Seq(Byte), Sized32(data)
  PROVE  /\ Len(data) \in Long
         /\ RoundUp(Len(data)) \in Long /\ RoundUp(Len(data) + 2) \in Long
BY DEF Sized32, RoundUp, LongBytes, Long

(* The length of what readBinaryFile makes of a file.                      *)
ImageLen(f) ==
  IF f.kind = "elf" THEN Len(f.data)
  ELSE RoundUp(Len(f.data) + (IF f.kind = "sized" THEN LongBytes ELSE 0))

(* Sequences of bytes behind one another.                                  *)
LEMMA JoinedLen ==
  ASSUME NEW s \in Seq(Byte), NEW u \in Seq(Byte)
  PROVE  s \o u \in Seq(Byte) /\ Len(s \o u) = Len(s) + Len(u)
OBVIOUS

LEMMA PaddedLen ==
  ASSUME NEW pre \in Seq(Byte), pre # <<>>, NEW pad \in Padding(Len(pre))
  PROVE  pre \o pad \in Seq(Byte) /\ Len(pre \o pad) = RoundUp(Len(pre)) /\ pre \o pad # <<>>
<1>1. PICK n \in Nat : n = Len(pre) /\ n # 0
  OBVIOUS
<1>2. PICK m \in Nat : m = RoundUp(n) /\ m \in {n, n + 1}
  BY RoundedUp
<1>3. m - n \in Nat
  BY <1>2
<1>4. PICK k \in Nat : k = RoundUp(n) - n
  BY <1>2, <1>3
<1>5. pad \in [1..k -> Byte]
  BY <1>1, <1>4, JobAssumption DEF Padding
<1>6. pad \in Seq(Byte) /\ Len(pad) = k
  BY <1>4, <1>5
<1>7. pre \o pad \in Seq(Byte) /\ Len(pre \o pad) = n + k
  BY <1>1, <1>6, JoinedLen
<1>8. n + k = RoundUp(n)
  BY <1>2, <1>4
<1>9. n + k # 0
  BY <1>1, <1>4
<1> QED
  BY <1>1, <1>7, <1>8, <1>9

(* What it makes has that length, and is empty only for an empty file.     *)
LEMMA ImageFacts ==
  ASSUME HostTypeOK, fno <= Len(job.files), NEW image \in FileImages(File)
  PROVE  /\ image \in Seq(Byte) /\ Len(image) \in Long
         /\ image = <<>> <=> File.data = <<>>
         /\ image # <<>> => Len(image) = ImageLen(File)
<1>1. PICK data \in Seq(Byte) : data = File.data /\ Sized32(data)
  <2>1. /\ File \in FileType /\ job \in Jobs /\ job \in JobType /\ fno \in Nat \ {0}
        /\ File = job.files[fno]
    BY JobFacts DEF HostTypeOK, File
  <2>2. fno \in DOMAIN job.files /\ File.data \in Seq(Byte)
    BY <2>1 DEF JobType, FileType
  <2>3. Sized32(job.files[fno].data)
    BY <2>1, <2>2, SizeAssumption
  <2> QED
    BY <2>1, <2>2, <2>3
<1>2. Len(data) \in Long /\ RoundUp(Len(data)) \in Long /\ RoundUp(Len(data) + 2) \in Long
  BY <1>1, FitsLong
<1>3. CASE File.kind = "elf" \/ data = <<>>
  BY <1>1, <1>2, <1>3 DEF FileImages, ImageLen
<1>4. CASE ~(File.kind = "elf" \/ data = <<>>)
  <2>1. PICK pre : pre = Prefixed(File)
    OBVIOUS
  <2>2. /\ pre \in Seq(Byte) /\ pre # <<>>
        /\ Len(pre) = IF File.kind = "sized" THEN Len(data) + 2 ELSE Len(data)
    <3>5. size \in Int
      BY DEF HostTypeOK
    <3>6. tx_raw_long(size) \in Seq(Byte) /\ Len(tx_raw_long(size)) = 2
      BY <3>5, LongIsBytes DEF tx_raw_long
    <3>1. PICK raw \in Seq(Byte) : raw = tx_raw_long(size) /\ Len(raw) = 2
      BY <3>6
    <3>2. raw \o data \in Seq(Byte) /\ Len(raw \o data) = 2 + Len(data)
      BY <3>1, JoinedLen
    <3>3. raw \o data # <<>> /\ 2 + Len(data) = Len(data) + 2
      BY <3>2
    <3>4. pre = IF File.kind = "sized" THEN raw \o data ELSE data
      BY <1>1, <2>1, <3>1 DEF Prefixed
    <3> QED
      BY <1>4, <3>2, <3>3, <3>4
  <2>3. PICK pad \in Padding(Len(pre)) : image = pre \o pad
    BY <1>1, <1>4, <2>1 DEF FileImages
  <2>4. image \in Seq(Byte) /\ Len(image) = RoundUp(Len(pre)) /\ image # <<>>
    BY <2>2, <2>3, PaddedLen
  <2>5. ImageLen(File) = RoundUp(Len(pre))
    <3>1. CASE File.kind = "sized"
      <4>1. Len(pre) = Len(File.data) + (IF File.kind = "sized" THEN LongBytes ELSE 0)
        BY <1>1, <2>2, <3>1 DEF LongBytes
      <4> QED
        BY <1>4, <3>1, <4>1 DEF ImageLen
    <3>2. CASE File.kind # "sized"
      <4>1. Len(pre) = Len(File.data) + (IF File.kind = "sized" THEN LongBytes ELSE 0)
        BY <1>1, <2>2, <3>2 DEF LongBytes
      <4> QED
        BY <1>1, <1>4, <3>2, <4>1 DEF ImageLen
    <3> QED
      BY <3>1, <3>2
  <2>6. Len(image) \in Long
    <3>1. CASE File.kind = "sized"
      BY <1>2, <2>2, <2>4, <3>1
    <3>2. CASE File.kind # "sized"
      BY <1>2, <2>2, <2>4, <3>2
    <3> QED
      BY <3>1, <3>2
  <2>7. File.data # <<>>
    BY <1>1, <1>4
  <2> QED
    BY <2>4, <2>5, <2>6, <2>7
<1> QED
  BY <1>3, <1>4

(* The hub limit is an address. *)
LEMMA HubLimitType ==
  ASSUME HostTypeOK, NEW addr \in Long, NEW data \in Seq(Byte)
  PROVE  HubLimit(addr, data) \in Nat
BY DEF HostTypeOK, HubLimit, Long

(* Loading a file as a raw image. *)
LEMMA BinaryType ==
  ASSUME LinkTypeOK, HostTypeOK, fno <= Len(job.files), LoadBinary
  PROVE  /\ h2d' \in Seq(Byte)
         /\ hpc' \in {"return", "mode"} /\ stage' = "bin"
         /\ size' \in Nat /\ top' \in Nat
         /\ rest' \in Seq(Byte) /\ num' \in Nat /\ sent' \in Nat
         /\ hsum' \in Byte /\ mode' \in Byte /\ ret' \in Int
         /\ hpc' = "mode" => num' \in 1..Len(rest')
<1>3. PICK image \in FileImages(File) :
        /\ Download(File.addr, image, "bin")
        /\ size' = Len(image) /\ top' = HubLimit(File.addr, image)
  BY DEF LoadBinary
<1>1. image \in Seq(Byte) /\ File \in FileType
  BY JobFacts, ImageFacts
<1>2. File.addr \in Long /\ File.addr \in Int /\ "bin" \in Stages
  BY <1>1 DEF FileType, Long, Stages
<1>4. size' \in Nat /\ top' \in Nat
  BY <1>1, <1>2, <1>3, HubLimitType
<1> QED
  BY <1>1, <1>2, <1>3, <1>4, DownloadType

(* Every step of the host keeps its types and its chunk bookkeeping. *)
LEMMA HostType ==
  ASSUME TypeOK, HostInd, HostStep
  PROVE  LinkTypeOK' /\ HostTypeOK' /\ HostInd'
<1> USE DEF TypeOK
<1>a. LinkTypeOK /\ HostTypeOK
  OBVIOUS
<1>b. h2d \in Seq(Byte) /\ d2h \in Seq(Byte)
  BY <1>a DEF LinkTypeOK
<1>c. d2h # <<>> => Head(d2h) \in Byte /\ Tail(d2h) \in Seq(Byte)
  BY <1>b
<1>d. \A v \in Byte : <<v>> \in Seq(Byte) /\ Append(h2d, v) \in Seq(Byte)
  BY <1>b
<1>1. CASE HostMode
  <2>1. UNCHANGED <<h2d, job, stage, fno, sno, elfsum, size, top, rest, num, sent, hsum, ret>>
    BY <1>1 DEF HostMode
  <2>2. d2h' \in Seq(Byte)
    BY <1>1, <1>c DEF HostMode
  <2>3. mode' \in Byte /\ hpc' \in {"mode", "data", "fail"} /\ hpc = "mode"
    BY <1>1, <1>a, <1>c DEF HostMode, HostTypeOK
  <2> QED
    BY <2>1, <2>2, <2>3, <1>a, <1>b DEF LinkTypeOK, HostTypeOK, HostInd, HostStates
<1>2. CASE HostSend
  <2>1. /\ UNCHANGED <<d2h, job, stage, fno, sno, elfsum, size, top, mode, ret>>
        /\ h2d' = Append(h2d, Head(rest)) /\ rest' = Tail(rest)
        /\ sent' = sent + 1 /\ hsum' = (hsum + Head(rest)) % 256
    BY <1>2 DEF HostSend
  <2>2. num \in 1..Len(rest) /\ rest \in Seq(Byte) /\ rest # <<>>
    BY <1>2, <1>a DEF HostSend, HostInd, HostTypeOK
  <2>3. Head(rest) \in Byte /\ rest' \in Seq(Byte) /\ Len(rest') = Len(rest) - 1
    BY <2>1, <2>2
  <2>4. h2d' \in Seq(Byte) /\ d2h' \in Seq(Byte)
    BY <2>1, <2>3, <1>b, <1>d
  <2>5. hsum' \in Byte /\ sent' \in Nat
    <3>1. hsum \in Byte /\ sent \in Nat
      BY <1>a DEF HostTypeOK
    <3>2. hsum' \in Byte
      BY <2>1, <2>3, <3>1, SumIsByte
    <3> QED
      BY <2>1, <3>1, <3>2
  <2>6. /\ num' \in Nat /\ hpc' \in {"data", "verify", "waitk"}
        /\ hpc' \in {"data", "waitk"} => num' \in 1..Len(rest')
    <3>1. CASE num = 1
      <4>1. num' = chunk(Len(rest) - 1) /\ Len(rest) - 1 \in Nat
        BY <3>1, <2>2, <1>2 DEF HostSend
      <4>2. chunk(Len(rest) - 1) \in 0..Len(rest) - 1
        BY <4>1, ChunkBounds
      <4>3. Len(rest) # 1 => chunk(Len(rest) - 1) # 0
        <5> DEFINE left == Len(rest) - 1
        <5>1. left \in Nat /\ (Len(rest) # 1 => left # 0)
          BY <4>1, <2>2
        <5> HIDE DEF left
        <5>2. left # 0 => chunk(left) # 0
          BY <5>1, ChunkBounds
        <5> QED
          BY <5>1, <5>2 DEF left
      <4>4. hpc' \in {"data", "verify", "waitk"} /\ (Len(rest) = 1 => hpc' = "verify")
        BY <3>1, <1>2 DEF HostSend
      <4> QED
        BY <4>1, <4>2, <4>3, <4>4, <2>3
    <3>2. CASE num # 1
      <4>1. num' = num - 1 /\ num > 1
        BY <3>2, <2>2, <1>2 DEF HostSend
      <4>2. hpc' = "data"
        BY <4>1, <2>2, <1>2 DEF HostSend
      <4> QED
        BY <4>1, <4>2, <2>2, <2>3
    <3> QED
      BY <3>1, <3>2
  <2> QED
    BY <2>1, <2>3, <2>4, <2>5, <2>6, <1>a DEF LinkTypeOK, HostTypeOK, HostInd, HostStates
<1>3. CASE HostNextChunk
  <2>1. UNCHANGED <<h2d, job, stage, fno, sno, elfsum, size, top, rest, num, sent, hsum>>
    BY <1>3 DEF HostNextChunk
  <2>2. mode' \in Byte /\ d2h' \in Seq(Byte)
    <3>1. PICK n \in 1..Len(d2h) : d2h' = SubSeq(d2h, n + 1, Len(d2h))
      BY <1>3 DEF HostNextChunk
    <3>2. n \in Nat /\ n <= Len(d2h)
      BY <1>b
    <3> QED
      BY <1>3, <1>b, <1>c, <3>1, <3>2, DropIsSeq DEF HostNextChunk
  <2>3. hpc = "waitk" /\ hpc' \in {"data", "return"} /\ (ret' = ret \/ ret' = -1)
    BY <1>3 DEF HostNextChunk
  <2>4. ret' \in Int
    BY <2>3, <1>a DEF HostTypeOK
  <2> QED
    BY <2>1, <2>2, <2>3, <2>4, <1>a, <1>b DEF LinkTypeOK, HostTypeOK, HostInd, HostStates
<1>4. CASE HostVerify
  <2>1. UNCHANGED <<h2d, job, stage, fno, sno, elfsum, size, top, rest, num, sent, hsum, mode>>
    BY <1>4 DEF HostVerify
  <2>2. Len(d2h) >= 3 /\ d2h' = SubSeq(d2h, 3 + 1, Len(d2h))
    BY <1>4 DEF HostVerify
  <2>3. d2h' \in Seq(Byte)
    BY <2>2, <1>b, DropIsSeq
  <2>4. hpc' \in {"return", "fail"} /\ (ret' = ret \/ ret' = sent)
    BY <1>4 DEF HostVerify
  <2> QED
    BY <2>1, <2>3, <2>4, <1>a, <1>b DEF LinkTypeOK, HostTypeOK, HostInd, HostStates
<1>5. CASE HostStart
  <2>1. UNCHANGED <<d2h, job, fno, sno, elfsum, size, top>>
    BY <1>5 DEF HostStart
  <2>2. CASE Download(HostHelper, HelperImage, "helper")
    <3>1. HostHelper \in Int /\ HelperImage \in Seq(Byte) /\ "helper" \in Stages
      BY HelperFacts DEF Stages
    <3> QED
      BY <2>1, <2>2, <3>1, <1>a, <1>b, DownloadType
         DEF LinkTypeOK, HostTypeOK, HostInd, HostStates
  <2>3. CASE stage' = "files" /\ UNCHANGED <<h2d, hpc, rest, num, sent, hsum, mode, ret>>
    BY <2>1, <2>3, <1>a, <1>b DEF LinkTypeOK, HostTypeOK, HostInd, HostStates, Stages
  <2> QED
    BY <1>5, <2>2, <2>3 DEF HostStart
<1>6. CASE HostHelperLoaded
  <2>1. UNCHANGED <<d2h, job, fno, sno, elfsum, size, top, rest, num, sent, hsum, mode, ret>>
    BY <1>6 DEF HostHelperLoaded
  <2>2. \/ h2d' = Append(h2d, ReqCall) /\ hpc' = "next" /\ stage' = "files"
        \/ hpc' = "fail" /\ UNCHANGED <<h2d, stage>>
    BY <1>6 DEF HostHelperLoaded
  <2>3. ReqCall \in Byte
    BY DEF ReqCall, Byte
  <2>4. h2d' \in Seq(Byte)
    BY <2>2, <2>3, <1>b, <1>d
  <2> QED
    BY <2>1, <2>2, <2>4, <1>a, <1>b DEF LinkTypeOK, HostTypeOK, HostInd, HostStates, Stages
<1>7. CASE HostSegmentDone
  <2>1. UNCHANGED <<h2d, d2h, job, stage, fno, size, top, rest, num, sent, hsum, mode, ret>>
    BY <1>7 DEF HostSegmentDone
  <2>2. elfsum' = elfsum + ret /\ sno' = sno + 1 /\ hpc' = "next"
    BY <1>7 DEF HostSegmentDone
  <2> QED
    BY <2>1, <2>2, <1>a, <1>b DEF LinkTypeOK, HostTypeOK, HostInd, HostStates
<1>8. CASE HostBinaryDone
  <2>1. UNCHANGED <<h2d, d2h, job, sno, elfsum, size, top, rest, num, sent, hsum, mode, ret>>
    BY <1>8 DEF HostBinaryDone
  <2>2. \/ hpc' = "fail" /\ UNCHANGED <<stage, fno>>
        \/ hpc' = "next" /\ stage' = "files" /\ fno' = fno + 1
    BY <1>8 DEF HostBinaryDone
  <2> QED
    BY <2>1, <2>2, <1>a, <1>b DEF LinkTypeOK, HostTypeOK, HostInd, HostStates, Stages
<1>9. CASE HostFinish
  <2>1. UNCHANGED <<d2h, job, stage, fno, sno, elfsum, size, top, rest, num, sent, hsum, mode, ret>>
    BY <1>9 DEF HostFinish
  <2>2. hpc' = "ok" /\ (\/ h2d' = h2d \o (<<ReqFlash>> \o tx_raw_long(top))
                        \/ h2d' = h2d \o <<ReqDone>>)
    BY <1>9 DEF HostFinish
  <2>3. <<ReqFlash>> \in Seq(Byte) /\ <<ReqDone>> \in Seq(Byte)
    BY DEF ReqFlash, ReqDone, Byte
  <2>4. tx_raw_long(top) \in Seq(Byte)
    BY <1>a, LongIsBytes DEF HostTypeOK
  <2>5. h2d' \in Seq(Byte)
    BY <2>2, <2>3, <2>4, <1>b, SendIsSeq
  <2> QED
    BY <2>1, <2>2, <2>5, <1>a, <1>b DEF LinkTypeOK, HostTypeOK, HostInd, HostStates
<1>10. CASE HostFile
  <2>1. UNCHANGED <<d2h, job, fno>> /\ fno <= Len(job.files)
    BY <1>10 DEF HostFile
  <2>2. CASE LoadBinary /\ UNCHANGED <<sno, elfsum>>
    BY <2>1, <2>2, <1>a, <1>b, BinaryType DEF LinkTypeOK, HostTypeOK, HostInd, HostStates, Stages
  <2>3. CASE /\ stage' = "elf" /\ sno' = 1 /\ elfsum' = 0
             /\ UNCHANGED <<h2d, hpc, size, top, rest, num, sent, hsum, mode, ret>>
    BY <2>1, <2>3, <1>a, <1>b DEF LinkTypeOK, HostTypeOK, HostInd, HostStates, Stages
  <2> QED
    BY <1>10, <2>2, <2>3 DEF HostFile
<1>11. CASE HostSegment
  <2>1. /\ UNCHANGED <<d2h, job, fno, sno, elfsum, size>> /\ stage = "elf"
        /\ sno <= Len(File.segs) /\ Download(Segment.addr, Segment.data, "elf")
        /\ top' = HubLimit(Segment.addr, Segment.data)
    BY <1>11 DEF HostSegment
  <2>2. Segment \in SegType /\ fno <= Len(job.files)
    BY <2>1, <1>a, JobFacts DEF HostInd
  <2>3. Segment.addr \in Long /\ Segment.addr \in Int /\ Segment.data \in Seq(Byte)
    BY <2>2 DEF SegType, Long
  <2>4. top' \in Nat
    BY <2>1, <2>3, <1>a, HubLimitType
  <2>5. "elf" \in Stages
    BY DEF Stages
  <2> QED
    BY <2>1, <2>2, <2>3, <2>4, <2>5, <1>a, <1>b, DownloadType
       DEF LinkTypeOK, HostTypeOK, HostInd, HostStates
<1>12. CASE HostElfDone
  <2>1. UNCHANGED <<d2h, job, sno, elfsum>> /\ fno <= Len(job.files)
    BY <1>12 DEF HostElfDone, HostInd
  <2>2. CASE LoadBinary /\ UNCHANGED fno
    BY <2>1, <2>2, <1>a, <1>b, BinaryType DEF LinkTypeOK, HostTypeOK, HostInd, HostStates, Stages
  <2>3. CASE /\ stage' = "files" /\ fno' = fno + 1
             /\ UNCHANGED <<h2d, hpc, size, top, rest, num, sent, hsum, mode, ret>>
    BY <2>1, <2>3, <1>a, <1>b, <1>12
       DEF LinkTypeOK, HostTypeOK, HostInd, HostStates, Stages, HostElfDone
  <2> QED
    BY <1>12, <2>2, <2>3 DEF HostElfDone
<1>13. CASE HostTail
  <2>1. UNCHANGED <<d2h, job, fno, sno, elfsum, size>>
    BY <1>13 DEF HostTail
  <2>2. CASE top' = RoundUp(top) /\ Download(HimemBit, Stub(RoundUp(top)), "stub")
    <3>1. RoundUp(top) \in Nat /\ HimemBit \in Int /\ "stub" \in Stages
      BY <1>a DEF RoundUp, LongBytes, HimemBit, Stages, HostTypeOK
    <3>2. Stub(RoundUp(top)) \in Seq(Byte)
      BY <3>1, StubIsBytes
    <3> QED
      BY <2>1, <2>2, <3>1, <3>2, <1>a, <1>b, DownloadType
         DEF LinkTypeOK, HostTypeOK, HostInd, HostStates
  <2>3. CASE Download(HostHelper, job.argv, "argv") /\ UNCHANGED top
    <3>0. job.argv \in Seq(Byte)
      BY <1>a, JobFacts DEF JobType
    <3>1. HostHelper \in Int /\ job.argv \in Seq(Byte) /\ "argv" \in Stages
      BY <3>0, HelperFacts DEF Stages
    <3> QED
      BY <2>1, <2>3, <3>1, <1>a, <1>b, DownloadType
         DEF LinkTypeOK, HostTypeOK, HostInd, HostStates
  <2>4. CASE /\ h2d' = Append(h2d, ReqDone) /\ hpc' = "ok"
             /\ UNCHANGED <<stage, top, rest, num, sent, hsum, mode, ret>>
    <3>1. h2d' \in Seq(Byte)
      BY <2>4, <1>d DEF ReqDone, Byte
    <3> QED
      BY <2>1, <2>4, <3>1, <1>a, <1>b DEF LinkTypeOK, HostTypeOK, HostInd, HostStates
  <2> QED
    BY <1>13, <2>2, <2>3, <2>4 DEF HostTail
<1> QED
  BY <1>1, <1>2, <1>3, <1>4, <1>5, <1>6, <1>7, <1>8, <1>9, <1>10, <1>11, <1>12, <1>13
     DEF HostStep

-----------------------------------------------------------------------------
(* The whole system. *)

LEMMA TypeStep == TypeInd /\ [Next]_vars => TypeInd'
<1> SUFFICES ASSUME TypeInd, [Next]_vars PROVE TypeInd'
  OBVIOUS
<1>a. /\ LinkTypeOK /\ MemTypeOK /\ DevTypeOK /\ HostTypeOK /\ HostInd /\ TypeOK
      /\ faults \in 0..MaxFaults /\ acked \in Nat
  BY DEF TypeInd, TypeOK
<1>1. CASE Host
  <2>1. LinkTypeOK' /\ HostTypeOK' /\ HostInd'
    BY <1>1, <1>a, HostType DEF Host
  <2>2. MemTypeOK' /\ DevTypeOK'
    BY <1>1, <1>a DEF Host, memVars, devVars, MemTypeOK, DevTypeOK
  <2>3. faults' \in 0..MaxFaults /\ acked' \in Nat
    BY <1>1, <1>a DEF Host
  <2> QED
    BY <2>1, <2>2, <2>3 DEF TypeInd, TypeOK
<1>2. CASE Device
  <2>1. LinkTypeOK' /\ MemTypeOK' /\ DevTypeOK'
    BY <1>2, <1>a, DevType DEF Device
  <2>2. HostTypeOK' /\ HostInd' /\ UNCHANGED <<faults, acked>>
    BY <1>2, <1>a DEF Device, hostVars, HostTypeOK, HostInd
  <2> QED
    BY <2>1, <2>2, <1>a DEF TypeInd, TypeOK
<1>3. CASE Cog
  <2>1. MemTypeOK'
    BY <1>3, <1>a, CogType DEF Cog
  <2>2. LinkTypeOK' /\ DevTypeOK' /\ HostTypeOK' /\ HostInd' /\ UNCHANGED <<faults, acked>>
    BY <1>3, <1>a
       DEF Cog, linkVars, devVars, hostVars, LinkTypeOK, DevTypeOK, HostTypeOK, HostInd
  <2> QED
    BY <2>1, <2>2, <1>a DEF TypeInd, TypeOK
<1>4. CASE Timeout
  <2>1. /\ UNCHANGED <<memVars, devVars, faults, acked>>
        /\ UNCHANGED <<h2d, job, stage, fno, sno, elfsum, size, top, rest, num, sent, hsum, mode>>
    BY <1>4 DEF Timeout, HostTimeout, HostShortRead
  <2>2. hpc' \in {"return", "fail"} /\ (ret' = ret \/ ret' = -1)
    BY <1>4 DEF Timeout, HostTimeout, HostShortRead
  <2>a. d2h' \in Seq(Byte)
    <3>1. d2h \in Seq(Byte)
      BY <1>a DEF LinkTypeOK
    <3>2. d2h' = <<>> \/ (d2h # <<>> /\ d2h' = Tail(d2h))
      BY <1>4 DEF Timeout, HostTimeout, HostShortRead
    <3>3. CASE d2h' = <<>>
      BY <3>3
    <3>4. CASE d2h # <<>> /\ d2h' = Tail(d2h)
      BY <3>1, <3>4
    <3> QED
      BY <3>2, <3>3, <3>4
  <2>3. LinkTypeOK' /\ HostTypeOK' /\ HostInd'
    BY <2>1, <2>2, <2>a, <1>a DEF LinkTypeOK, HostTypeOK, HostInd, HostStates
  <2>4. MemTypeOK' /\ DevTypeOK'
    BY <2>1, <1>a DEF memVars, devVars, MemTypeOK, DevTypeOK
  <2> QED
    BY <2>1, <2>3, <2>4, <1>a DEF TypeInd, TypeOK
<1>5. CASE LinkFault
  <2>1. UNCHANGED <<d2h, memVars, devVars, hostVars, acked>> /\ h2d # <<>>
    BY <1>5 DEF LinkFault
  <2>2. faults' \in 0..MaxFaults
    BY <1>5, <1>a, FaultAssumption DEF LinkFault
  <2>3. h2d' \in Seq(Byte)
    <3>1. h2d \in Seq(Byte) /\ Tail(h2d) \in Seq(Byte)
      BY <1>a, <2>1 DEF LinkTypeOK
    <3>2. \A b \in CorruptBytes : <<b>> \in Seq(Byte)
      BY FaultAssumption
    <3>3. h2d' = Tail(h2d) \/ \E b \in CorruptBytes : h2d' = <<b>> \o Tail(h2d)
      BY <1>5 DEF LinkFault
    <3> QED
      BY <3>1, <3>2, <3>3, SendIsSeq
  <2>4. MemTypeOK' /\ DevTypeOK' /\ HostTypeOK' /\ HostInd' /\ LinkTypeOK'
    BY <2>1, <2>3, <1>a
       DEF memVars, devVars, hostVars, MemTypeOK, DevTypeOK, HostTypeOK, HostInd, LinkTypeOK
  <2> QED
    BY <2>1, <2>2, <2>4, <1>a DEF TypeInd, TypeOK
<1>6. CASE UNCHANGED vars
  BY <1>6, <1>a DEF vars, linkVars, memVars, devVars, hostVars, TypeInd, TypeOK,
                    LinkTypeOK, MemTypeOK, DevTypeOK, HostTypeOK, HostInd
<1> QED
  BY <1>1, <1>2, <1>3, <1>4, <1>5, <1>6 DEF Next

(* In every download of every set of jobs, over a line with any number of  *)
(* faults, every register, mailbox long, memory cell and byte in flight of *)
(* loadp2, the fast loader and the helper stays within what it can hold.   *)
THEOREM TypeCorrect == Spec => []TypeOK
<1>1. TypeInd => TypeOK
  BY DEF TypeInd
<1> QED
  BY <1>1, TypeInit, TypeStep, PTL DEF Spec

-----------------------------------------------------------------------------
(* The ping-pong buffers.  PingPongSafe speaks of the buffer being filled  *)
(* and of what the helper is doing; between them is the mailbox.  What is  *)
(* inductive is which request the mailbox holds at each place of the       *)
(* loader's code, and how far the helper has got with it.                  *)

(* Where the loader does not wait for the helper, no request is pending;   *)
(* while it fills or is about to post a buffer, the request pending is the *)
(* one for the other buffer.                                               *)
MailboxInd ==
  /\ dpc \in {"request", "header", "stream", "flashlen", "postF"} => mbox.word >= 0
  /\ dpc \in {"chunk", "post"} /\ mbox.word < 0 =>
       mbox.word = Other(pingpong) - Burst /\ mbox.size <= ChunkSize
  /\ dpc = "chunk" => ptrb >= BufBase
  /\ dpc \in {"chunk", "post", "drain"} => mailbox # 0

(* The helper works only on a pending request, inside the range requested; *)
(* an error stays in the mailbox, with the address that caused it.         *)
HelperInd ==
  /\ mailbox = 0 => cog = "off"
  /\ cog \in {"page", "erased", "done"} => mbox.word < 0 /\ mbox.word # -1
  /\ cog \in {"page", "erased"} =>
       /\ params.size \in 1..mbox.size
       /\ params.hubaddr = mbox.word + Burst + mbox.size - params.size
  /\ cog = "bad" => mbox.word # 0 /\ mbox.flash % PageSize # 0
  /\ mailbox # 0 /\ mbox.word > 0 => mbox.word = ErrPtr /\ mbox.flash % PageSize # 0

PingInd == MailboxInd /\ HelperInd

LEMMA PingInit == Init => PingInd
BY DEF Init, HimemInit, DevInit, PingInd, MailboxInd, HelperInd

(* The two buffers, and the negative long that requests one of them.       *)
LEMMA BufferFacts ==
  ASSUME NEW buf \in {Ping, Pong}
  PROVE  /\ buf \in Nat /\ buf >= BufBase
         /\ Other(buf) \in {Ping, Pong} /\ Other(Other(buf)) = buf
         /\ buf - Burst \in Int /\ buf - Burst < 0 /\ buf - Burst # -1
         /\ ChunkSize \in Nat \ {0}
         /\ Other(buf) + ChunkSize <= buf \/ buf + ChunkSize <= Other(buf)
<1>1. /\ BufBase \in Nat /\ ChunkSize \in Nat \ {0} /\ HubSize \in Nat /\ Burst \in Nat
      /\ BufBase + 2 * ChunkSize <= HubSize /\ Burst > HubSize + 1
  BY HubAssumption, LoaderAssumption
<1> QED
  BY <1>1 DEF Ping, Pong, Other

(* The helper's own steps. *)
LEMMA CogPing ==
  ASSUME TypeOK, PingInd, CogStep, UNCHANGED devVars
  PROVE  PingInd'
<1>a. /\ mbox \in [word : Int, flash : Nat, size : Nat]
      /\ params \in [hubaddr : Int, ouraddr : Nat, size : Nat]
      /\ cog \in CogStates
  BY DEF TypeOK, MemTypeOK
<1>b. /\ UNCHANGED <<dpc, mailbox, pingpong, ptrb>>
  BY DEF devVars
<1>c. PageSize \in Nat \ {0} /\ Burst \in Nat /\ ErrPtr \in Nat /\ ErrPtr > 0
  BY FlashAssumption, HubAssumption DEF ErrPtr
<1> USE DEF PingInd
<1>1. CASE CogInit
  BY <1>1, <1>b DEF CogInit, MailboxInd, HelperInd
<1>2. CASE CogAccept
  <2>1. /\ cog = "poll" /\ mbox.word # 0 /\ UNCHANGED mbox
        /\ params' = [hubaddr |-> HubOf(mbox.word), ouraddr |-> mbox.flash % FlashSize,
                      size |-> mbox.size]
        /\ \/ cog' = "stopped"
           \/ mbox.flash % PageSize # 0 /\ cog' = "bad"
           \/ mbox.word # -1 /\ mbox.flash % PageSize = 0 /\ cog' = "done"
           \/ mbox.word # -1 /\ mbox.flash % PageSize = 0 /\ mbox.size # 0 /\ cog' = "page"
    BY <1>2 DEF CogAccept
  <2>2. mailbox # 0
    BY <2>1 DEF HelperInd
  <2>3. MailboxInd'
    BY <2>1, <1>b DEF MailboxInd
  <2>4. mbox.flash % PageSize = 0 => mbox.word < 0
    BY <2>1, <2>2, <1>a DEF HelperInd
  <2>5. cog' = "page" => /\ params'.size \in 1..mbox'.size
                         /\ params'.hubaddr = mbox'.word + Burst + mbox'.size - params'.size
    <3>1. cog' = "page" => mbox.word < 0 /\ mbox.size # 0
      BY <2>1, <2>4
    <3>2. params'.size = mbox.size /\ params'.hubaddr = HubOf(mbox.word) /\ mbox' = mbox
      BY <2>1
    <3>3. mbox.word \in Int /\ mbox.size \in Nat
      BY <1>a
    <3> QED
      BY <3>1, <3>2, <3>3, <1>c DEF HubOf
  <2>6. HelperInd'
    BY <2>1, <2>2, <2>4, <2>5, <1>b DEF HelperInd
  <2> QED
    BY <2>3, <2>6
<1>3. CASE Erase
  BY <1>3, <1>b DEF Erase, MailboxInd, HelperInd
<1>4. CASE WritePage
  <2>1. UNCHANGED mbox /\ cog \in {"page", "erased"}
    BY <1>4 DEF WritePage
  <2>2. MailboxInd'
    BY <2>1, <1>b DEF MailboxInd
  <2>3. mailbox # 0 /\ mbox.word < 0 /\ mbox.word # -1
    BY <2>1 DEF HelperInd
  <2>4. \/ cog' = "done"
        \/ /\ cog' = "page" /\ params.size > PageSize
           /\ params'.hubaddr = params.hubaddr + PageSize
           /\ params'.size = params.size - PageSize
    BY <1>4 DEF WritePage
  <2>5. cog' = "page" => /\ params'.size \in 1..mbox.size
                         /\ params'.hubaddr = mbox.word + Burst + mbox.size - params'.size
    <3>1. /\ params.size \in 1..mbox.size
          /\ params.hubaddr = mbox.word + Burst + mbox.size - params.size
      BY <2>1 DEF HelperInd
    <3> QED
      BY <2>4, <3>1, <1>a, <1>c
  <2>6. HelperInd'
    BY <2>1, <2>3, <2>4, <2>5, <1>a, <1>b DEF HelperInd
  <2> QED
    BY <2>2, <2>6
<1>5. CASE CogRespond
  <2>1. /\ cog \in {"done", "bad"} /\ cog' = "poll"
        /\ mbox' = [mbox EXCEPT !.word = IF cog = "done" THEN 0 ELSE ErrPtr]
    BY <1>5 DEF CogRespond
  <2>2. /\ mbox'.word = IF cog = "done" THEN 0 ELSE ErrPtr
        /\ mbox'.flash = mbox.flash /\ mbox'.size = mbox.size
    BY <2>1, <1>a
  <2>3. MailboxInd'
    BY <2>1, <2>2, <1>b, <1>c DEF MailboxInd
  <2>4. HelperInd'
    BY <2>1, <2>2, <1>b, <1>c DEF HelperInd
  <2> QED
    BY <2>3, <2>4
<1> QED
  BY <1>1, <1>2, <1>3, <1>4, <1>5 DEF CogStep

(* A byte stored elsewhere than on the mailbox leaves it alone. *)
LEMMA StoreMisses ==
  ASSUME NEW a, NEW b, StoreByte(a, b), a \notin MailCells, a \in Int
  PROVE  mbox' = mbox
BY HubAssumption DEF StoreByte, MailCells

(* The loader's steps.  MailboxIntact is a hypothesis: a download that     *)
(* overwrites the mailbox can order the helper to do anything.             *)
LEMMA DevPing ==
  ASSUME TypeOK, MailboxIntact, PingInd, DevStep
  PROVE  PingInd'
<1>a. /\ mbox \in [word : Int, flash : Nat, size : Nat]
      /\ params \in [hubaddr : Int, ouraddr : Nat, size : Nat]
      /\ cog \in CogStates /\ pingpong \in {Ping, Pong} /\ ptrb \in Nat
      /\ mailbox \in {0, MailBase} /\ filesize \in Nat /\ dpc \in DevStates
  BY DEF TypeOK, MemTypeOK, DevTypeOK, Long
<1>b. /\ MailBase \in Nat \ {0} /\ ErrPtr \in Nat /\ ErrPtr > 0 /\ Burst \in Nat /\ Burst > 1
  BY HubAssumption DEF ErrPtr
<1>c. /\ Ping \in {Ping, Pong} /\ Ping >= BufBase /\ BufBase \in Nat /\ MailBase + 2 < BufBase
  BY LoaderAssumption DEF Ping
<1> USE DEF PingInd
<1>1. CASE NextRequest
  <2>1. /\ dpc = "request" /\ dpc' \in {"header", "flashlen", "exec", "request", "wild", "error"}
        /\ UNCHANGED <<mbox, params, pingpong, ptrb>> /\ mbox.word >= 0
    BY <1>1 DEF NextRequest, MailboxInd
  <2>2. MailboxInd'
    BY <2>1 DEF MailboxInd
  <2>3. HelperInd'
    <3>1. CASE Head(h2d) = ReqCall /\ startaddr = HelperBase
      <4>1. mbox.word = 0
        BY <1>1, <3>1 DEF NextRequest, MailboxIntact
      <4>2. mailbox' = MailBase /\ cog' = "init"
        BY <1>1, <3>1 DEF NextRequest, CallLast
      <4> QED
        BY <2>1, <4>1, <4>2, <1>b DEF HelperInd
    <3>2. CASE ~(Head(h2d) = ReqCall /\ startaddr = HelperBase)
      <4>1. UNCHANGED <<mailbox, cog>>
        BY <1>1, <3>2 DEF NextRequest
      <4> QED
        BY <2>1, <4>1 DEF HelperInd
    <3> QED
      BY <3>1, <3>2
  <2> QED
    BY <2>2, <2>3
<1>2. CASE ReadHeader
  <2>1. /\ dpc = "header" /\ mbox.word >= 0 /\ UNCHANGED memVars /\ UNCHANGED mailbox
    BY <1>2 DEF ReadHeader, MailboxInd
  <2>2. \/ dpc' = "stream"
        \/ dpc' = "chunk" /\ mailbox # 0 /\ pingpong' = Ping /\ ptrb' = Ping
        \/ dpc' = "header"
    BY <1>2 DEF ReadHeader
  <2>3. MailboxInd'
    BY <2>1, <2>2, <1>a, <1>c DEF MailboxInd, memVars
  <2>4. HelperInd'
    BY <2>1 DEF HelperInd, memVars
  <2> QED
    BY <2>3, <2>4
<1>3. CASE StreamByte
  <2>1. /\ dpc = "stream" /\ h2d # <<>> /\ StoreByte(ptrb, Head(h2d))
        /\ UNCHANGED <<flash, cog, params, mailbox, pingpong>> /\ dpc' \in {"stream", "request"}
    BY <1>3 DEF StreamByte
  <2>2. Head(h2d) \in Nat
    <3>1. h2d \in Seq(Byte)
      BY DEF TypeOK, LinkTypeOK
    <3>2. Head(h2d) \in Byte
      BY <2>1, <3>1
    <3> QED
      BY <3>2 DEF Byte
  <2>3. CASE mailbox # 0
    <3>1. mbox' = mbox
      BY <2>1, <2>3, <1>a, StoreMisses DEF MailboxIntact
    <3> QED
      BY <2>1, <3>1 DEF MailboxInd, HelperInd
  <2>4. CASE mailbox = 0
    <3>1. mbox'.word >= 0
      <4>1. mbox'.word = mbox.word \/ mbox'.word = Head(h2d)
        BY <2>1, <1>a DEF StoreByte
      <4> QED
        BY <2>1, <2>2, <4>1 DEF MailboxInd
    <3>2. MailboxInd'
      BY <2>1, <3>1 DEF MailboxInd
    <3>3. HelperInd'
      BY <2>1, <2>4 DEF HelperInd
    <3> QED
      BY <3>2, <3>3
  <2> QED
    BY <2>3, <2>4
<1>4. CASE ChunkByte
  <2>1. /\ dpc = "chunk" /\ StoreByte(ptrb, Head(h2d)) /\ ptrb' = ptrb + 1
        /\ UNCHANGED <<flash, cog, params, mailbox, pingpong>> /\ dpc' \in {"chunk", "post"}
    BY <1>4 DEF ChunkByte
  <2>2. ptrb >= BufBase
    BY <2>1 DEF MailboxInd
  <2>3. mbox' = mbox
    <3>1. ptrb \notin MailCells
      BY <2>2, <1>a, <1>b, <1>c DEF MailCells
    <3> QED
      BY <2>1, <3>1, <1>a, StoreMisses
  <2> QED
    BY <2>1, <2>2, <2>3, <1>a, <1>c DEF MailboxInd, HelperInd
<1>5. CASE PostChunk
  <2> DEFINE n == bufsiz(filesize)
  <2>1. /\ dpc = "post" /\ mbox.word = 0
        /\ mbox' = [word |-> pingpong - Burst, flash |-> loadaddr, size |-> n]
        /\ UNCHANGED <<cog, params, mailbox>>
        /\ \/ dpc' = "chunk" /\ pingpong' = Other(pingpong) /\ ptrb' = pingpong'
           \/ dpc' = "drain"
    BY <1>5 DEF PostChunk, MailboxFree, SendMailbox
  <2>2. n \in Nat /\ n <= ChunkSize
    BY <1>a, BufsizBounds
  <2> HIDE DEF n
  <2>3. mbox'.word = pingpong - Burst /\ mbox'.size = n
    BY <2>1
  <2>4. cog \notin {"page", "erased", "done", "bad"} /\ mailbox # 0
    BY <2>1, <1>a DEF HelperInd, MailboxInd
  <2>5. mbox'.word \in Int /\ mbox'.word < 0
    BY <2>3, <1>a, BufferFacts
  <2>6. dpc' = "chunk" => mbox'.word = Other(pingpong') - Burst /\ ptrb' >= BufBase
    BY <2>1, <2>3, <1>a, BufferFacts
  <2>7. MailboxInd'
    BY <2>1, <2>2, <2>3, <2>4, <2>6 DEF MailboxInd
  <2>8. HelperInd'
    BY <2>1, <2>4, <2>5, <2>3, <1>a DEF HelperInd
  <2> QED
    BY <2>7, <2>8
<1>6. CASE ChunksDone
  <2>1. /\ mbox.word = 0 /\ dpc' = "request" /\ UNCHANGED memVars /\ UNCHANGED mailbox
    BY <1>6 DEF ChunksDone, MailboxFree
  <2> QED
    BY <2>1 DEF MailboxInd, HelperInd, memVars
<1>7. CASE HimemError
  <2>1. /\ mbox.word > 0 /\ dpc' = "header" /\ UNCHANGED memVars /\ UNCHANGED mailbox
    BY <1>7 DEF HimemError, MailboxError
  <2> QED
    BY <2>1, <1>a DEF MailboxInd, HelperInd, memVars
<1>8. CASE ReadFlashLength
  <2>1. /\ dpc = "flashlen" /\ dpc' = "postF" /\ UNCHANGED memVars /\ UNCHANGED mailbox
    BY <1>8 DEF ReadFlashLength
  <2> QED
    BY <2>1 DEF MailboxInd, HelperInd, memVars
<1>9. CASE PostFlashCopy
  <2>1. /\ mailbox # 0 /\ mbox.word = 0 /\ dpc' = "exec" /\ UNCHANGED <<cog, params, mailbox>>
        /\ mbox' = [word |-> 0 - Burst, flash |-> FlashImage, size |-> filesize]
    BY <1>9 DEF PostFlashCopy, MailboxFree, SendMailbox
  <2>2. cog \notin {"page", "erased", "done", "bad"} /\ mbox'.word < 0
    BY <2>1, <1>b DEF HelperInd
  <2> QED
    BY <2>1, <2>2, <1>a, <1>b DEF MailboxInd, HelperInd
<1>10. CASE DoneAndExec
  <2>1. dpc' = "running" /\ UNCHANGED <<cog, params, mailbox>>
    BY <1>10 DEF DoneAndExec
  <2>2. MailboxInd'
    BY <2>1 DEF MailboxInd
  <2>3. HelperInd'
    <3>1. CASE mailbox = 0
      BY <2>1, <3>1 DEF HelperInd
    <3>2. CASE mailbox # 0
      <4>1. mbox.word = 0 /\ mbox' = [mbox EXCEPT !.word = -1]
        BY <1>10, <3>2 DEF DoneAndExec, MailboxFree
      <4>2. cog \notin {"page", "erased", "done", "bad"}
        BY <4>1 DEF HelperInd
      <4>3. mbox'.word = -1
        BY <4>1, <1>a
      <4> QED
        BY <2>1, <3>2, <4>2, <4>3 DEF HelperInd
    <3> QED
      BY <3>1, <3>2
  <2> QED
    BY <2>2, <2>3
<1> QED
  BY <1>1, <1>2, <1>3, <1>4, <1>5, <1>6, <1>7, <1>8, <1>9, <1>10 DEF DevStep

LEMMA PingStep == TypeInd /\ MailboxIntact /\ PingInd /\ [Next]_vars => PingInd'
<1> SUFFICES ASSUME TypeInd, MailboxIntact, PingInd, [Next]_vars PROVE PingInd'
  OBVIOUS
<1>0. TypeOK
  BY DEF TypeInd
<1>1. CASE Device
  BY <1>0, <1>1, DevPing DEF Device
<1>2. CASE Cog
  BY <1>0, <1>2, CogPing DEF Cog
<1>3. CASE Host \/ Timeout \/ LinkFault \/ UNCHANGED vars
  <2>1. UNCHANGED <<memVars, devVars>>
    BY <1>3 DEF Host, Timeout, LinkFault, vars
  <2> QED
    BY <2>1 DEF memVars, devVars, PingInd, MailboxInd, HelperInd
<1> QED
  BY <1>1, <1>2, <1>3 DEF Next

(* What the helper reads lies in the buffer of the pending request, which  *)
(* is the other one.                                                       *)
LEMMA PingImplies == TypeInd /\ PingInd => PingPongSafe
<1> SUFFICES ASSUME TypeInd, PingInd, dpc = "chunk" PROVE ~InUse(pingpong)
  BY DEF PingPongSafe
<1>1. /\ mbox.word \in Int /\ mbox.size \in Nat /\ params.hubaddr \in Int
      /\ params.size \in Nat /\ pingpong \in {Ping, Pong}
  BY DEF TypeInd, TypeOK, MemTypeOK, DevTypeOK
<1>2. mbox.word < 0 => mbox.word = Other(pingpong) - Burst /\ mbox.size <= ChunkSize
  BY DEF PingInd, MailboxInd
<1>3. Burst \in Nat /\ Other(pingpong) \in Nat
  BY <1>1, HubAssumption, BufferFacts
<1>4. CASE cog \in {"page", "erased"}
  <2>1. /\ params.size \in 1..mbox.size /\ mbox.word < 0
        /\ params.hubaddr = mbox.word + Burst + mbox.size - params.size
    BY <1>4 DEF PingInd, HelperInd
  <2>2. params.hubaddr >= Other(pingpong) /\ params.hubaddr < Other(pingpong) + ChunkSize
    BY <2>1, <1>1, <1>2, <1>3, BufferFacts
  <2>3. params.hubaddr \notin pingpong..pingpong + ChunkSize - 1
    BY <2>2, <1>1, <1>3, BufferFacts
  <2> QED
    BY <1>4, <2>3 DEF InUse
<1>5. CASE cog \notin {"page", "erased"}
  <2>1. mbox.word # pingpong - Burst
    BY <1>1, <1>2, <1>3, BufferFacts
  <2> QED
    BY <1>5, <2>1 DEF InUse
<1> QED
  BY <1>4, <1>5

(* The loader never fills a buffer the helper is reading or is about to    *)
(* read, whatever the jobs, the sizes, the faults of the line and the      *)
(* speeds of the two cogs, as long as no download lands on the mailbox.    *)
THEOREM PingPongCorrect == Spec /\ []MailboxIntact => []PingPongSafe
<1>1. Init => TypeInd /\ PingInd
  BY TypeInit, PingInit
<1>2. TypeInd /\ MailboxIntact /\ PingInd /\ [Next]_vars => TypeInd' /\ PingInd'
  BY TypeStep, PingStep
<1>3. TypeInd /\ PingInd => PingPongSafe
  BY PingImplies
<1> QED
  BY <1>1, <1>2, <1>3, PTL DEF Spec

-----------------------------------------------------------------------------
(* In step.  NoOverrun speaks of the loader's wait and of the line; what   *)
(* is inductive is which conversation they are in the middle of: at most   *)
(* one request, reply or chunk is on the line at a time.                   *)

(* No ELF section has failed. loadElfSections adds what downloadData       *)
(* returns and goes on with the next section, failed or not; after that    *)
(* the host talks past a loader that still expects the rest of the old     *)
(* section (loadelf, downloadData).                                        *)
SectionsLoad == ~(stage = "elf" /\ hpc = "return" /\ ret < 0)

(* What may lie on the line when the host is about to start a block:       *)
(* nothing, or the request to start the helper.                            *)
Ahead == {<<>>, <<ReqCall>>}

(* The header of the block the host has asked to send: its address and     *)
(* its size.                                                               *)
IsHeader(s) ==
  /\ Len(s) = 2 * LongBytes
  /\ ser_rx_long(s[3], s[4]) = Len(rest)
  /\ stage = "argv" => ser_rx_long(s[1], s[2]) < HimemBit
(* The request that ends a download.                                       *)
IsLast(s) ==
  \/ Len(s) = 1 /\ Head(s) = ReqDone
  \/ Len(s) = 1 + LongBytes /\ Head(s) = ReqFlash
(* A complete request, matching what the host waits for.                   *)
IsRequest(s) ==
  /\ s # <<>>
  /\ \/ hpc = "mode" /\ Head(s) = ReqLoad /\ IsHeader(Tail(s))
     \/ hpc = "ok" /\ IsLast(s)

(* The loader has left the protocol.                                       *)
Astray == dpc \in {"wild", "error", "running"}

(* The host has ended, or is about to, and nothing is on the line.         *)
Quit ==
  /\ h2d = <<>>
  /\ \/ hpc \in {"ok", "fail"}
     \/ hpc = "return" /\ ret < 0 /\ stage \in {"helper", "bin", "elf"}

(* Between two blocks: the loader waits for a request.                     *)
Between ==
  /\ dpc = "request" /\ d2h = <<>> /\ h2d \in Ahead
  /\ hpc = "next" \/ (hpc = "return" /\ ret >= 0)
  /\ stage \in {"start", "helper"} => h2d = <<>>

(* A request is on its way, perhaps behind the one to start the helper.    *)
Asking ==
  /\ dpc = "request" /\ h2d # <<>>
  /\ hpc = "mode" => d2h = <<>> /\ num = chunk(Len(rest))
  /\ IsRequest(h2d) \/ (Head(h2d) = ReqCall /\ IsRequest(Tail(h2d)))

(* The loader reads what follows the request character.                    *)
Heading ==
  \/ dpc = "flashlen" /\ hpc = "ok" /\ Len(h2d) = LongBytes
  \/ dpc = "header" /\ hpc = "mode" /\ d2h = <<>> /\ num = chunk(Len(rest)) /\ IsHeader(h2d)

(* The loader has refused a block and waits for another header.            *)
Declined ==
  /\ dpc = "header" /\ h2d = <<>>
  /\ \/ hpc = "mode" /\ d2h = <<RepNoHigh>>
     \/ hpc \in {"waitk", "verify"} /\ d2h = <<RepError>> \o ErrText

(* A block for hub memory: what is on the line and what the host still     *)
(* has is no more than what the loader waits for (a byte may be lost).     *)
Streaming ==
  /\ dpc = "stream"
  /\ \/ /\ hpc = "mode" /\ d2h = <<RepStream>> /\ h2d = <<>> /\ filesize = Len(rest)
     \/ /\ hpc \in {"data", "verify"} /\ mode = RepStream /\ d2h = <<>>
        /\ hpc = "verify" => rest = <<>>
        /\ Len(h2d) + Len(rest) <= filesize

(* What comes after the chunk the loader is receiving.                     *)
Later == filesize - bufsiz(filesize)

(* The loader has asked for a chunk that the host has not begun.           *)
NewChunk == /\ h2d = <<>> /\ d2h = <<RepChunk>>
            /\ filesize = Len(rest) /\ pb = bufsiz(filesize) /\ num = chunk(Len(rest))

(* A block for high memory: the host never sends more than the rest of     *)
(* the chunk the loader receives.                                          *)
Chunking ==
  /\ dpc = "chunk" /\ stage # "argv"
  /\ \/ hpc \in {"mode", "waitk"} /\ NewChunk
     \/ /\ hpc = "data" /\ mode = RepChunk /\ d2h = <<>>
        /\ Len(h2d) + num <= pb /\ Len(rest) = num + Later
     \/ /\ hpc = "waitk" /\ d2h = <<>>
        /\ Len(h2d) <= pb /\ Len(rest) = Later /\ num = chunk(Len(rest))
     \/ /\ hpc = "verify" /\ d2h = <<>>
        /\ Len(h2d) <= pb /\ Later = 0

(* A whole chunk has come, and the loader waits for the helper: the host   *)
(* has nothing to send before the loader answers.                          *)
Posting ==
  /\ h2d = <<>> /\ d2h = <<>>
  /\ \/ dpc = "post" /\ hpc = "waitk" /\ Len(rest) = Later /\ Later # 0 /\ num = chunk(Len(rest))
     \/ dpc = "post" /\ hpc = "verify" /\ Later = 0
     \/ dpc = "drain" /\ hpc = "verify"

(* The loader has sent the checksum the host waits for.                    *)
Summed ==
  /\ dpc = "request" /\ h2d = <<>> /\ hpc = "verify"
  /\ \E c \in Byte : d2h = send_chksum(c)

(* Which caller of downloadData is at which place, and that the flash      *)
(* stub is one chunk.                                                      *)
InBlock ==
  /\ hpc \in {"mode", "data"} => stage \in {"helper", "bin", "elf", "stub", "argv"}
  /\ hpc \in {"mode", "data"} /\ stage = "stub" => num = Len(rest)
  /\ hpc = "waitk" => stage \in {"helper", "bin", "elf"} /\ mode = RepChunk /\ rest # <<>>

(* Host and loader are in step in one of these ways.                       *)
InStep == InBlock /\ (\/ Between \/ Asking \/ Heading \/ Declined
                      \/ Streaming \/ Chunking \/ Posting \/ Summed)

(* The inductive invariant of the pace: in step, or one of the two gone.   *)
Pace == Astray \/ Quit \/ InStep

(* A download starts between blocks.                                       *)
LEMMA PaceInit == Init => Pace
BY DEF Init, HimemInit, DevInit, HostInit, Pace, InStep, InBlock, Between, Ahead

(* The loader reads back the long the host sent.                           *)
LEMMA RoundTrip ==
  ASSUME NEW v \in Long
  PROVE  LET s == tx_raw_long(v) IN ser_rx_long(s[1], s[2]) = v
BY DEF Long, tx_raw_long, ser_rx_long

(* Host and loader cut a block into the same chunks.                       *)
LEMMA SameChunk == ASSUME NEW n \in Nat PROVE chunk(n) = bufsiz(n) /\ bufsiz(n) \in 0..n
                                              /\ (n # 0 => bufsiz(n) # 0)
BY SharedAssumption, LoaderAssumption DEF chunk, bufsiz

(* What the concatenation of two byte sequences is made of.                *)
LEMMA Join ==
  ASSUME NEW s \in Seq(Byte), NEW u \in Seq(Byte)
  PROVE  /\ s \o u \in Seq(Byte) /\ Len(s \o u) = Len(s) + Len(u)
         /\ \A i \in 1..Len(s) : (s \o u)[i] = s[i]
         /\ \A i \in 1..Len(u) : (s \o u)[Len(s) + i] = u[i]
<1> DEFINE both == s \o u
           k == Len(s)
           n == Len(u)
<1>1. /\ Len(s \o u) = Len(s) + Len(u)
      /\ \A i \in 1 .. Len(s) + Len(u) :
           (s \o u)[i] = IF i <= Len(s) THEN s[i] ELSE u[i - Len(s)]
  BY ConcatProperties, Zenon
<1>2. both \in Seq(Byte) /\ k \in Nat /\ n \in Nat
  OBVIOUS
<1>3. \A i \in 1..k + n : both[i] = IF i <= k THEN s[i] ELSE u[i - k]
  BY <1>1
<1> HIDE DEF both, k, n
<1>4. \A i \in 1..k : both[i] = s[i]
  BY <1>2, <1>3
<1>5. ASSUME NEW i \in 1..n PROVE both[k + i] = u[i]
  <2>1. k + i \in 1..k + n /\ ~(k + i <= k) /\ (k + i) - k = i
    BY <1>2
  <2> QED
    BY <1>3, <2>1
<1> QED
  BY <1>1, <1>2, <1>4, <1>5 DEF both, k, n

(* The same for the two longs of a header.                                 *)
LEMMA JoinPairs ==
  ASSUME NEW s \in Seq(Byte), NEW u \in Seq(Byte), Len(s) = 2, Len(u) = 2
  PROVE  /\ Len(s \o u) = 4
         /\ (s \o u)[1] = s[1] /\ (s \o u)[2] = s[2]
         /\ (s \o u)[3] = u[1] /\ (s \o u)[4] = u[2]
<1> DEFINE both == s \o u
<1>0. /\ Len(both) = Len(s) + Len(u)
      /\ \A i \in 1..Len(s) : both[i] = s[i]
      /\ \A i \in 1..Len(u) : both[Len(s) + i] = u[i]
  BY Join, Zenon
<1> HIDE DEF both
<1>1. /\ Len(both) = 2 + 2
      /\ \A i \in 1..2 : both[i] = s[i]
      /\ \A i \in 1..2 : both[2 + i] = u[i]
  BY <1>0
<1>2. both[1] = s[1] /\ both[2] = s[2] /\ both[2 + 1] = u[1] /\ both[2 + 2] = u[2]
  BY <1>1
<1> QED
  BY <1>1, <1>2 DEF both

(* Concatenation is associative.                                           *)
LEMMA Regroup ==
  ASSUME NEW s \in Seq(Byte), NEW t \in Seq(Byte), NEW u \in Seq(Byte)
  PROVE  (s \o t) \o u = s \o (t \o u)
BY ConcatAssociative

(* A byte put in front of a sequence.                                      *)
LEMMA Prepend ==
  ASSUME NEW b \in Byte, NEW s \in Seq(Byte)
  PROVE  /\ <<b>> \o s \in Seq(Byte) /\ <<b>> \o s # <<>>
         /\ Len(<<b>> \o s) = Len(s) + 1
         /\ Head(<<b>> \o s) = b /\ Tail(<<b>> \o s) = s
OBVIOUS

(* The helper goes below the high-memory bit, and its image is one that    *)
(* four bytes can count.                                                   *)
LEMMA HelperFits ==
  /\ HostHelper \in Long /\ HostHelper < HimemBit
  /\ HelperImage \in Seq(Byte) /\ Len(HelperImage) \in Long
<1>1. HostHelper \in 0..HimemBit - 1 /\ HelperImage \in Seq(Byte)
  BY JobAssumption
<1>2. Sized32(HelperImage)
  BY SizeAssumption
<1>3. Len(HelperImage) \in Long
  BY <1>1, <1>2, FitsLong
<1>4. HostHelper \in Long /\ HostHelper < HimemBit
  BY <1>1 DEF HimemBit, Long
<1> QED
  BY <1>1, <1>3, <1>4

(* What downloadData's entry sends for a block that is not empty: '=' and  *)
(* a header from which the loader reads the address and the size.          *)
LEMMA HeaderSent ==
  ASSUME TypeOK, NEW addr \in Long, NEW data \in Seq(Byte), Len(data) \in Long,
         NEW caller, Download(addr, data, caller), data # <<>>
  PROVE  /\ hpc' = "mode" /\ rest' = data /\ num' = chunk(Len(data))
         /\ \E header \in Seq(Byte) :
              /\ Len(header) = 4
              /\ ser_rx_long(header[1], header[2]) = addr
              /\ ser_rx_long(header[3], header[4]) = Len(data)
              /\ h2d' = h2d \o (<<ReqLoad>> \o header)
<1> DEFINE header == tx_raw_long(addr) \o tx_raw_long(Len(data))
<1>1. /\ hpc' = "mode" /\ rest' = data /\ num' = chunk(Len(data))
      /\ h2d' = ((h2d \o <<ReqLoad>>) \o tx_raw_long(addr)) \o tx_raw_long(Len(data))
  BY DEF Download
<1>2. /\ Len(header) = 4
      /\ ser_rx_long(header[1], header[2]) = addr
      /\ ser_rx_long(header[3], header[4]) = Len(data)
  <2>1. /\ tx_raw_long(addr) \in Seq(Byte) /\ tx_raw_long(Len(data)) \in Seq(Byte)
        /\ Len(tx_raw_long(addr)) = 2 /\ Len(tx_raw_long(Len(data))) = 2
    BY LongIsBytes DEF tx_raw_long, Long
  <2>2. /\ Len(header) = 4
        /\ header[1] = tx_raw_long(addr)[1] /\ header[2] = tx_raw_long(addr)[2]
        /\ header[3] = tx_raw_long(Len(data))[1] /\ header[4] = tx_raw_long(Len(data))[2]
    BY <2>1, JoinPairs
  <2> HIDE DEF header
  <2> QED
    BY <2>2, RoundTrip
<1>3. header \in Seq(Byte)
  BY LongIsBytes DEF Long
<1>4. h2d' = h2d \o (<<ReqLoad>> \o header)
  <2>1. tx_raw_long(addr) \in Seq(Byte) /\ tx_raw_long(Len(data)) \in Seq(Byte)
    BY LongIsBytes DEF Long
  <2>2. h2d \in Seq(Byte)
    BY DEF TypeOK, LinkTypeOK
  <2>3. <<ReqLoad>> \in Seq(Byte)
    BY DEF ReqLoad, Byte
  <2> QED
    <3> DEFINE a == tx_raw_long(addr)
               n == tx_raw_long(Len(data))
               c == <<ReqLoad>>
               left == h2d \o c
    <3>1. a \in Seq(Byte) /\ n \in Seq(Byte) /\ c \in Seq(Byte)
      BY <2>1, <2>3
    <3> HIDE DEF a, n, c
    <3>2. left \in Seq(Byte) /\ a \o n \in Seq(Byte)
      BY <3>1, <2>2
    <3>3. left \o (a \o n) = h2d \o (c \o (a \o n))
      BY <3>1, <3>2, <2>2, Regroup, SMTT(30)
    <3> HIDE DEF left
    <3>4. (left \o a) \o n = left \o (a \o n)
      BY <3>1, <3>2, Regroup, SMTT(30)
    <3> QED
      BY <1>1, <3>3, <3>4 DEF a, n, c, left
<1> HIDE DEF header
<1> QED
  BY <1>1, <1>2, <1>3, <1>4

(* downloadData's entry, between two blocks, sends a complete request; or  *)
(* the block is empty and nothing is sent.                                 *)
LEMMA DownloadPace ==
  ASSUME TypeOK, dpc = "request", d2h = <<>>, h2d \in Ahead, UNCHANGED <<dpc, d2h>>,
         NEW addr \in Long, NEW data \in Seq(Byte), Len(data) \in Long,
         NEW caller \in {"helper", "bin", "elf", "stub", "argv"}, Download(addr, data, caller),
         caller = "helper" => h2d = <<>>,
         caller = "stub" => Len(data) = HostChunk,
         caller = "argv" => addr < HimemBit
  PROVE  InStep'
<1>0. stage' = caller /\ dpc' = "request" /\ d2h' = <<>>
  BY DEF Download
<1>1. CASE data = <<>>
  <2>1. hpc' = "return" /\ ret' = 0 /\ h2d' = h2d
    BY <1>1 DEF Download
  <2>2. Between'
    BY <1>0, <2>1 DEF Between, Ahead
  <2>3. InBlock'
    BY <1>0, <2>1 DEF InBlock
  <2> QED
    BY <2>2, <2>3 DEF InStep
<1>2. CASE data # <<>>
  <2>1. hpc' = "mode" /\ rest' = data /\ num' = chunk(Len(data))
    BY <1>2, HeaderSent
  <2>2. PICK header \in Seq(Byte) :
          /\ Len(header) = 4
          /\ ser_rx_long(header[1], header[2]) = addr
          /\ ser_rx_long(header[3], header[4]) = Len(data)
          /\ h2d' = h2d \o (<<ReqLoad>> \o header)
    BY <1>2, HeaderSent
  <2>5. IsHeader(header)'
    BY <1>0, <2>1, <2>2 DEF IsHeader, LongBytes
  <2>6. Head(<<ReqLoad>> \o header) = ReqLoad /\ Tail(<<ReqLoad>> \o header) = header
        /\ <<ReqLoad>> \o header # <<>> /\ <<ReqLoad>> \o header \in Seq(Byte)
    <3>1. ReqLoad \in Byte
      BY DEF ReqLoad, Byte
    <3> QED
      BY <3>1, Prepend
  <2>7. IsRequest(<<ReqLoad>> \o header)'
    BY <2>1, <2>5, <2>6 DEF IsRequest
  <2>8. Asking'
    <3>1. CASE h2d = <<>>
      <4>1. h2d' = <<ReqLoad>> \o header
        BY <2>2, <2>6, <3>1
      <4> QED
        BY <4>1, <1>0, <2>1, <2>6, <2>7 DEF Asking
    <3>2. CASE h2d = <<ReqCall>>
      <4>1. ReqCall \in Byte
        BY DEF ReqCall, Byte
      <4>2. h2d' = <<ReqCall>> \o (<<ReqLoad>> \o header)
        BY <2>2, <3>2
      <4>3. h2d' # <<>> /\ Head(h2d') = ReqCall /\ Tail(h2d') = <<ReqLoad>> \o header
        BY <4>1, <4>2, <2>6
      <4> QED
        BY <4>3, <1>0, <2>1, <2>6, <2>7 DEF Asking
    <3> QED
      BY <3>1, <3>2 DEF Ahead
  <2>9. InBlock'
    <3>1. caller = "stub" => num' = Len(rest')
      BY <2>1, JobAssumption DEF chunk
    <3> QED
      BY <1>0, <2>1, <3>1 DEF InBlock
  <2> QED
    BY <2>8, <2>9 DEF InStep
<1> QED
  BY <1>1, <1>2

(* A checksum reply is three bytes.                                        *)
LEMMA SmallReply ==
  ASSUME NEW c \in Byte
  PROVE  send_chksum(c) \in Seq(Byte) /\ Len(send_chksum(c)) = 3
BY ChksumIsBytes DEF send_chksum

(* An error message is not taken for a checksum.                           *)
LEMMA ErrorIsNoSum ==
  ASSUME NEW r \in Seq(Byte), Len(r) >= 3, r[1] = RepError
  PROVE  recv_chksum(r) > 255
<1> DEFINE x == r[2]
<1>1. x \in Byte
  OBVIOUS
<1>2. recv_chksum(r) = (101 - 64) * 16 + (x - 64)
  BY DEF recv_chksum, RepError, At
<1> HIDE DEF x
<1>3. (101 - 64) * 16 + (x - 64) > 255
  BY <1>1 DEF Byte
<1> QED
  BY <1>2, <1>3

(* The same for a file that is loaded as it is.                            *)
LEMMA BinaryPace ==
  ASSUME TypeOK, dpc = "request", d2h = <<>>, h2d \in Ahead, UNCHANGED <<dpc, d2h>>,
         fno <= Len(job.files), LoadBinary
  PROVE  InStep'
<1>1. HostTypeOK
  BY DEF TypeOK
<1>2. PICK image \in FileImages(File) : Download(File.addr, image, "bin")
  BY DEF LoadBinary
<1>3. File \in FileType /\ image \in Seq(Byte) /\ Len(image) \in Long
  BY <1>1, JobFacts, ImageFacts
<1>4. File.addr \in Long
  BY <1>3 DEF FileType
<1> QED
  BY <1>2, <1>3, <1>4, DownloadPace

(* The host's steps. SectionsLoad is a hypothesis, see there.              *)
LEMMA HostPace ==
  ASSUME TypeOK, HostInd, SectionsLoad, Pace, HostStep, UNCHANGED <<memVars, devVars>>
  PROVE  Pace'
<1>a. /\ UNCHANGED <<dpc, filesize, pb, pingpong, ptrb, chksum>>
      /\ h2d \in Seq(Byte) /\ d2h \in Seq(Byte) /\ rest \in Seq(Byte) /\ num \in Nat /\ hsum \in Byte
      /\ sent \in Nat /\ filesize \in Nat /\ pb \in Nat /\ HostTypeOK
  BY DEF devVars, TypeOK, HostTypeOK, LinkTypeOK, DevTypeOK, Long
<1>b. CASE Astray
  BY <1>b, <1>a DEF Pace, Astray
<1>c. CASE Quit
  <2>1. hpc = "return" /\ stage \in {"helper", "bin"} /\ ret < 0 /\ h2d = <<>>
    BY <1>c DEF Quit, SectionsLoad, HostStep, HostMode, HostSend, HostNextChunk, HostVerify,
         HostStart, HostHelperLoaded, HostFile, HostSegment, HostSegmentDone, HostElfDone,
         HostBinaryDone, HostTail, HostFinish
  <2>2. HostHelperLoaded \/ HostBinaryDone
    BY <2>1 DEF HostStep, HostMode, HostSend, HostNextChunk, HostVerify,
         HostStart, HostFile, HostSegment, HostSegmentDone, HostElfDone, HostTail, HostFinish
  <2>3. Len(HelperImage) \in Nat
    BY JobAssumption
  <2>4. hpc' = "fail" /\ h2d' = h2d
    BY <2>1, <2>2, <2>3, <1>a DEF HostHelperLoaded, HostBinaryDone, HostTypeOK
  <2> QED
    BY <2>1, <2>4 DEF Pace, Quit
<1>d. CASE InStep
  <2> USE <1>d
  <2>0. InBlock
    BY DEF InStep
  <2>1. CASE HostMode
    <3>1. /\ hpc = "mode" /\ d2h # <<>> /\ d2h' = Tail(d2h)
          /\ UNCHANGED <<h2d, stage, rest, num, sent, hsum, ret>>
          /\ \/ hpc' = "mode" /\ Head(d2h) = RepWait
             \/ Head(d2h) \in {RepStream, RepChunk} /\ hpc' = "data" /\ mode' = Head(d2h)
             \/ Head(d2h) \notin {RepStream, RepChunk, RepWait} /\ hpc' = "fail"
      BY <2>1 DEF HostMode
    <3>2. InBlock' \/ hpc' = "fail"
      BY <3>1, <2>0 DEF InBlock
    <3>3. CASE Declined
      BY <3>1, <3>3 DEF Declined, Pace, Quit, RepNoHigh, RepWait, RepStream, RepChunk
    <3>4. CASE Streaming
      <4>1. d2h = <<RepStream>> /\ h2d = <<>> /\ filesize = Len(rest)
        BY <3>1, <3>4 DEF Streaming
      <4>2. hpc' = "data" /\ mode' = RepStream /\ d2h' = <<>>
        BY <3>1, <4>1 DEF RepStream, RepWait, RepChunk
      <4>3. Streaming'
        BY <3>4, <3>1, <4>1, <4>2, <1>a DEF Streaming
      <4> QED
        BY <3>2, <4>2, <4>3 DEF Pace, InStep
    <3>5. CASE Chunking
      <4>1. NewChunk
        BY <3>1, <3>5 DEF Chunking
      <4>2. d2h' = <<>> /\ hpc' = "data" /\ mode' = RepChunk
        BY <3>1, <4>1 DEF NewChunk, RepStream, RepWait, RepChunk
      <4>3. Len(h2d') + num' <= pb' /\ Len(rest') = num' + Later'
        <5>1. num = bufsiz(filesize) /\ bufsiz(filesize) \in Nat
          BY <4>1, <1>a, SameChunk DEF NewChunk
        <5> QED
          BY <3>1, <4>1, <5>1, <1>a DEF NewChunk, Later, bufsiz
      <4>4. Chunking'
        BY <3>5, <3>1, <4>2, <4>3, <1>a DEF Chunking
      <4> QED
        BY <3>2, <4>2, <4>4 DEF Pace, InStep
    <3> QED
      BY <3>1, <3>3, <3>4, <3>5 DEF InStep, Between, Asking, Heading, Posting, Summed
  <2>2. CASE HostSend
    <3>1. /\ hpc = "data" /\ h2d' = Append(h2d, Head(rest)) /\ rest' = Tail(rest)
          /\ num' = IF num = 1 THEN chunk(Len(rest) - 1) ELSE num - 1
          /\ hpc' = CASE num > 1                                     -> "data"
                      [] num <= 1 /\ Len(rest) = 1                    -> "verify"
                      [] num <= 1 /\ Len(rest) # 1 /\ mode = RepChunk -> "waitk"
                      [] OTHER                                       -> "data"
          /\ UNCHANGED <<d2h, stage, mode, ret>>
      BY <2>2 DEF HostSend
    <3>2. num \in 1..Len(rest) /\ rest # <<>>
      BY <3>1, <1>a DEF HostInd
    <3>3. Len(h2d') = Len(h2d) + 1 /\ Len(rest') = Len(rest) - 1 /\ Len(h2d) \in Nat /\ Len(rest) \in Nat
          /\ rest' \in Seq(Byte)
      BY <3>1, <3>2, <1>a
    <3>4. Streaming \/ Chunking
      BY <3>1, <3>2 DEF InStep, Between, Asking, Heading, Declined, Posting, Summed, IsRequest
    <3>5. CASE Streaming
      <4>1. mode = RepStream /\ d2h = <<>> /\ Len(h2d) + Len(rest) <= filesize
        BY <3>1, <3>5 DEF Streaming
      <4>2. hpc' \in {"data", "verify"} /\ (hpc' = "verify" => Len(rest) = 1)
        BY <3>1, <3>2, <4>1 DEF RepStream, RepChunk
      <4>3. hpc' = "verify" => rest' = <<>>
        <5>1. rest \in Seq(Byte) /\ rest' = Tail(rest)
          BY <3>1, <1>a
        <5>2. Len(rest) = 1 => Tail(rest) = <<>>
          BY <5>1
        <5> QED
          BY <4>2, <5>1, <5>2
      <4>4. Streaming'
        <5>1. dpc' = "stream" /\ mode' = RepStream /\ d2h' = <<>> /\ filesize' = filesize
          BY <3>1, <3>5, <4>1, <1>a DEF Streaming
        <5>2. Len(h2d') + Len(rest') <= filesize
          BY <3>3, <4>1
        <5> QED
          BY <4>2, <4>3, <5>1, <5>2 DEF Streaming
      <4>5. stage = "stub" /\ hpc' = "data" => num' = Len(rest')
        BY <3>1, <3>2, <3>3, <4>1, <2>0 DEF InBlock, RepStream, RepChunk
      <4>6. InBlock'
        BY <3>1, <4>2, <4>5, <2>0 DEF InBlock
      <4> QED
        BY <4>4, <4>6 DEF Pace, InStep
    <3>6. CASE Chunking
      <4>1. /\ mode = RepChunk /\ d2h = <<>> /\ stage # "argv"
            /\ Len(h2d) + num <= pb /\ Len(rest) = num + Later
        BY <3>1, <3>6 DEF Chunking
      <4>2. \/ num > 1 /\ hpc' = "data" /\ num' = num - 1
            \/ num = 1 /\ Len(rest) = 1 /\ hpc' = "verify"
            \/ num = 1 /\ Len(rest) # 1 /\ hpc' = "waitk" /\ num' = chunk(Len(rest'))
        BY <3>1, <3>2, <3>3, <4>1
      <4>3. Later' = Later /\ Later \in Nat
        <5>1. bufsiz(filesize) \in 0..filesize
          BY <1>a, BufsizBounds
        <5> QED
          BY <1>a, <5>1 DEF Later, bufsiz
      <4>4. Chunking'
        BY <3>1, <3>3, <3>6, <4>1, <4>2, <4>3, <1>a DEF Chunking
      <4>5. hpc' = "waitk" => rest' # <<>>
        BY <3>3, <4>2
      <4>6. stage = "stub" => hpc' # "waitk" /\ (hpc' = "data" => num' = Len(rest'))
        BY <3>1, <3>2, <3>3, <4>2, <2>0 DEF InBlock
      <4>7. InBlock'
        BY <3>1, <4>1, <4>2, <4>5, <4>6, <2>0 DEF InBlock
      <4> QED
        BY <4>4, <4>7 DEF Pace, InStep
    <3> QED
      BY <3>4, <3>5, <3>6
  <2>3. CASE HostNextChunk
    <3>1. /\ hpc = "waitk" /\ d2h # <<>> /\ mode' = Head(d2h)
          /\ UNCHANGED <<h2d, stage, rest, num, sent, hsum>>
          /\ \/ Head(d2h) = RepChunk /\ hpc' = "data"
             \/ Head(d2h) # RepChunk /\ hpc' = "return" /\ ret' = -1
      BY <2>3 DEF HostNextChunk
    <3>2. stage \in {"helper", "bin", "elf"} /\ rest # <<>>
      BY <3>1, <2>0 DEF InBlock
    <3>3. CASE Declined
      <4>1. Head(d2h) = RepError /\ h2d = <<>>
        BY <3>1, <3>3, LoaderAssumption DEF Declined, RepError, Byte
      <4> QED
        BY <3>1, <3>2, <4>1 DEF Pace, Quit, RepError, RepChunk
    <3>4. CASE Chunking
      <4>1. NewChunk
        BY <3>1, <3>4 DEF Chunking
      <4>2. hpc' = "data" /\ mode' = RepChunk
        BY <3>1, <4>1 DEF NewChunk
      <4>3. d2h' = <<>>
        <5>1. PICK n \in 1..Len(d2h) : d2h' = SubSeq(d2h, n + 1, Len(d2h))
          BY <2>3 DEF HostNextChunk
        <5>2. Len(d2h) = 1 /\ n = 1
          BY <4>1, <5>1 DEF NewChunk
        <5> QED
          BY <5>1, <5>2, <1>a, SubSeqProperties
      <4>4. Len(h2d') + num' <= pb' /\ Len(rest') = num' + Later'
        <5>1. num = bufsiz(filesize) /\ bufsiz(filesize) \in Nat
          BY <4>1, <1>a, SameChunk DEF NewChunk
        <5> QED
          BY <3>1, <4>1, <5>1, <1>a DEF NewChunk, Later, bufsiz
      <4>5. Chunking'
        BY <3>4, <3>1, <4>2, <4>3, <4>4, <1>a DEF Chunking
      <4>6. InBlock'
        BY <3>1, <3>2, <4>2 DEF InBlock
      <4> QED
        BY <4>5, <4>6 DEF Pace, InStep
    <3> QED
      BY <3>1, <3>3, <3>4
         DEF InStep, Between, Asking, Heading, Streaming, Posting, Summed, IsRequest
  <2>4. CASE HostVerify
    <3>1. /\ hpc = "verify" /\ Len(d2h) >= 3 /\ d2h' = SubSeq(d2h, 4, Len(d2h))
          /\ UNCHANGED <<h2d, stage, rest, num, sent, hsum, mode>>
          /\ \/ recv_chksum(d2h) = hsum /\ hpc' = "return" /\ ret' = sent
             \/ hpc' = "fail"
      BY <2>4 DEF HostVerify
    <3>2. d2h # <<>>
      BY <3>1, <1>a
    <3>3. CASE Declined
      <4>1. d2h = <<RepError>> \o ErrText /\ h2d = <<>>
        BY <3>1, <3>3 DEF Declined
      <4>2. d2h[1] = RepError
        BY <4>1, LoaderAssumption DEF RepError, Byte
      <4>3. hpc' = "fail"
        BY <3>1, <4>2, <1>a, ErrorIsNoSum DEF Byte
      <4> QED
        BY <3>1, <4>1, <4>3 DEF Pace, Quit
    <3>4. CASE Summed
      <4>1. dpc = "request" /\ h2d = <<>> /\ Len(d2h) = 3
        BY <3>4, SmallReply DEF Summed
      <4>2. d2h' = <<>>
        BY <3>1, <4>1, <1>a, SubSeqProperties
      <4>3. CASE hpc' = "fail"
        BY <3>1, <4>1, <4>3 DEF Pace, Quit
      <4>4. CASE hpc' = "return" /\ ret' = sent
        <5>1. Between'
          BY <3>1, <4>1, <4>2, <4>4, <1>a DEF Between, Ahead
        <5>2. InBlock'
          BY <4>4 DEF InBlock
        <5> QED
          BY <5>1, <5>2 DEF Pace, InStep
      <4> QED
        BY <3>1, <4>3, <4>4
    <3> QED
      BY <3>1, <3>2, <3>3, <3>4
         DEF InStep, Between, Asking, Heading, Streaming, Chunking, Posting, IsRequest
  <2>5. CASE hpc \in {"next", "return"}
    <3>1. Between
      BY <2>5 DEF InStep, Asking, Heading, Declined, Streaming, Chunking, Posting, Summed, IsRequest, IsLast
    <3>2. dpc = "request" /\ d2h = <<>> /\ h2d \in Ahead /\ (stage \in {"start", "helper"} => h2d = <<>>)
          /\ (hpc = "return" => ret >= 0)
      BY <3>1, <2>5 DEF Between
    <3>3. ASSUME hpc' = "next", UNCHANGED <<h2d, d2h>>, stage' \notin {"start", "helper"}
          PROVE  Pace'
      <4>1. Between'
        BY <3>2, <3>3, <1>a DEF Between
      <4>2. InBlock'
        BY <3>3 DEF InBlock
      <4> QED
        BY <4>1, <4>2 DEF Pace, InStep
    <3>4. CASE HostStart
      <4>1. d2h' = d2h /\ h2d = <<>>
        BY <3>2, <3>4 DEF HostStart
      <4>2. CASE job.helper
        <5>1. HostHelper \in Long /\ HelperImage \in Seq(Byte) /\ Len(HelperImage) \in Long
          BY HelperFits
        <5>2. Download(HostHelper, HelperImage, "helper")
          BY <3>4, <4>2 DEF HostStart
        <5>3. InStep'
          BY <3>2, <4>1, <5>1, <5>2, <1>a, DownloadPace
        <5> QED
          BY <5>3 DEF Pace
      <4>3. CASE ~job.helper
        BY <3>3, <3>4, <4>1, <4>3, <2>5 DEF HostStart
      <4> QED
        BY <4>2, <4>3
    <3>5. CASE HostHelperLoaded
      <4>1. h2d = <<>> /\ d2h' = d2h
        BY <3>2, <3>5 DEF HostHelperLoaded
      <4>2. CASE hpc' = "fail" /\ h2d' = h2d
        BY <4>1, <4>2 DEF Pace, Quit
      <4>3. CASE h2d' = Append(h2d, ReqCall) /\ hpc' = "next" /\ stage' = "files"
        <5>1. h2d' = <<ReqCall>>
          BY <4>1, <4>3
        <5>2. Between'
          BY <3>2, <4>1, <4>3, <5>1, <1>a DEF Between, Ahead
        <5>3. InBlock'
          BY <4>3 DEF InBlock
        <5> QED
          BY <5>2, <5>3 DEF Pace, InStep
      <4> QED
        BY <3>5, <4>2, <4>3 DEF HostHelperLoaded
    <3>6. CASE HostFile
      <4>1. d2h' = d2h /\ fno <= Len(job.files)
        BY <3>6 DEF HostFile
      <4>2. CASE LoadBinary
        BY <3>2, <4>1, <4>2, <1>a, BinaryPace DEF Pace
      <4>3. CASE stage' = "elf" /\ UNCHANGED <<h2d, hpc>>
        BY <3>3, <3>6, <4>1, <4>3 DEF HostFile
      <4> QED
        BY <3>6, <4>2, <4>3 DEF HostFile
    <3>7. CASE HostSegment
      <4>1. /\ d2h' = d2h /\ stage = "elf" /\ sno <= Len(File.segs)
            /\ Download(Segment.addr, Segment.data, "elf")
        BY <3>7 DEF HostSegment
      <4>2. fno <= Len(job.files)
        BY <4>1 DEF HostInd
      <4>3. Segment \in SegType /\ File \in FileType /\ job \in JobType /\ job \in Jobs
        BY <4>1, <4>2, <1>a, JobFacts DEF HostTypeOK
      <4>4. sno \in DOMAIN File.segs /\ fno \in DOMAIN job.files
        BY <4>1, <4>2, <4>3, <1>a DEF HostTypeOK, FileType, JobType
      <4>5. Sized32(Segment.data)
        BY <4>3, <4>4, SizeAssumption DEF Segment, File
      <4>6. Segment.addr \in Long /\ Segment.data \in Seq(Byte) /\ Len(Segment.data) \in Long
        BY <4>3, <4>5, FitsLong DEF SegType
      <4>7. InStep'
        BY <3>2, <4>1, <4>6, <1>a, DownloadPace
      <4> QED
        BY <4>7 DEF Pace
    <3>8. CASE HostSegmentDone
      BY <3>3, <3>8 DEF HostSegmentDone
    <3>9. CASE HostElfDone
      <4>1. d2h' = d2h /\ fno <= Len(job.files)
        BY <3>9 DEF HostElfDone, HostInd
      <4>2. CASE LoadBinary
        BY <3>2, <4>1, <4>2, <1>a, BinaryPace DEF Pace
      <4>3. CASE stage' = "files" /\ UNCHANGED <<h2d, hpc>>
        BY <3>3, <3>9, <4>1, <4>3 DEF HostElfDone
      <4> QED
        BY <3>9, <4>2, <4>3 DEF HostElfDone
    <3>10. CASE HostBinaryDone
      BY <3>2, <3>3, <3>10, <1>a DEF HostBinaryDone, HostTypeOK
    <3>11. CASE HostTail
      <4>1. d2h' = d2h /\ job \in Jobs /\ job \in JobType
        BY <3>11, <1>a, JobFacts DEF HostTail, HostTypeOK
      <4>2. CASE Download(HimemBit, Stub(RoundUp(top)), "stub")
        <5>1. RoundUp(top) \in Nat
          BY <1>a DEF RoundUp, LongBytes, HostTypeOK
        <5>2. Stub(RoundUp(top)) \in Seq(Byte) /\ Len(Stub(RoundUp(top))) = HostChunk
          BY <5>1, StubIsBytes, JobAssumption DEF Stub
        <5>3. HostChunk \in Long /\ HimemBit \in Long
          BY SharedAssumption, LoaderAssumption, HubAssumption DEF Long, HimemBit
        <5>4. InStep'
          BY <3>2, <4>1, <4>2, <5>2, <5>3, <1>a, DownloadPace
        <5> QED
          BY <5>4 DEF Pace
      <4>3. CASE Download(HostHelper, job.argv, "argv")
        <5>1. HostHelper \in Long /\ HostHelper < HimemBit
          BY HelperFits
        <5>2. job.argv \in Seq(Byte) /\ Len(job.argv) \in Long
          BY <4>1, SizeAssumption, FitsLong DEF JobType
        <5>3. InStep'
          BY <3>2, <4>1, <4>3, <5>1, <5>2, <1>a, DownloadPace
        <5> QED
          BY <5>3 DEF Pace
      <4>4. CASE h2d' = Append(h2d, ReqDone) /\ hpc' = "ok"
        <5>1. \/ h2d' = <<ReqDone>>
              \/ h2d' # <<>> /\ Head(h2d') = ReqCall /\ Tail(h2d') = <<ReqDone>>
          <6>1. CASE h2d = <<>>
            BY <4>4, <6>1
          <6>2. CASE h2d = <<ReqCall>>
            <7>1. ReqCall \in Byte /\ <<ReqDone>> \in Seq(Byte)
              BY DEF ReqCall, ReqDone, Byte
            <7>2. h2d' = <<ReqCall>> \o <<ReqDone>>
              BY <4>4, <6>2
            <7> QED
              BY <7>1, <7>2, Prepend
          <6> QED
            BY <3>2, <6>1, <6>2 DEF Ahead
        <5>2. IsRequest(<<ReqDone>>)'
          BY <4>4 DEF IsRequest, IsLast
        <5>3. h2d' # <<>>
          BY <5>1
        <5>4. Asking'
          BY <3>2, <4>1, <4>4, <5>1, <5>2, <5>3, <1>a DEF Asking
        <5>5. InBlock'
          BY <4>4 DEF InBlock
        <5> QED
          BY <5>4, <5>5 DEF Pace, InStep
      <4> QED
        BY <3>11, <4>2, <4>3, <4>4 DEF HostTail
    <3>12. CASE HostFinish
      <4> DEFINE flashreq == <<ReqFlash>> \o tx_raw_long(top)
      <4>1. /\ hpc' = "ok" /\ d2h' = d2h
            /\ h2d' = h2d \o (IF stage = "stub" THEN flashreq ELSE <<ReqDone>>)
        BY <3>12 DEF HostFinish
      <4>2. flashreq \in Seq(Byte) /\ Len(flashreq) = 3 /\ Head(flashreq) = ReqFlash
        <5>1. tx_raw_long(top) \in Seq(Byte) /\ Len(tx_raw_long(top)) = 2
          BY <1>a, LongIsBytes DEF HostTypeOK, tx_raw_long
        <5>2. ReqFlash \in Byte
          BY DEF ReqFlash, Byte
        <5> DEFINE raw == tx_raw_long(top)
        <5>3. raw \in Seq(Byte) /\ Len(raw) = 2
          BY <5>1
        <5> HIDE DEF raw
        <5>4. /\ <<ReqFlash>> \o raw \in Seq(Byte) /\ Len(<<ReqFlash>> \o raw) = Len(raw) + 1
              /\ Head(<<ReqFlash>> \o raw) = ReqFlash
          BY <5>2, <5>3, Prepend, Zenon
        <5> QED
          BY <5>3, <5>4 DEF raw
      <4> HIDE DEF flashreq
      <4>3. IsLast(flashreq) /\ IsLast(<<ReqDone>>) /\ <<ReqDone>> \in Seq(Byte)
        BY <4>2 DEF IsLast, LongBytes, ReqDone, Byte
      <4>4. PICK last \in Seq(Byte) : IsLast(last) /\ h2d' = h2d \o last
        BY <4>1, <4>2, <4>3
      <4>5. last # <<>>
        BY <4>4 DEF IsLast, LongBytes
      <4>6. IsRequest(last)'
        BY <4>1, <4>4, <4>5 DEF IsRequest, IsLast
      <4>7. Asking'
        <5>1. CASE h2d = <<>>
          BY <3>2, <4>1, <4>4, <4>5, <4>6, <5>1, <1>a DEF Asking
        <5>2. CASE h2d = <<ReqCall>>
          <6>1. ReqCall \in Byte
            BY DEF ReqCall, Byte
          <6>2. h2d' = <<ReqCall>> \o last
            BY <4>4, <5>2
          <6>3. h2d' # <<>> /\ Head(h2d') = ReqCall /\ Tail(h2d') = last
            BY <6>1, <6>2
          <6> QED
            BY <3>2, <4>1, <4>6, <6>3, <1>a DEF Asking
        <5> QED
          BY <3>2, <5>1, <5>2 DEF Ahead
      <4>8. InBlock'
        BY <4>1 DEF InBlock
      <4> QED
        BY <4>7, <4>8 DEF Pace, InStep
    <3> QED
      BY <2>5, <3>4, <3>5, <3>6, <3>7, <3>8, <3>9, <3>10, <3>11, <3>12
         DEF HostStep, HostMode, HostSend, HostNextChunk, HostVerify
  <2> QED
    BY <2>1, <2>2, <2>3, <2>4, <2>5
       DEF HostStep, HostStart, HostHelperLoaded, HostFile, HostSegment, HostSegmentDone,
           HostElfDone, HostBinaryDone, HostTail, HostFinish
<1> QED
  BY <1>b, <1>c, <1>d DEF Pace

(* The loader's steps.                                                     *)
LEMMA DevPace ==
  ASSUME TypeOK, HostInd, Pace, DevStep, UNCHANGED hostVars
  PROVE  Pace'
<1>a. /\ UNCHANGED <<hpc, stage, rest, num, mode, ret>>
      /\ h2d \in Seq(Byte) /\ d2h \in Seq(Byte) /\ rest \in Seq(Byte) /\ num \in Nat
      /\ chksum \in Byte /\ filesize \in Nat /\ filesize < 65536 /\ pb \in Nat /\ pb < 65536
  BY DEF hostVars, TypeOK, HostTypeOK, LinkTypeOK, DevTypeOK, Long
<1>b. CASE Astray
  BY <1>b DEF Astray, DevStep, NextRequest, ReadHeader, StreamByte, ChunkByte, PostChunk,
       ChunksDone, HimemError, ReadFlashLength, PostFlashCopy, DoneAndExec
<1>c. CASE Quit
  <2>1. h2d = <<>>
    BY <1>c DEF Quit
  <2>2. h2d' = <<>>
    BY <2>1 DEF DevStep, NextRequest, ReadHeader, StreamByte, ChunkByte, PostChunk,
         ChunksDone, HimemError, ReadFlashLength, PostFlashCopy, DoneAndExec, LongBytes
  <2> QED
    BY <2>2, <1>a, <1>c DEF Pace, Quit
<1>d. CASE InStep
  <2>0. InBlock'
    BY <1>d, <1>a DEF InStep, InBlock
  <2>1. CASE NextRequest
    <3>1. /\ dpc = "request" /\ h2d # <<>> /\ h2d' = Tail(h2d) /\ d2h' = d2h
          /\ Head(h2d) = ReqLoad  => dpc' = "header"
          /\ Head(h2d) = ReqFlash => dpc' = "flashlen"
          /\ Head(h2d) = ReqCall  => dpc' \in {"request", "wild"}
      BY <2>1 DEF NextRequest, ReqLoad, ReqFlash, ReqDone, ReqCall
    <3>2. CASE Between
      <4>1. h2d = <<ReqCall>> /\ d2h = <<>>
        BY <3>1, <3>2 DEF Between, Ahead
      <4>2. h2d' = <<>> /\ dpc' \in {"request", "wild"}
        BY <3>1, <4>1 DEF ReqCall
      <4>3. CASE dpc' = "wild"
        BY <4>3 DEF Pace, Astray
      <4>4. CASE dpc' = "request"
        <5>1. Between'
          BY <3>1, <3>2, <4>1, <4>2, <4>4, <1>a DEF Between, Ahead
        <5> QED
          BY <5>1, <2>0 DEF Pace, InStep
      <4> QED
        BY <4>2, <4>3, <4>4
    <3>3. CASE Asking /\ IsRequest(h2d)
      <4>1. CASE hpc = "mode"
        <5>1. Head(h2d) = ReqLoad /\ IsHeader(Tail(h2d)) /\ d2h = <<>> /\ num = chunk(Len(rest))
          BY <3>3, <4>1 DEF Asking, IsRequest
        <5>2. dpc' = "header"
          BY <3>1, <5>1
        <5>3. IsHeader(h2d)'
          <6>1. PICK s : s = Tail(h2d) /\ IsHeader(s)
            BY <5>1
          <6>2. h2d' = s
            BY <3>1, <6>1
          <6>3. UNCHANGED IsHeader(s)
            BY <1>a DEF IsHeader
          <6>4. IsHeader(s)'
            BY <6>1, <6>3
          <6> QED
            BY <6>2, <6>4 DEF IsHeader
        <5>4. Heading'
          BY <3>1, <4>1, <5>1, <5>2, <5>3, <1>a DEF Heading
        <5> QED
          BY <5>4, <2>0 DEF Pace, InStep
      <4>2. CASE hpc = "ok" /\ Len(h2d) = 1 /\ Head(h2d) = ReqDone
        <5>1. h2d' = <<>>
          BY <3>1, <4>2, <1>a
        <5> QED
          BY <4>2, <5>1, <1>a DEF Pace, Quit
      <4>3. CASE hpc = "ok" /\ Len(h2d) = 1 + LongBytes /\ Head(h2d) = ReqFlash
        <5>1. dpc' = "flashlen"
          BY <3>1, <4>3
        <5>2. Len(h2d') = LongBytes
          BY <3>1, <4>3, <1>a DEF LongBytes
        <5>3. Heading'
          BY <4>3, <5>1, <5>2, <1>a DEF Heading
        <5> QED
          BY <5>3, <2>0 DEF Pace, InStep
      <4> QED
        BY <3>3, <4>1, <4>2, <4>3 DEF IsRequest, IsLast
    <3>4. CASE Asking /\ Head(h2d) = ReqCall /\ IsRequest(Tail(h2d))
      <4>1. dpc' \in {"request", "wild"}
        BY <3>1, <3>4
      <4>2. CASE dpc' = "wild"
        BY <4>2 DEF Pace, Astray
      <4>3. CASE dpc' = "request"
        <5>1. IsRequest(h2d)'
          <6>1. PICK s : s = Tail(h2d) /\ IsRequest(s)
            BY <3>4
          <6>2. h2d' = s
            BY <3>1, <6>1
          <6>3. UNCHANGED IsHeader(Tail(s))
            BY <1>a DEF IsHeader
          <6>4. IsRequest(s)'
            BY <6>1, <6>3, <1>a DEF IsRequest, IsLast
          <6> QED
            BY <6>2, <6>4 DEF IsRequest, IsLast
        <5>2. Asking'
          BY <3>1, <3>4, <4>3, <5>1, <1>a DEF Asking, IsRequest
        <5> QED
          BY <5>2, <2>0 DEF Pace, InStep
      <4> QED
        BY <4>1, <4>2, <4>3
    <3> QED
      BY <1>d, <3>1, <3>2, <3>3, <3>4
         DEF InStep, Asking, Heading, Declined, Streaming, Chunking, Posting, Summed
  <2>2. CASE ReadHeader
    <3> DEFINE addr == ser_rx_long(h2d[1], h2d[2])
               len  == ser_rx_long(h2d[3], h2d[4])
    <3>0. LongBytes = 2 /\ 2 * 2 = 4 /\ 4 + 1 = 5
      BY DEF LongBytes
    <3>1. /\ dpc = "header" /\ Len(h2d) >= 4 /\ h2d' = SubSeq(h2d, 5, Len(h2d))
          /\ filesize' = len
          /\ \/ addr < HimemBit /\ d2h' = d2h \o <<RepStream>> /\ dpc' = "stream"
             \/ /\ addr >= HimemBit /\ d2h' = d2h \o <<RepChunk>> /\ dpc' = "chunk"
                /\ pb' = bufsiz(len)
             \/ addr >= HimemBit /\ d2h' = d2h \o <<RepNoHigh>> /\ dpc' = "header"
      BY <2>2, <3>0 DEF ReadHeader, Reply
    <3>2. hpc = "mode" /\ d2h = <<>> /\ num = chunk(Len(rest)) /\ IsHeader(h2d)
      BY <1>d, <3>1
         DEF InStep, Between, Asking, Heading, Declined, Streaming, Chunking, Posting, Summed
    <3>3. h2d' = <<>> /\ filesize' = Len(rest)
      BY <3>1, <3>2, <1>a, SubSeqProperties DEF IsHeader, LongBytes
    <3>4. \/ d2h' = <<RepStream>> /\ dpc' = "stream"
          \/ d2h' = <<RepChunk>> /\ dpc' = "chunk" /\ pb' = bufsiz(filesize') /\ stage # "argv"
          \/ d2h' = <<RepNoHigh>> /\ dpc' = "header"
      <4>1. addr \in Int
        <5>1. h2d[1] \in Byte /\ h2d[2] \in Byte
          BY <3>1, <1>a
        <5> QED
          BY <5>1, BytesAreLong DEF Long
      <4>2. stage = "argv" => addr < HimemBit
        BY <3>2 DEF IsHeader
      <4>3. \A c : <<>> \o <<c>> = <<c>>
        OBVIOUS
      <4> HIDE DEF addr
      <4> QED
        BY <3>1, <3>2, <4>1, <4>2, <4>3 DEF HimemBit
    <3>5. CASE d2h' = <<RepStream>> /\ dpc' = "stream"
      BY <2>0, <3>2, <3>3, <3>5, <1>a DEF Pace, InStep, Streaming
    <3>6. CASE d2h' = <<RepChunk>> /\ dpc' = "chunk" /\ pb' = bufsiz(filesize') /\ stage # "argv"
      <4>1. NewChunk'
        BY <3>2, <3>3, <3>6, <1>a DEF NewChunk
      <4>2. Chunking'
        BY <3>2, <3>6, <4>1, <1>a DEF Chunking
      <4> QED
        BY <2>0, <4>2 DEF Pace, InStep
    <3>7. CASE d2h' = <<RepNoHigh>> /\ dpc' = "header"
      BY <2>0, <3>2, <3>3, <3>7, <1>a DEF Pace, InStep, Declined
    <3> QED
      BY <3>4, <3>5, <3>6, <3>7
  <2>3. CASE StreamByte
    <3>1. /\ dpc = "stream" /\ h2d # <<>> /\ h2d' = Tail(h2d) /\ filesize' = djnz(filesize)
          /\ chksum' = (chksum + Head(h2d)) % 256
          /\ IF filesize' = 0 THEN dpc' = "request" /\ d2h' = d2h \o send_chksum(chksum')
                              ELSE UNCHANGED <<dpc, d2h>>
      BY <2>3 DEF StreamByte, Exhausted, Reply
    <3>2. /\ hpc \in {"data", "verify"} /\ mode = RepStream /\ d2h = <<>>
          /\ hpc = "verify" => rest = <<>>
          /\ Len(h2d) + Len(rest) <= filesize
      BY <1>d, <3>1
         DEF InStep, Between, Asking, Heading, Declined, Streaming, Chunking, Posting, Summed
    <3>3. Len(h2d) >= 1 /\ Len(h2d') = Len(h2d) - 1 /\ Len(rest) \in Nat /\ Len(h2d) \in Nat
      BY <3>1, <1>a
    <3>4. filesize' = filesize - 1
      BY <3>1, <3>2, <3>3, <1>a DEF djnz, HimemBit
    <3>5. CASE filesize' = 0
      <4>1. Len(h2d') = 0 /\ Len(rest) = 0
        BY <3>2, <3>3, <3>4, <3>5, <1>a
      <4>2. h2d' = <<>> /\ hpc = "verify"
        BY <3>1, <3>2, <4>1, <1>a DEF HostInd
      <4>3. chksum' \in Byte
        BY <3>1, <1>a, SumIsByte
      <4>4. d2h' = send_chksum(chksum')
        BY <3>1, <3>2, <3>5, <4>3, ChksumIsBytes
      <4>5. Summed'
        BY <3>1, <3>5, <4>2, <4>3, <4>4, <1>a DEF Summed
      <4> QED
        BY <2>0, <4>5 DEF Pace, InStep
    <3>6. CASE filesize' # 0
      <4>1. Streaming'
        BY <3>1, <3>2, <3>3, <3>4, <3>6, <1>a DEF Streaming
      <4> QED
        BY <2>0, <4>1 DEF Pace, InStep
    <3> QED
      BY <3>5, <3>6
  <2>4. CASE ChunkByte
    <3>1. /\ dpc = "chunk" /\ h2d # <<>> /\ h2d' = Tail(h2d) /\ pb' = djnz(pb)
          /\ dpc' = IF pb' = 0 THEN "post" ELSE "chunk"
          /\ UNCHANGED <<d2h, filesize>>
      BY <2>4 DEF ChunkByte, Exhausted
    <3>2. Chunking
      BY <1>d, <3>1
         DEF InStep, Between, Asking, Heading, Declined, Streaming, Posting, Summed
    <3>3. /\ d2h = <<>> /\ stage # "argv" /\ Len(h2d) <= pb
          /\ \/ hpc = "data" /\ mode = RepChunk /\ Len(h2d) + num <= pb /\ Len(rest) = num + Later
             \/ hpc = "waitk" /\ Len(rest) = Later /\ num = chunk(Len(rest))
             \/ hpc = "verify" /\ Later = 0
      BY <3>1, <3>2, <1>a DEF Chunking, NewChunk
    <3>4. Len(h2d) >= 1 /\ Len(h2d') = Len(h2d) - 1 /\ Len(rest) \in Nat /\ Len(h2d) \in Nat
      BY <3>1, <1>a
    <3>5. pb' = pb - 1
      BY <3>1, <3>3, <3>4, <1>a DEF djnz, HimemBit
    <3>6. Later' = Later
      BY <3>1 DEF Later, bufsiz
    <3>7. CASE pb' # 0
      <4>1. Chunking'
        BY <3>1, <3>3, <3>4, <3>5, <3>6, <3>7, <1>a DEF Chunking
      <4> QED
        BY <2>0, <4>1 DEF Pace, InStep
    <3>8. CASE pb' = 0
      <4>1. h2d' = <<>> /\ hpc \in {"waitk", "verify"}
        BY <3>1, <3>3, <3>4, <3>5, <3>8, <1>a DEF HostInd
      <4>2. hpc = "waitk" => Later # 0
        BY <1>d, <3>3, <1>a DEF InStep, InBlock
      <4>3. Posting'
        BY <3>1, <3>3, <3>6, <3>8, <4>1, <4>2, <1>a DEF Posting
      <4> QED
        BY <2>0, <4>3 DEF Pace, InStep
    <3> QED
      BY <3>7, <3>8
  <2>5. CASE PostChunk
    <3>1. /\ dpc = "post" /\ filesize' = Later /\ h2d' = h2d
          /\ \/ filesize' # 0 /\ pb' = bufsiz(filesize') /\ d2h' = d2h \o <<RepChunk>> /\ dpc' = "chunk"
             \/ filesize' = 0 /\ dpc' = "drain" /\ UNCHANGED d2h
      BY <2>5 DEF PostChunk, Later, Reply
    <3>2. /\ h2d = <<>> /\ d2h = <<>>
          /\ \/ hpc = "waitk" /\ Len(rest) = Later /\ Later # 0 /\ num = chunk(Len(rest))
             \/ hpc = "verify" /\ Later = 0
      BY <1>d, <3>1
         DEF InStep, Between, Asking, Heading, Declined, Streaming, Chunking, Posting, Summed
    <3>3. CASE filesize' # 0
      <4>1. d2h' = <<RepChunk>>
        BY <3>1, <3>2, <3>3 DEF RepChunk
      <4>2. NewChunk'
        BY <3>1, <3>2, <3>3, <4>1, <1>a DEF NewChunk
      <4>3. stage # "argv"
        BY <1>d, <3>1, <3>2, <3>3 DEF InStep, InBlock
      <4>4. Chunking'
        BY <3>1, <3>2, <3>3, <4>2, <4>3, <1>a DEF Chunking
      <4> QED
        BY <2>0, <4>4 DEF Pace, InStep
    <3>4. CASE filesize' = 0
      <4>1. Posting'
        BY <3>1, <3>2, <3>4, <1>a DEF Posting
      <4> QED
        BY <2>0, <4>1 DEF Pace, InStep
    <3> QED
      BY <3>3, <3>4
  <2>6. CASE ChunksDone
    <3>1. dpc = "drain" /\ dpc' = "request" /\ h2d' = h2d /\ d2h' = d2h \o send_chksum(chksum)
      BY <2>6 DEF ChunksDone, Reply
    <3>2. h2d = <<>> /\ d2h = <<>> /\ hpc = "verify"
      BY <1>d, <3>1
         DEF InStep, Between, Asking, Heading, Declined, Streaming, Chunking, Posting, Summed
    <3>3. d2h' = send_chksum(chksum)
      BY <3>1, <3>2, <1>a, ChksumIsBytes
    <3>4. Summed'
      BY <3>1, <3>2, <3>3, <1>a DEF Summed
    <3> QED
      BY <2>0, <3>4 DEF Pace, InStep
  <2>7. CASE HimemError
    <3>1. /\ dpc \in {"post", "drain", "postF", "exec"} /\ dpc' = "header" /\ h2d' = h2d
          /\ d2h' = d2h \o (<<RepError>> \o ErrText)
      BY <2>7 DEF HimemError, Reply
    <3>2. h2d = <<>> /\ d2h = <<>> /\ hpc \in {"waitk", "verify"}
      BY <1>d, <3>1
         DEF InStep, Between, Asking, Heading, Declined, Streaming, Chunking, Posting, Summed
    <3>3. d2h' = <<RepError>> \o ErrText
      <4>1. RepError \in Byte /\ ErrText \in Seq(Byte)
        BY LoaderAssumption DEF RepError, Byte
      <4>2. <<RepError>> \o ErrText \in Seq(Byte)
        BY <4>1, Prepend
      <4> QED
        BY <3>1, <3>2, <4>2
    <3>4. Declined'
      BY <3>1, <3>2, <3>3, <1>a DEF Declined
    <3> QED
      BY <2>0, <3>4 DEF Pace, InStep
  <2>8. CASE ReadFlashLength
    <3>1. dpc = "flashlen" /\ h2d' = SubSeq(h2d, 3, Len(h2d))
      BY <2>8 DEF ReadFlashLength, LongBytes
    <3>2. hpc = "ok" /\ Len(h2d) = 2
      BY <1>d, <3>1
         DEF InStep, Between, Asking, Heading, Declined, Streaming, Chunking, Posting, Summed, LongBytes
    <3>3. h2d' = <<>>
      BY <3>1, <3>2, <1>a, SubSeqProperties
    <3> QED
      BY <3>2, <3>3, <1>a DEF Pace, Quit
  <2>9. CASE PostFlashCopy \/ DoneAndExec
    BY <1>d, <2>9 DEF PostFlashCopy, DoneAndExec,
         InStep, Between, Asking, Heading, Declined, Streaming, Chunking, Posting, Summed
  <2> QED
    BY <2>1, <2>2, <2>3, <2>4, <2>5, <2>6, <2>7, <2>8, <2>9 DEF DevStep
<1> QED
  BY <1>b, <1>c, <1>d DEF Pace

(* The timeouts of a host that is patient enough: the loader is silent     *)
(* because it waits for bytes that will not come.                          *)
LEMMA TimeoutPace ==
  ASSUME TypeOK, Prompt, Pace, Timeout
  PROVE  Pace'
<1>1. /\ HostTimeout /\ DeviceSilent
      /\ UNCHANGED <<h2d, dpc, stage, rest, num, mode>>
      /\ \/ hpc = "waitk" /\ hpc' = "return" /\ ret' = -1
         \/ hpc \in {"mode", "verify"} /\ hpc' = "fail"
      /\ hpc \in {"mode", "waitk"} => d2h = <<>>
  BY DEF Timeout, HostTimeout, TimedOut, devVars, Prompt
<1>2. CASE Astray
  BY <1>1, <1>2 DEF Pace, Astray
<1>3. CASE Quit
  BY <1>1, <1>3 DEF Quit
<1>4. CASE InStep
  <2>1. h2d \in Seq(Byte)
    BY DEF TypeOK, LinkTypeOK
  <2>2. h2d = <<>>
    BY <1>1, <1>4, <2>1 DEF DeviceSilent, InStep, Between, Asking, Heading, Declined, Streaming,
         Chunking, NewChunk, Posting, Summed, IsHeader, LongBytes
  <2>3. hpc = "waitk" => stage \in {"helper", "bin", "elf"}
    BY <1>4 DEF InStep, InBlock
  <2> QED
    BY <1>1, <2>2, <2>3 DEF Pace, Quit
<1> QED
  BY <1>2, <1>3, <1>4 DEF Pace

(* A byte lost or changed leaves no more on the line than there was.       *)
LEMMA FaultPace ==
  ASSUME TypeOK, Pace, LinkFault
  PROVE  Pace'
<1>1. /\ dpc \in {"stream", "chunk"} /\ h2d # <<>> /\ UNCHANGED <<d2h, devVars, hostVars>>
      /\ h2d' = Tail(h2d) \/ \E b \in CorruptBytes : h2d' = <<b>> \o Tail(h2d)
  BY DEF LinkFault
<1>2. h2d \in Seq(Byte) /\ num \in Nat /\ rest \in Seq(Byte) /\ pb \in Nat /\ filesize \in Nat
  BY DEF TypeOK, LinkTypeOK, HostTypeOK, DevTypeOK, Long
<1>3. Len(h2d') \in Nat /\ Len(h2d) \in Nat /\ Len(h2d') <= Len(h2d)
  <2>1. Tail(h2d) \in Seq(Byte) /\ Len(Tail(h2d)) = Len(h2d) - 1 /\ Len(h2d) \in Nat /\ Len(h2d) # 0
    BY <1>1, <1>2
  <2>2. CASE h2d' = Tail(h2d)
    BY <2>1, <2>2
  <2>3. CASE \E b \in CorruptBytes : h2d' = <<b>> \o Tail(h2d)
    <3>1. PICK b \in Byte : h2d' = <<b>> \o Tail(h2d)
      BY <2>3, FaultAssumption
    <3>2. Len(h2d') = Len(Tail(h2d)) + 1
      BY <2>1, <3>1, Prepend
    <3> QED
      BY <2>1, <3>2
  <2> QED
    BY <1>1, <2>2, <2>3
<1>4. UNCHANGED <<dpc, filesize, pb, hpc, stage, rest, num, mode, ret>>
  BY <1>1 DEF devVars, hostVars
<1>5. InStep /\ InBlock /\ (Streaming \/ Chunking) /\ ~NewChunk
  BY <1>1 DEF Pace, Astray, Quit, InStep, Between, Asking, Heading, Declined, NewChunk, Posting, Summed
<1>6. InBlock'
  BY <1>4, <1>5 DEF InBlock
<1>7. CASE Streaming
  <2>1. Streaming'
    BY <1>1, <1>2, <1>3, <1>4, <1>7 DEF Streaming
  <2> QED
    BY <1>6, <2>1 DEF Pace, InStep
<1>8. CASE Chunking
  <2>1. Later' = Later
    BY <1>4 DEF Later, bufsiz
  <2>2. Chunking'
    BY <1>1, <1>2, <1>3, <1>4, <1>5, <1>8, <2>1 DEF Chunking
  <2> QED
    BY <1>6, <2>2 DEF Pace, InStep
<1> QED
  BY <1>5, <1>7, <1>8

(* Every step keeps the pace.                                              *)
LEMMA PaceStep ==
  ASSUME Prompt, TypeInd, SectionsLoad, Pace, [Next]_vars
  PROVE  Pace'
<1>0. TypeOK /\ HostInd
  BY DEF TypeInd
<1>1. CASE Host
  BY <1>0, <1>1, HostPace DEF Host
<1>2. CASE Device
  BY <1>0, <1>2, DevPace DEF Device
<1>3. CASE Cog \/ UNCHANGED vars
  <2>1. UNCHANGED <<linkVars, devVars, hostVars>>
    BY <1>3 DEF Cog, vars
  <2>2. UNCHANGED <<h2d, d2h, dpc, filesize, pb, hpc, stage, rest, num, mode, ret>>
    BY <2>1 DEF linkVars, devVars, hostVars
  <2>3. UNCHANGED Astray /\ UNCHANGED Quit /\ UNCHANGED InBlock
    BY <2>2 DEF Astray, Quit, InBlock
  <2>4. UNCHANGED Between /\ UNCHANGED Declined /\ UNCHANGED Streaming /\ UNCHANGED Summed
    BY <2>2 DEF Between, Declined, Streaming, Summed
  <2>5. UNCHANGED Chunking /\ UNCHANGED Posting
    BY <2>2 DEF Chunking, NewChunk, Posting, Later, bufsiz
  <2>6. UNCHANGED IsHeader(h2d) /\ UNCHANGED IsRequest(h2d) /\ UNCHANGED IsRequest(Tail(h2d))
    BY <2>2 DEF IsHeader, IsRequest, IsLast
  <2>7. UNCHANGED Asking /\ UNCHANGED Heading
    BY <2>2, <2>6 DEF Asking, Heading
  <2> QED
    BY <2>3, <2>4, <2>5, <2>7 DEF Pace, InStep
<1>4. CASE Timeout
  BY <1>0, <1>4, TimeoutPace
<1>5. CASE LinkFault
  BY <1>0, <1>5, FaultPace
<1> QED
  BY <1>1, <1>2, <1>3, <1>4, <1>5 DEF Next

(* While the loader waits for the helper nothing is on the line.           *)
LEMMA PaceImplies == Pace => NoOverrun
BY DEF Pace, Astray, Quit, InStep, Between, Asking, Heading, Declined, Streaming, Chunking,
       Posting, Summed, NoOverrun

(* No byte arrives while the loader is not polling its receiver, for       *)
(* every command line, every size of a chunk, and every loss the line may  *)
(* have: downloadData's waits for 'k' and for the checksum are enough to   *)
(* pace it. Two hypotheses: the host's timeouts are long enough (Prompt),  *)
(* and no ELF section has failed (SectionsLoad).                           *)
THEOREM PacedCorrect == Prompt => (Spec /\ []SectionsLoad => []NoOverrun)
<1> SUFFICES ASSUME Prompt PROVE Spec /\ []SectionsLoad => []NoOverrun
  OBVIOUS
<1>1. Init => TypeInd /\ Pace
  BY TypeInit, PaceInit
<1>2. TypeInd /\ SectionsLoad /\ Pace /\ [Next]_vars => TypeInd' /\ Pace'
  BY TypeStep, PaceStep
<1>3. TypeInd /\ Pace => NoOverrun
  BY PaceImplies
<1> QED
  BY <1>1, <1>2, <1>3, PTL DEF Spec
-----------------------------------------------------------------------------
(* n bytes at a miss the mailbox.                                          *)
Clear(a, n) == a + n <= MailBase \/ MailBase + 2 < a
(* So do n bytes for hub memory; a block for high memory does not touch    *)
(* it.                                                                     *)
Missing(a, n) == a < HimemBit /\ n # 0 => Clear(a, n)
(* No block of the command line is loaded over the mailbox of the helper.  *)
(* loadfile does not check this: a command line that does is loaded over   *)
(* a helper that is running.                                               *)
ClearJob(j) == j.helper =>
  /\ Missing(HostHelper, Len(j.argv))
  /\ \A i \in DOMAIN j.files :
       /\ Missing(j.files[i].addr, ImageLen(j.files[i]))
       /\ \A k \in DOMAIN j.files[i].segs :
            Missing(j.files[i].segs[k].addr, Len(j.files[i].segs[k].data))
(* None of the command lines does.                                         *)
JobsClear == \A j \in Jobs : ClearJob(j)

(* The request to start the helper is about to be read.                    *)
CallComes == dpc = "request" /\ h2d # <<>> /\ Head(h2d) = ReqCall
(* When it is, the mailbox in the image of the helper is empty.            *)
CallsIdle == CallComes => mbox.word = 0

(* The address in the header at the end of what is on the line.            *)
SentAddr(s) == ser_rx_long(s[Len(s) - 3], s[Len(s) - 2])

(* The mailbox lives from the end of the helper download on; what the      *)
(* host sends, and what the loader is about to store, misses it.           *)
MailInd ==
  /\ stage \in {"start", "helper"} => mailbox = 0 /\ ~CallComes
  /\ CallComes => mailbox = 0
  /\ mailbox # 0 \/ CallComes \/ stage = "helper" => job.helper
  /\ hpc = "mode" /\ h2d # <<>> /\ stage # "helper" /\ job.helper =>
       Missing(SentAddr(h2d), Len(rest))
  /\ dpc = "stream" /\ stage # "helper" /\ job.helper => Clear(ptrb, filesize)

(* The inductive invariant of the mailbox.                                 *)
MailOK == Astray \/ Quit \/ MailInd

(* At first there is no helper.                                            *)
LEMMA MailInit == Init => MailOK
BY DEF Init, HimemInit, DevInit, HostInit, MailOK, MailInd, CallComes

(* The address is found behind any request before it.                      *)
LEMMA AddrSent ==
  ASSUME NEW s \in Seq(Byte), NEW header \in Seq(Byte), Len(header) = 4
  PROVE  SentAddr(s \o (<<ReqLoad>> \o header)) = ser_rx_long(header[1], header[2])
<1> DEFINE pre == <<ReqLoad>>
           req == pre \o header
           all == s \o req
<1>0. pre \in Seq(Byte) /\ Len(pre) = 1
  BY DEF ReqLoad, Byte
<1> HIDE DEF pre
<1>a. /\ req \in Seq(Byte) /\ Len(req) = Len(pre) + Len(header)
      /\ \A i \in 1..Len(header) : req[Len(pre) + i] = header[i]
  BY <1>0, Join, Zenon
<1> HIDE DEF req
<1>1. req \in Seq(Byte) /\ Len(req) = 1 + 4 /\ \A i \in 1..4 : req[1 + i] = header[i]
  BY <1>0, <1>a
<1>b. /\ Len(all) = Len(s) + Len(req)
      /\ \A i \in 1..Len(req) : all[Len(s) + i] = req[i]
  BY <1>1, Join, Zenon
<1>3. Len(s) \in Nat
  OBVIOUS
<1> HIDE DEF all
<1>2. Len(all) = Len(s) + 5 /\ \A i \in 1..5 : all[Len(s) + i] = req[i]
  BY <1>1, <1>b
<1>4. Len(all) - 3 = Len(s) + 2 /\ Len(all) - 2 = Len(s) + 3
  BY <1>2, <1>3
<1>5. all[Len(s) + 2] = req[1 + 1] /\ all[Len(s) + 3] = req[1 + 2]
  BY <1>2
<1>6. req[1 + 1] = header[1] /\ req[1 + 2] = header[2]
  BY <1>1
<1>7. SentAddr(all) = ser_rx_long(header[1], header[2])
  BY <1>4, <1>5, <1>6 DEF SentAddr
<1> QED
  BY <1>7 DEF all, req, pre

(* Reading a byte in front of the header leaves the address.               *)
LEMMA AddrKept ==
  ASSUME NEW s \in Seq(Byte), Len(s) >= 5
  PROVE  SentAddr(Tail(s)) = SentAddr(s)
<1>1. Len(Tail(s)) = Len(s) - 1 /\ \A i \in 1..Len(s) - 1 : Tail(s)[i] = s[i + 1]
  OBVIOUS
<1> DEFINE u == Tail(s)
           n == Len(s)
<1>2. n \in Nat /\ n >= 5 /\ Len(u) = n - 1 /\ \A i \in 1..n - 1 : u[i] = s[i + 1]
  BY <1>1
<1> HIDE DEF u, n
<1>3. u[Len(u) - 3] = s[n - 3] /\ u[Len(u) - 2] = s[n - 2]
  BY <1>2
<1> QED
  BY <1>3 DEF SentAddr, u, n

(* What downloadData's entry puts on the line.                             *)
LEMMA DownloadMail ==
  ASSUME TypeOK, dpc = "request", UNCHANGED dpc,
         NEW addr \in Long, NEW data \in Seq(Byte), Len(data) \in Long,
         NEW caller, Download(addr, data, caller)
  PROVE  /\ CallComes' => CallComes
         /\ hpc' = "mode" => rest' = data /\ data # <<>> /\ SentAddr(h2d') = addr
         /\ hpc' = "return" => UNCHANGED h2d
         /\ h2d # <<>> => h2d' # <<>> /\ Head(h2d') = Head(h2d)
         /\ hpc' \in {"mode", "return"} /\ stage' = caller
<1>1. CASE data = <<>>
  <2>1. UNCHANGED h2d /\ hpc' = "return" /\ stage' = caller
    BY <1>1 DEF Download
  <2> QED
    BY <2>1 DEF CallComes
<1>2. CASE data # <<>>
  <2>1. hpc' = "mode" /\ rest' = data /\ stage' = caller
    BY <1>2, HeaderSent DEF Download
  <2>2. PICK header \in Seq(Byte) :
          /\ Len(header) = 4
          /\ ser_rx_long(header[1], header[2]) = addr
          /\ h2d' = h2d \o (<<ReqLoad>> \o header)
    BY <1>2, HeaderSent
  <2>3. ReqLoad \in Byte /\ ReqLoad # ReqCall /\ h2d \in Seq(Byte)
    BY DEF ReqLoad, ReqCall, Byte, TypeOK, LinkTypeOK
  <2>4. SentAddr(h2d') = addr
    BY <2>2, <2>3, AddrSent
  <2>5. CASE h2d = <<>>
    <3>1. h2d' = <<ReqLoad>> \o header
      BY <2>2, <2>3, <2>5
    <3>2. Head(h2d') = ReqLoad
      BY <3>1, <2>2, <2>3, Prepend
    <3> QED
      BY <2>1, <2>3, <2>4, <2>5, <3>2, <1>2 DEF CallComes
  <2>6. CASE h2d # <<>>
    <3> DEFINE req == <<ReqLoad>> \o header
    <3>1. req \in Seq(Byte)
      BY <2>2, <2>3, Prepend
    <3> HIDE DEF req
    <3>2. h2d' = h2d \o req
      BY <2>2 DEF req
    <3>3. h2d' # <<>> /\ Head(h2d') = Head(h2d)
      BY <2>3, <2>6, <3>1, <3>2
    <3> QED
      BY <2>1, <2>4, <2>6, <3>3, <1>2 DEF CallComes
  <2> QED
    BY <2>5, <2>6
<1> QED
  BY <1>1, <1>2

(* Block i of a job that keeps clear: *)
LEMMA ClearBlocks ==
  ASSUME JobsClear, HostTypeOK, job.helper
  PROVE  /\ Missing(HostHelper, Len(job.argv))
         /\ fno <= Len(job.files) =>
              /\ \A image \in FileImages(File) :
                   image # <<>> => Missing(File.addr, Len(image))
              /\ sno <= Len(File.segs) => Missing(Segment.addr, Len(Segment.data))
<1>1. job \in Jobs /\ job \in JobType /\ fno \in Nat \ {0} /\ sno \in Nat \ {0} /\ size \in Int
  BY JobFacts DEF HostTypeOK
<1>2. Missing(HostHelper, Len(job.argv))
  BY <1>1 DEF JobsClear, ClearJob
<1>3. ASSUME fno <= Len(job.files)
      PROVE  /\ \A image \in FileImages(File) : image # <<>> => Missing(File.addr, Len(image))
             /\ sno <= Len(File.segs) => Missing(Segment.addr, Len(Segment.data))
  <2>1. fno \in DOMAIN job.files /\ File \in FileType
    BY <1>1, <1>3, JobFacts DEF JobType
  <2>2. /\ Missing(File.addr, ImageLen(File))
        /\ \A k \in DOMAIN File.segs : Missing(File.segs[k].addr, Len(File.segs[k].data))
    BY <1>1, <2>1 DEF JobsClear, ClearJob, File
  <2>3. sno <= Len(File.segs) => sno \in DOMAIN File.segs
    BY <1>1, <2>1 DEF FileType
  <2>4. \A image \in FileImages(File) : image # <<>> => Len(image) = ImageLen(File)
    BY <1>3, ImageFacts
  <2> QED
    BY <2>2, <2>3, <2>4 DEF Segment
<1> QED
  BY <1>2, <1>3

(* The blocks have addresses and sizes a long can hold.                    *)
LEMMA BlockSizes ==
  ASSUME HostTypeOK, fno <= Len(job.files)
  PROVE  /\ File.addr \in Long
         /\ \A image \in FileImages(File) : image \in Seq(Byte) /\ Len(image) \in Long
         /\ sno <= Len(File.segs) =>
              /\ Segment.addr \in Long /\ Segment.data \in Seq(Byte)
              /\ Len(Segment.data) \in Long
<1>1. /\ File \in FileType /\ job \in Jobs
      /\ fno \in DOMAIN job.files /\ sno \in Nat \ {0}
      /\ sno <= Len(File.segs) => Segment \in SegType
  BY JobFacts DEF HostTypeOK, JobType
<1>2. \A image \in FileImages(File) : image \in Seq(Byte) /\ Len(image) \in Long
  BY ImageFacts
<1>3. ASSUME sno <= Len(File.segs)
      PROVE  Segment.addr \in Long /\ Segment.data \in Seq(Byte) /\ Len(Segment.data) \in Long
  <2>1. Segment \in SegType /\ sno \in DOMAIN File.segs
    BY <1>1, <1>3 DEF FileType
  <2>2. Sized32(Segment.data)
    BY <1>1, <2>1, SizeAssumption DEF Segment, File
  <2> QED
    BY <2>1, <2>2, FitsLong DEF SegType
<1> QED
  BY <1>1, <1>2, <1>3 DEF FileType
(* One of the two has gone.                                                *)
Lost == Astray \/ Quit

(* And does not come back.                                                 *)
LEMMA LostForGood ==
  ASSUME TypeOK, SectionsLoad, Lost, [Next]_vars
  PROVE  Lost'
<1>1. CASE Astray
  <2>1. dpc' = dpc
    BY <1>1 DEF Astray, Next, Host, Device, DevStep, NextRequest, ReadHeader, StreamByte,
         ChunkByte, PostChunk, ChunksDone, HimemError, ReadFlashLength, PostFlashCopy,
         DoneAndExec, Cog, Timeout, LinkFault, devVars, vars
  <2> QED
    BY <1>1, <2>1 DEF Lost, Astray
<1>2. CASE Quit
  <2>1. CASE HostStep
    <3>1. hpc = "return" /\ stage \in {"helper", "bin"} /\ ret < 0 /\ h2d = <<>>
      BY <1>2, <2>1 DEF Quit, SectionsLoad, HostStep, HostMode, HostSend, HostNextChunk,
           HostVerify, HostStart, HostHelperLoaded, HostFile, HostSegment, HostSegmentDone,
           HostElfDone, HostBinaryDone, HostTail, HostFinish
    <3>2. HostHelperLoaded \/ HostBinaryDone
      BY <2>1, <3>1 DEF HostStep, HostMode, HostSend, HostNextChunk, HostVerify,
           HostStart, HostFile, HostSegment, HostSegmentDone, HostElfDone, HostTail, HostFinish
    <3>3. Len(HelperImage) \in Nat /\ ret \in Int
      BY JobAssumption DEF TypeOK, HostTypeOK
    <3>4. hpc' = "fail" /\ h2d' = h2d
      BY <3>1, <3>2, <3>3 DEF HostHelperLoaded, HostBinaryDone
    <3> QED
      BY <3>1, <3>4 DEF Lost, Quit
  <2>2. CASE Device
    <3>1. h2d' = <<>>
      BY <1>2, <2>2 DEF Quit, Device, DevStep, NextRequest, ReadHeader, StreamByte, ChunkByte,
           PostChunk, ChunksDone, HimemError, ReadFlashLength, PostFlashCopy, DoneAndExec, LongBytes
    <3>2. UNCHANGED <<hpc, stage, ret>>
      BY <2>2 DEF Device, hostVars
    <3> QED
      BY <1>2, <3>1, <3>2 DEF Lost, Quit
  <2>3. CASE Cog \/ Timeout \/ LinkFault \/ UNCHANGED vars
    BY <1>2, <2>3 DEF Lost, Quit, Cog, Timeout, HostTimeout, HostShortRead, TimedOut, LinkFault,
         linkVars, hostVars, vars
  <2> QED
    BY <2>1, <2>2, <2>3 DEF Next, Host
<1> QED
  BY <1>1, <1>2 DEF Lost

(* downloadData's entry keeps the mailbox safe when its block does.        *)
LEMMA MailBlock ==
  ASSUME TypeOK, MailInd, dpc = "request", UNCHANGED <<dpc, mailbox, job>>,
         NEW addr \in Long, NEW data \in Seq(Byte), Len(data) \in Long,
         NEW caller, Download(addr, data, caller),
         caller = "helper" => stage = "start" /\ job.helper,
         caller # "start",
         caller # "helper" /\ job.helper /\ data # <<>> => Missing(addr, Len(data))
  PROVE  MailInd'
<1>1. /\ CallComes' => CallComes
      /\ hpc' = "mode" => rest' = data /\ data # <<>> /\ SentAddr(h2d') = addr
      /\ stage' = caller
  BY DownloadMail
<1>2. hpc' = "mode" /\ stage' # "helper" /\ job'.helper => Missing(SentAddr(h2d'), Len(rest'))
  BY <1>1
<1>3. (stage' \in {"start", "helper"} => mailbox' = 0 /\ ~CallComes')
  BY <1>1 DEF MailInd
<1>4. /\ CallComes' => mailbox' = 0
      /\ mailbox' # 0 \/ CallComes' \/ stage' = "helper" => job'.helper
  BY <1>1 DEF MailInd
<1>5. Missing(SentAddr(h2d), Len(rest))' <=> Missing(SentAddr(h2d'), Len(rest'))
  BY DEF Missing, Clear, SentAddr
<1> QED
  BY <1>2, <1>3, <1>4, <1>5 DEF MailInd

(* The host's steps.                                                       *)
LEMMA HostMail ==
  ASSUME JobsClear, TypeOK, HostInd, InStep, MailInd, HostStep,
         UNCHANGED <<memVars, devVars>>
  PROVE  MailInd'
<1>a. /\ UNCHANGED <<dpc, mailbox, ptrb, filesize, job>>
      /\ h2d \in Seq(Byte) /\ HostTypeOK /\ job \in Jobs /\ job \in JobType
  BY JobFacts DEF devVars, TypeOK, LinkTypeOK, HostTypeOK, HostStep, HostMode, HostSend, HostNextChunk,
       HostVerify, HostStart, HostHelperLoaded, HostFile, HostSegment, HostSegmentDone,
       HostElfDone, HostBinaryDone, HostTail, HostFinish
<1>0. ASSUME UNCHANGED <<h2d, rest>>, hpc' = "mode" => hpc = "mode" /\ UNCHANGED stage,
             stage' \in {"start", "helper"} <=> stage \in {"start", "helper"},
             stage' = "helper" <=> stage = "helper"
      PROVE  MailInd'
  <2>1. /\ UNCHANGED CallComes /\ UNCHANGED Missing(SentAddr(h2d), Len(rest))
        /\ UNCHANGED Clear(ptrb, filesize)
    BY <1>0, <1>a DEF CallComes, Missing, Clear, SentAddr
  <2> QED
    BY <1>0, <1>a, <2>1 DEF MailInd
<1>1. CASE HostMode \/ HostNextChunk \/ HostVerify \/ HostSegmentDone
  BY <1>0, <1>1 DEF HostMode, HostNextChunk, HostVerify, HostSegmentDone
<1>2. CASE HostSend
  <2>1. dpc # "request"
    BY <1>2 DEF HostSend, InStep, Between, Asking, IsRequest, IsLast, Summed, Heading, Declined,
         Streaming, Chunking, Posting
  <2>2. hpc' # "mode" /\ UNCHANGED stage /\ ~CallComes /\ ~CallComes'
    BY <1>2, <1>a, <2>1 DEF HostSend, CallComes
  <2>3. UNCHANGED Clear(ptrb, filesize)
    BY <1>a DEF Clear
  <2> QED
    BY <2>2, <2>3, <1>a DEF MailInd
<1>3. CASE hpc \in {"next", "return"} /\ ~HostSegmentDone
  <2>1. dpc = "request"
    BY <1>3 DEF InStep, Between, Asking, IsRequest, IsLast, Summed, Heading, Declined,
         Streaming, Chunking, Posting
  <2>b. CASE LoadBinary /\ fno <= Len(job.files)
    <3>3. PICK image \in FileImages(File) : Download(File.addr, image, "bin")
      BY <2>b DEF LoadBinary
    <3>1. File.addr \in Long /\ image \in Seq(Byte) /\ Len(image) \in Long
      BY <1>a, <2>b, BlockSizes
    <3>2. job.helper /\ image # <<>> => Missing(File.addr, Len(image))
      BY <1>a, <2>b, ClearBlocks
    <3> QED
      BY <1>a, <2>1, <3>1, <3>2, <3>3, MailBlock
  <2>c. ASSUME NEW addr \in Nat, NEW last \in Seq(Byte), last # <<>>, Head(last) # ReqCall,
               h2d' = h2d \o last, hpc' = "ok", UNCHANGED stage
        PROVE  MailInd'
    <3>1. CallComes' => CallComes
      <4>1. CASE h2d = <<>>
        BY <4>1, <2>c DEF CallComes
      <4>2. CASE h2d # <<>>
        <5>1. Head(h2d') = Head(h2d)
          BY <4>2, <2>c, <1>a
        <5> QED
          BY <2>1, <4>2, <5>1 DEF CallComes
      <4> QED
        BY <4>1, <4>2
    <3> QED
      BY <1>a, <2>1, <2>c, <3>1 DEF MailInd
  <2>2. CASE HostStart
    <3>1. CASE job.helper
      <4>1. Download(HostHelper, HelperImage, "helper") /\ stage = "start"
        BY <2>2, <3>1 DEF HostStart
      <4>2. HostHelper \in Long /\ HelperImage \in Seq(Byte) /\ Len(HelperImage) \in Long
        BY HelperFits
      <4> QED
        BY <1>a, <2>1, <3>1, <4>1, <4>2, MailBlock
    <3>2. CASE ~job.helper
      <4>1. UNCHANGED <<h2d, rest, hpc>> /\ hpc = "next" /\ stage' = "files" /\ stage = "start"
        BY <2>2, <3>2 DEF HostStart
      <4>2. UNCHANGED CallComes
        BY <4>1, <1>a DEF CallComes
      <4> QED
        BY <2>1, <4>1, <4>2, <1>a DEF MailInd
    <3> QED
      BY <3>1, <3>2
  <2>3. CASE HostHelperLoaded
    <3>1. CASE UNCHANGED <<h2d, stage>>
      BY <1>0, <2>3, <3>1 DEF HostHelperLoaded
    <3>2. CASE stage' = "files" /\ hpc' = "next"
      <4>1. mailbox = 0 /\ job.helper
        BY <2>3 DEF HostHelperLoaded, MailInd
      <4> QED
        BY <1>a, <2>1, <3>2, <4>1 DEF MailInd
    <3> QED
      BY <2>3, <3>1, <3>2 DEF HostHelperLoaded
  <2>4. CASE HostFile
    <3>1. CASE LoadBinary
      BY <2>b, <2>4, <3>1 DEF HostFile
    <3>2. CASE stage' = "elf" /\ UNCHANGED <<h2d, hpc, rest>>
      BY <1>0, <2>4, <3>2 DEF HostFile
    <3> QED
      BY <2>4, <3>1, <3>2 DEF HostFile
  <2>5. CASE HostSegment
    <3>1. fno <= Len(job.files) /\ sno <= Len(File.segs) /\ Download(Segment.addr, Segment.data, "elf")
      BY <2>5 DEF HostSegment, HostInd
    <3>2. /\ Segment.addr \in Long /\ Segment.data \in Seq(Byte) /\ Len(Segment.data) \in Long
      BY <1>a, <3>1, BlockSizes
    <3>3. job.helper => Missing(Segment.addr, Len(Segment.data))
      BY <1>a, <3>1, ClearBlocks
    <3> QED
      BY <1>a, <2>1, <3>1, <3>2, <3>3, MailBlock
  <2>6. CASE HostElfDone
    <3>1. CASE LoadBinary
      BY <2>b, <2>6, <3>1 DEF HostElfDone, HostInd
    <3>2. CASE stage' = "files" /\ UNCHANGED <<h2d, hpc, rest>>
      BY <1>0, <2>6, <3>2 DEF HostElfDone
    <3> QED
      BY <2>6, <3>1, <3>2 DEF HostElfDone
  <2>7. CASE HostBinaryDone
    BY <1>0, <2>7 DEF HostBinaryDone
  <2>8. CASE HostTail
    <3>1. CASE Download(HimemBit, Stub(RoundUp(top)), "stub")
      <4>1. RoundUp(top) \in Nat
        BY <1>a DEF RoundUp, LongBytes, HostTypeOK
      <4>2. Stub(RoundUp(top)) \in Seq(Byte) /\ Len(Stub(RoundUp(top))) = HostChunk
        BY <4>1, StubIsBytes, JobAssumption DEF Stub
      <4>3. HostChunk \in Long /\ HimemBit \in Long
        BY SharedAssumption, LoaderAssumption, HubAssumption DEF Long, HimemBit
      <4>4. Missing(HimemBit, Len(Stub(RoundUp(top))))
        BY DEF Missing, HimemBit
      <4> QED
        BY <1>a, <2>1, <3>1, <4>2, <4>3, <4>4, MailBlock
    <3>2. CASE Download(HostHelper, job.argv, "argv")
      <4>1. HostHelper \in Long
        BY HelperFits
      <4>2. job.argv \in Seq(Byte) /\ Len(job.argv) \in Long
        BY <1>a, SizeAssumption, FitsLong DEF JobType
      <4>3. job.helper => Missing(HostHelper, Len(job.argv))
        BY <1>a, ClearBlocks
      <4> QED
        BY <1>a, <2>1, <3>2, <4>1, <4>2, <4>3, MailBlock
    <3>3. CASE h2d' = Append(h2d, ReqDone) /\ hpc' = "ok" /\ UNCHANGED stage
      <4>1. h2d' = h2d \o <<ReqDone>> /\ <<ReqDone>> \in Seq(Byte) /\ <<ReqDone>> # <<>>
            /\ Head(<<ReqDone>>) # ReqCall
        BY <3>3, <1>a DEF ReqDone, ReqCall, Byte
      <4> QED
        BY <2>c, <3>3, <4>1
    <3> QED
      BY <2>8, <3>1, <3>2, <3>3 DEF HostTail
  <2>9. CASE HostFinish
    <3>1. CASE stage = "stub"
      <4> DEFINE raw == tx_raw_long(top)
      <4>1. raw \in Seq(Byte)
        BY <1>a, LongIsBytes DEF HostTypeOK
      <4>2. h2d' = h2d \o (<<ReqFlash>> \o raw) /\ hpc' = "ok" /\ UNCHANGED stage
        BY <2>9, <3>1 DEF HostFinish
      <4> HIDE DEF raw
      <4>3. ReqFlash \in Byte /\ ReqFlash # ReqCall
        BY DEF ReqFlash, ReqCall, Byte
      <4>4. PICK last : last = <<ReqFlash>> \o raw
        OBVIOUS
      <4>5. last \in Seq(Byte) /\ last # <<>> /\ Head(last) # ReqCall
        BY <4>1, <4>3, <4>4, Prepend
      <4> QED
        BY <2>c, <4>2, <4>4, <4>5
    <3>2. CASE stage # "stub"
      <4>1. h2d' = h2d \o <<ReqDone>> /\ <<ReqDone>> \in Seq(Byte) /\ <<ReqDone>> # <<>>
            /\ Head(<<ReqDone>>) # ReqCall /\ hpc' = "ok" /\ UNCHANGED stage
        BY <2>9, <3>2 DEF HostFinish, ReqDone, ReqCall, Byte
      <4> QED
        BY <2>c, <4>1
    <3> QED
      BY <3>1, <3>2
  <2> QED
    BY <1>3, <2>2, <2>3, <2>4, <2>5, <2>6, <2>7, <2>8, <2>9
       DEF HostStep, HostMode, HostSend, HostNextChunk, HostVerify
<1> QED
  BY <1>1, <1>2, <1>3 DEF HostStep, HostStart, HostHelperLoaded, HostFile, HostSegment,
       HostElfDone, HostBinaryDone, HostTail, HostFinish

(* What is before the tail is one byte. *)
LEMMA TailLen ==
  ASSUME NEW s \in Seq(Byte), s # <<>>, NEW t, t = Tail(s), NEW n \in Nat, Len(t) = n
  PROVE  Len(s) = n + 1
<1>1. Len(s) \in Nat \ {0} /\ Len(t) = Len(s) - 1
  OBVIOUS
<1> QED
  BY <1>1

(* Taking a request leaves the address of the header behind it.            *)
LEMMA RequestKeeps ==
  ASSUME TypeOK, InStep, NextRequest, hpc = "mode"
  PROVE  SentAddr(h2d') = SentAddr(h2d)
<1>1. dpc = "request" /\ h2d # <<>> /\ h2d' = Tail(h2d)
  BY DEF NextRequest
<1>2. h2d \in Seq(Byte) /\ Tail(h2d) \in Seq(Byte)
  BY <1>1 DEF TypeOK, LinkTypeOK
<1>3. Asking
  BY <1>1 DEF InStep, Between, Heading, Declined, Streaming, Chunking, Posting, Summed
<1>4. CASE IsRequest(h2d)
  <2>1. Len(Tail(h2d)) = 4
    BY <1>4 DEF IsRequest, IsHeader, LongBytes
  <2>2. 4 \in Nat
    OBVIOUS
  <2>3. Len(h2d) = 4 + 1
    BY <1>1, <1>2, <2>1, <2>2, TailLen, Zenon
  <2>4. Len(h2d) >= 5
    BY <2>3
  <2> QED
    BY <1>1, <1>2, <2>4, AddrKept
<1>5. CASE IsRequest(Tail(h2d))
  <2>1. Len(Tail(Tail(h2d))) = 4 /\ Tail(h2d) # <<>>
    BY <1>5 DEF IsRequest, IsHeader, LongBytes
  <2>2. PICK t \in Seq(Byte) : t = Tail(h2d)
    BY <1>2
  <2>3. Len(t) = 5
    BY <2>1, <2>2
  <2>4. 5 \in Nat
    OBVIOUS
  <2>5. Len(h2d) = 5 + 1
    BY <1>1, <1>2, <2>2, <2>3, <2>4, TailLen, Zenon
  <2>6. Len(h2d) >= 5
    BY <2>5
  <2> QED
    BY <1>1, <1>2, <2>6, AddrKept
<1> QED
  BY <1>3, <1>4, <1>5 DEF Asking

(* The loader's steps.                                                     *)
LEMMA DevMail ==
  ASSUME TypeOK, HostInd, InStep, InStep', MailInd, DevStep, UNCHANGED hostVars
  PROVE  MailInd'
<1>a. /\ UNCHANGED <<hpc, stage, rest, num, mode, ret, job>>
      /\ h2d \in Seq(Byte) /\ d2h \in Seq(Byte) /\ rest \in Seq(Byte) /\ ptrb \in Nat
      /\ filesize \in Nat /\ filesize < 65536
  BY DEF hostVars, TypeOK, HostTypeOK, LinkTypeOK, DevTypeOK, Long
<1>1. CASE NextRequest
  <2>1. /\ dpc = "request" /\ h2d # <<>> /\ h2d' = Tail(h2d) /\ d2h' = d2h
        /\ Head(h2d) = ReqCall \/ UNCHANGED mailbox
        /\ Head(h2d) # ReqCall => dpc' # "request"
        /\ dpc' # "stream"
    BY <1>1 DEF NextRequest, ReqLoad, ReqFlash, ReqDone, ReqCall
  <2>2. ~CallComes'
    <3>1. CASE Head(h2d) # ReqCall
      BY <2>1, <3>1 DEF CallComes
    <3>2. CASE Between
      <4>1. h2d' = <<>>
        BY <2>1, <3>2, <1>a DEF Between, Ahead
      <4> QED
        BY <4>1 DEF CallComes
    <3>3. CASE Asking /\ Head(h2d) = ReqCall
      <4>1. IsRequest(Tail(h2d)) /\ hpc \in {"mode", "ok"}
        BY <3>3 DEF Asking, IsRequest, IsLast, ReqCall, ReqLoad, ReqDone, ReqFlash
      <4>2. Head(Tail(h2d)) # ReqCall
        BY <4>1 DEF IsRequest, IsLast, ReqCall, ReqLoad, ReqDone, ReqFlash
      <4> QED
        BY <2>1, <4>2 DEF CallComes
    <3> QED
      BY <2>1, <3>1, <3>2, <3>3
         DEF InStep, Heading, Declined, Streaming, Chunking, Posting, Summed
  <2>3. hpc = "mode" => SentAddr(h2d') = SentAddr(h2d)
    BY <1>1, RequestKeeps
  <2>4. stage \notin {"start", "helper"} \/ UNCHANGED mailbox
    BY <2>1 DEF MailInd, CallComes
  <2>5. Head(h2d) = ReqCall => job.helper
    BY <2>1 DEF MailInd, CallComes
  <2>6. hpc' = "mode" /\ stage' # "helper" /\ job'.helper => Missing(SentAddr(h2d'), Len(rest'))
    BY <2>1, <2>3, <1>a DEF MailInd
  <2>7. Missing(SentAddr(h2d), Len(rest))' <=> Missing(SentAddr(h2d'), Len(rest'))
    BY DEF Missing, Clear, SentAddr
  <2> QED
    BY <1>a, <2>1, <2>2, <2>4, <2>5, <2>6, <2>7 DEF MailInd
<1>2. CASE ReadHeader
  <2> DEFINE addr == ser_rx_long(h2d[1], h2d[2])
  <2>1. /\ dpc = "header" /\ Len(h2d) >= 4 /\ h2d' = SubSeq(h2d, 5, Len(h2d))
        /\ filesize' = ser_rx_long(h2d[3], h2d[4])
        /\ UNCHANGED mailbox
        /\ dpc' = "stream" => addr < HimemBit /\ ptrb' = addr
        /\ dpc' \in {"stream", "chunk", "header"}
    BY <1>2 DEF ReadHeader, LongBytes
  <2>2. hpc = "mode" /\ d2h = <<>> /\ num = chunk(Len(rest)) /\ IsHeader(h2d)
    BY <2>1
       DEF InStep, Between, Asking, Heading, Declined, Streaming, Chunking, Posting, Summed
  <2>3. h2d' = <<>> /\ filesize' = Len(rest) /\ Len(h2d) = 4
    BY <2>1, <2>2, <1>a, SubSeqProperties DEF IsHeader, LongBytes
  <2>4. ASSUME dpc' = "stream", stage # "helper", job.helper PROVE Clear(ptrb, filesize)'
    <3>1. SentAddr(h2d) = addr
      <4>1. Len(h2d) - 3 = 1 /\ Len(h2d) - 2 = 2
        BY <2>3
      <4> QED
        BY <4>1 DEF SentAddr
    <3>2. Missing(addr, Len(rest))
      BY <2>1, <2>2, <2>4, <3>1 DEF MailInd
    <3>3. Len(rest) # 0
      BY <2>2, <1>a DEF HostInd
    <3>4. Clear(addr, Len(rest))
      BY <2>1, <2>4, <3>2, <3>3 DEF Missing
    <3> QED
      BY <2>1, <2>3, <2>4, <3>4 DEF Clear
  <2> QED
    BY <1>a, <2>1, <2>3, <2>4 DEF MailInd, CallComes
<1>3. CASE StreamByte
  <2>1. /\ dpc = "stream" /\ h2d # <<>> /\ h2d' = Tail(h2d) /\ filesize' = djnz(filesize)
        /\ ptrb' = ptrb + 1 /\ UNCHANGED mailbox /\ dpc' \in {"request", "stream"}
    BY <1>3 DEF StreamByte
  <2>2. /\ hpc \in {"data", "verify"} /\ Len(h2d) + Len(rest) <= filesize
    BY <2>1
       DEF InStep, Between, Asking, Heading, Declined, Streaming, Chunking, Posting, Summed
  <2>3. filesize' = filesize - 1 /\ filesize \in Nat
    <3>1. Len(h2d) >= 1 /\ Len(rest) \in Nat
      BY <2>1, <1>a
    <3> QED
      BY <2>1, <2>2, <3>1, <1>a DEF djnz, HimemBit
  <2>4. ~CallComes'
    BY <2>2, <1>a DEF CallComes, InStep, Between, Asking, IsRequest, Heading, Declined, Streaming,
         Chunking, Posting, Summed
  <2>5. Clear(ptrb, filesize) => Clear(ptrb, filesize)'
    BY <2>1, <2>3, <1>a, HubAssumption DEF Clear
  <2> QED
    BY <1>a, <2>1, <2>2, <2>4, <2>5 DEF MailInd
<1>4. CASE ChunkByte
  <2>1. /\ dpc = "chunk" /\ h2d # <<>> /\ UNCHANGED mailbox /\ dpc' \in {"post", "chunk"}
    BY <1>4 DEF ChunkByte
  <2>2. hpc # "mode"
    BY <2>1
       DEF InStep, Between, Asking, Heading, Declined, Streaming, Chunking, NewChunk, Posting, Summed
  <2> QED
    BY <1>a, <2>1, <2>2 DEF MailInd, CallComes
<1>5. CASE PostChunk \/ ChunksDone \/ HimemError
  <2>1. /\ UNCHANGED <<h2d, mailbox>> /\ dpc \in {"post", "drain", "postF", "exec"}
        /\ dpc' \in {"chunk", "drain", "request", "header"}
    BY <1>5 DEF PostChunk, ChunksDone, HimemError, memVars
  <2>2. h2d = <<>>
    BY <2>1
       DEF InStep, Between, Asking, Heading, Declined, Streaming, Chunking, Posting, Summed
  <2> QED
    BY <1>a, <2>1, <2>2 DEF MailInd, CallComes
<1>6. CASE ReadFlashLength
  <2>1. dpc = "flashlen" /\ dpc' = "postF" /\ UNCHANGED mailbox
    BY <1>6 DEF ReadFlashLength
  <2>2. hpc = "ok"
    BY <2>1
       DEF InStep, Between, Asking, Heading, Declined, Streaming, Chunking, Posting, Summed
  <2> QED
    BY <1>a, <2>1, <2>2 DEF MailInd, CallComes
<1>7. CASE PostFlashCopy \/ DoneAndExec
  BY <1>7 DEF PostFlashCopy, DoneAndExec,
       InStep, Between, Asking, Heading, Declined, Streaming, Chunking, Posting, Summed
<1> QED
  BY <1>1, <1>2, <1>3, <1>4, <1>5, <1>6, <1>7 DEF DevStep

(* Every step keeps the mailbox safe.                                      *)
LEMMA MailStep ==
  ASSUME Prompt, JobsClear, TypeInd, SectionsLoad, Pace, MailOK, [Next]_vars
  PROVE  MailOK'
<1>0. TypeOK /\ HostInd
  BY DEF TypeInd
<1>1. CASE Lost \/ Lost'
  BY <1>0, <1>1, LostForGood DEF Lost, MailOK
<1>2. CASE ~Lost /\ ~Lost'
  <2>0. InStep /\ InStep' /\ MailInd
    <3>1. Pace'
      BY PaceStep
    <3> QED
      BY <1>2, <3>1 DEF Pace, Lost, MailOK
  <2>1. CASE Host
    BY <1>0, <2>0, <2>1, HostMail DEF Host, MailOK
  <2>2. CASE Device
    BY <1>0, <2>0, <2>2, DevMail DEF Device, MailOK
  <2>3. CASE Cog \/ Timeout \/ UNCHANGED vars
    <3>1. /\ UNCHANGED <<dpc, h2d, mailbox, ptrb, filesize, job, stage, rest>>
          /\ hpc' = "mode" => hpc = "mode"
      BY <2>3 DEF Cog, Timeout, HostTimeout, HostShortRead, linkVars, devVars, hostVars, vars
    <3>2. UNCHANGED CallComes /\ UNCHANGED Missing(SentAddr(h2d), Len(rest))
          /\ UNCHANGED Clear(ptrb, filesize)
      BY <3>1 DEF CallComes, Missing, Clear, SentAddr
    <3> QED
      BY <2>0, <3>1, <3>2 DEF MailInd, MailOK
  <2>4. CASE LinkFault
    <3>1. /\ UNCHANGED <<dpc, hpc, mailbox, ptrb, filesize, job, stage, rest>>
          /\ dpc \in {"stream", "chunk"} /\ h2d # <<>>
      BY <2>4 DEF LinkFault, devVars, hostVars
    <3>2. hpc # "mode"
      BY <2>0, <3>1
         DEF InStep, Between, Asking, Heading, Declined, Streaming, Chunking, NewChunk, Posting, Summed
    <3>3. ~CallComes /\ ~CallComes' /\ UNCHANGED Clear(ptrb, filesize)
      BY <3>1 DEF CallComes, Clear
    <3> QED
      BY <2>0, <3>1, <3>2, <3>3 DEF MailInd, MailOK
  <2> QED
    BY <2>1, <2>2, <2>3, <2>4 DEF Next
<1> QED
  BY <1>1, <1>2

(* No store of a download lands on the mailbox while it is in use.         *)
LEMMA MailImplies ==
  ASSUME TypeInd, Pace, MailOK
  PROVE  mailbox # 0 /\ dpc = "stream" /\ h2d # <<>> => ptrb \notin MailCells
<1> SUFFICES ASSUME mailbox # 0, dpc = "stream", h2d # <<>> PROVE ptrb \notin MailCells
  OBVIOUS
<1>1. InStep /\ MailInd
  BY DEF Pace, MailOK, Astray, Quit
<1>2. stage # "helper" /\ job.helper /\ Clear(ptrb, filesize)
  BY <1>1 DEF MailInd
<1>3. Len(h2d) + Len(rest) <= filesize
  BY <1>1
     DEF InStep, Between, Asking, Heading, Declined, Streaming, Chunking, Posting, Summed
<1>4. h2d \in Seq(Byte) /\ rest \in Seq(Byte) /\ filesize \in Nat /\ ptrb \in Nat
  BY DEF TypeInd, TypeOK, LinkTypeOK, HostTypeOK, DevTypeOK, Long
<1>5. Len(h2d) >= 1 /\ Len(rest) \in Nat
  BY <1>4
<1> QED
  BY <1>2, <1>3, <1>4, <1>5, HubAssumption DEF Clear, MailCells
-----------------------------------------------------------------------------
(* The image of the helper has an empty mailbox (himem_flash.spin2: long   *)
(* 0[4] at the label mailbox).                                             *)
IdleImage ==
  LET i == MailBase - HelperBase + 1
  IN i <= Len(HelperImage) => HelperImage[i] = 0

(* How much of the helper has gone when n bytes of it are left.            *)
Gone(n) == Len(HelperImage) - n

(* s is what follows in the helper when n bytes are left.                  *)
Flush(s, n) == \A i \in 1..Len(s) : s[i] = HelperImage[Gone(n) + i]

(* While the helper is downloaded every byte on the line and every byte    *)
(* the host still has is the helper's, at its place.                       *)
CallInd ==
  /\ job.helper /\ mailbox = 0 => mbox.word = 0
  /\ stage = "helper" /\ hpc = "mode" =>
       rest = HelperImage /\ (h2d # <<>> => SentAddr(h2d) = HelperBase)
  /\ stage = "helper" /\ hpc \in {"data", "waitk"} =>
       Len(rest) <= Len(HelperImage) /\ Flush(rest, Len(rest))
  /\ stage = "helper" /\ dpc = "stream" =>
       /\ filesize = Len(h2d) + Len(rest) /\ filesize <= Len(HelperImage)
       /\ ptrb = HelperBase + Gone(filesize)
       /\ Flush(h2d, filesize)

(* The inductive invariant of the start of the helper.                     *)
CallOK == Lost \/ CallInd

(* At first nothing has been sent.                                         *)
LEMMA CallInit == Init => CallOK
BY DEF Init, HimemInit, DevInit, HostInit, CallOK, CallInd

(* The next byte is taken.                                                 *)
LEMMA FlushTail ==
  ASSUME NEW s \in Seq(Byte), s # <<>>, NEW n \in Nat, n <= Len(HelperImage), Flush(s, n)
  PROVE  Flush(Tail(s), n - 1)
<1>1. Len(Tail(s)) = Len(s) - 1 /\ \A i \in 1..Len(s) - 1 : Tail(s)[i] = s[i + 1]
  OBVIOUS
<1>2. Len(HelperImage) \in Nat /\ Len(s) \in Nat
  BY JobAssumption
<1> DEFINE t == Tail(s)
           k == Len(s)
           total == Len(HelperImage)
<1>3. /\ k \in Nat /\ total \in Nat /\ Len(t) = k - 1
      /\ \A i \in 1..k - 1 : t[i] = s[i + 1]
      /\ \A i \in 1..k : s[i] = HelperImage[(total - n) + i]
  BY <1>1, <1>2 DEF Flush, Gone
<1> HIDE DEF t, k, total
<1>4. ASSUME NEW i \in 1..k - 1 PROVE t[i] = HelperImage[(total - (n - 1)) + i]
  <2>1. i + 1 \in 1..k /\ (total - n) + (i + 1) = (total - (n - 1)) + i
    BY <1>3
  <2> QED
    BY <1>3, <2>1
<1>5. \A i \in 1..Len(t) : t[i] = HelperImage[(total - (n - 1)) + i]
  BY <1>3, <1>4
<1> QED
  BY <1>5 DEF Flush, Gone, t, total

(* The next byte is sent.                                                  *)
LEMMA FlushAppend ==
  ASSUME NEW s \in Seq(Byte), NEW r \in Seq(Byte), r # <<>>, Len(s) + Len(r) <= Len(HelperImage),
         Flush(s, Len(s) + Len(r)), Flush(r, Len(r))
  PROVE  Flush(Append(s, Head(r)), Len(s) + Len(r))
<1> DEFINE u == Append(s, Head(r))
           k == Len(s)
           n == Len(r)
           total == Len(HelperImage)
<1>1. /\ k \in Nat /\ n \in Nat \ {0} /\ total \in Nat /\ Len(u) = k + 1
      /\ \A i \in 1..k : u[i] = s[i]
      /\ u[k + 1] = r[1]
  BY JobAssumption
<1>2. /\ \A i \in 1..k : s[i] = HelperImage[(total - (k + n)) + i]
      /\ \A i \in 1..n : r[i] = HelperImage[(total - n) + i]
  BY DEF Flush, Gone
<1> HIDE DEF u, k, n, total
<1>3. u[k + 1] = HelperImage[(total - n) + 1]
  BY <1>1, <1>2
<1>4. (total - n) + 1 = (total - (k + n)) + (k + 1)
  BY <1>1
<1>5. ASSUME NEW i \in 1..k + 1 PROVE u[i] = HelperImage[(total - (k + n)) + i]
  <2>1. CASE i \in 1..k
    BY <1>1, <1>2, <2>1
  <2>2. CASE i = k + 1
    BY <1>3, <1>4, <2>2
  <2> QED
    BY <1>1, <2>1, <2>2
<1>6. \A i \in 1..Len(u) : u[i] = HelperImage[(total - (k + n)) + i]
  BY <1>1, <1>5
<1> QED
  BY <1>6 DEF Flush, Gone, u, k, n, total

(* The host's steps.                                                       *)
LEMMA HostCall ==
  ASSUME TypeOK, HostInd, InStep, MailInd, CallInd, HostStep, UNCHANGED <<memVars, devVars>>
  PROVE  CallInd'
<1>a. /\ UNCHANGED <<dpc, mailbox, ptrb, filesize, job, mbox>>
      /\ h2d \in Seq(Byte) /\ rest \in Seq(Byte) /\ HostTypeOK
  BY DEF memVars, devVars, TypeOK, LinkTypeOK, HostTypeOK, HostStep, HostMode, HostSend, HostNextChunk,
       HostVerify, HostStart, HostHelperLoaded, HostFile, HostSegment, HostSegmentDone,
       HostElfDone, HostBinaryDone, HostTail, HostFinish
<1>b. HelperImage \in Seq(Byte) /\ Len(HelperImage) \in Nat
  BY JobAssumption
<1>1. CASE HostMode \/ HostNextChunk \/ HostVerify
  <2>1. /\ UNCHANGED <<h2d, rest, stage>>
        /\ \/ hpc' = "mode" /\ hpc = "mode"
           \/ hpc' = "data" /\ hpc \in {"mode", "waitk"}
           \/ hpc' \notin {"mode", "data", "waitk"}
    BY <1>1 DEF HostMode, HostNextChunk, HostVerify
  <2>2. Flush(HelperImage, Len(HelperImage))
    BY <1>b DEF Flush, Gone
  <2>3. /\ UNCHANGED SentAddr(h2d) /\ UNCHANGED Flush(h2d, filesize)
        /\ UNCHANGED Flush(rest, Len(rest)) /\ UNCHANGED Gone(filesize)
    BY <1>a, <2>1 DEF SentAddr, Flush, Gone
  <2>4. stage = "helper" /\ hpc' = "data" => Len(rest) <= Len(HelperImage) /\ Flush(rest, Len(rest))
    BY <1>b, <2>1, <2>2 DEF CallInd
  <2> QED
    BY <1>a, <2>1, <2>3, <2>4 DEF CallInd
<1>2. CASE HostSend
  <2>1. /\ hpc = "data" /\ h2d' = Append(h2d, Head(rest)) /\ rest' = Tail(rest) /\ UNCHANGED stage
        /\ hpc' # "mode"
    BY <1>2 DEF HostSend
  <2>2. rest # <<>>
    BY <2>1, <1>a DEF HostInd
  <2>3. /\ Len(h2d') = Len(h2d) + 1 /\ Len(rest') = Len(rest) - 1
        /\ Len(rest) \in Nat /\ Len(h2d) \in Nat
    BY <2>1, <2>2, <1>a
  <2>4. ASSUME stage = "helper" PROVE (Len(rest) <= Len(HelperImage) /\ Flush(rest, Len(rest)))'
    <3>1. Len(rest) <= Len(HelperImage) /\ Flush(rest, Len(rest))
      BY <2>1, <2>4 DEF CallInd
    <3>2. Flush(rest', Len(rest) - 1)
      BY <1>a, <2>1, <2>2, <2>3, <3>1, FlushTail
    <3>3. Flush(rest', Len(rest'))
      BY <2>3, <3>2
    <3> QED
      BY <1>b, <2>3, <3>1, <3>3 DEF Flush, Gone
  <2>5. ASSUME stage = "helper", dpc = "stream"
        PROVE  /\ filesize' = Len(h2d') + Len(rest') /\ filesize <= Len(HelperImage)
               /\ ptrb' = HelperBase + Gone(filesize') /\ Flush(h2d, filesize)'
    <3>1. /\ filesize = Len(h2d) + Len(rest) /\ filesize <= Len(HelperImage)
          /\ ptrb = HelperBase + Gone(filesize)
          /\ Flush(h2d, filesize) /\ Flush(rest, Len(rest))
      BY <2>1, <2>5 DEF CallInd
    <3>2. Flush(Append(h2d, Head(rest)), Len(h2d) + Len(rest))
      BY <1>a, <2>2, <3>1, FlushAppend
    <3>3. Flush(h2d', filesize')
      BY <1>a, <2>1, <3>1, <3>2
    <3>4. Flush(h2d, filesize)'
      BY <3>3 DEF Flush, Gone
    <3> QED
      BY <1>a, <2>3, <3>1, <3>4 DEF Gone
  <2> QED
    BY <1>a, <2>1, <2>4, <2>5 DEF CallInd
<1>3. CASE HostStart /\ job.helper
  <2>1. Download(HostHelper, HelperImage, "helper") /\ hpc = "next"
    BY <1>3 DEF HostStart
  <2>2. HostHelper \in Long /\ Len(HelperImage) \in Long
    BY HelperFits
  <2>3. dpc = "request"
    BY <2>1 DEF InStep, Between, Asking, IsRequest, IsLast, Summed, Heading, Declined,
         Streaming, Chunking, Posting
  <2>4. /\ hpc' = "mode" => rest' = HelperImage /\ SentAddr(h2d') = HostHelper
        /\ hpc' \in {"mode", "return"} /\ stage' = "helper"
    BY <1>a, <1>b, <2>1, <2>2, <2>3, DownloadMail
  <2>5. hpc' = "mode" => SentAddr(h2d)' = HelperBase
    BY <2>4, SharedAssumption DEF SentAddr
  <2> QED
    BY <1>a, <2>3, <2>4, <2>5 DEF CallInd
<1>4. CASE HostHelperLoaded
  <2>1. dpc = "request"
    BY <1>4 DEF HostHelperLoaded, InStep, Between, Asking, IsRequest, IsLast, Summed, Heading,
         Declined, Streaming, Chunking, Posting
  <2>2. stage' # "helper" \/ hpc' = "fail"
    BY <1>4 DEF HostHelperLoaded
  <2> QED
    BY <1>a, <2>1, <2>2 DEF CallInd
<1>5. CASE \/ HostStart /\ ~job.helper
           \/ HostFile \/ HostSegment \/ HostSegmentDone \/ HostElfDone
           \/ HostBinaryDone \/ HostTail \/ HostFinish
  <2>1. stage' # "helper"
    BY <1>5 DEF HostStart, HostFile, HostSegment, HostSegmentDone, HostElfDone, LoadBinary,
         HostBinaryDone, HostTail, HostFinish, Download
  <2> QED
    BY <1>a, <2>1 DEF CallInd
<1> QED
  BY <1>1, <1>2, <1>3, <1>4, <1>5 DEF HostStep

(* A byte less to come.                                                    *)
LEMMA CountDown ==
  ASSUME NEW n \in Nat, n < 65536, n >= 1, NEW m, m = djnz(n)
  PROVE  m = n - 1
BY DEF djnz, HimemBit

(* The loader's steps: the byte that lands on the mailbox is the one the   *)
(* image has there.                                                        *)
LEMMA DevCall ==
  ASSUME IdleImage, TypeOK, HostInd, PingInd, InStep, ~Lost', MailInd, CallInd, DevStep,
         UNCHANGED hostVars
  PROVE  CallInd'
<1>a. /\ UNCHANGED <<hpc, stage, rest, num, mode, ret, job>>
      /\ h2d \in Seq(Byte) /\ d2h \in Seq(Byte) /\ rest \in Seq(Byte) /\ ptrb \in Nat
      /\ filesize \in Nat /\ filesize < 65536 /\ mailbox \in {0, MailBase}
      /\ mbox \in [word : Int, flash : Nat, size : Nat]
  BY DEF hostVars, TypeOK, HostTypeOK, LinkTypeOK, DevTypeOK, MemTypeOK, Long
<1>b. HelperImage \in Seq(Byte) /\ Len(HelperImage) \in Nat
  BY JobAssumption
<1>d. dpc \in {"chunk", "post", "drain"} => mailbox # 0
  BY DEF PingInd, MailboxInd
<1>k. UNCHANGED Flush(rest, Len(rest))
  BY <1>a DEF Flush, Gone
<1>1. CASE NextRequest
  <2>1. /\ dpc = "request" /\ h2d # <<>> /\ h2d' = Tail(h2d) /\ UNCHANGED mbox
        /\ mailbox' \in {mailbox, MailBase}
        /\ dpc' # "stream"
    BY <1>1 DEF NextRequest, CallLast
  <2>2. ASSUME stage = "helper", hpc = "mode", h2d' # <<>> PROVE SentAddr(h2d)' = HelperBase
    <3>1. SentAddr(h2d) = HelperBase /\ Head(h2d) # ReqCall
      BY <2>1, <2>2 DEF CallInd, MailInd, CallComes
    <3>2. IsRequest(h2d)
      BY <2>1, <2>2, <3>1
         DEF InStep, Between, Asking, Heading, Declined, Streaming, Chunking, Posting, Summed
    <3>3. Len(Tail(h2d)) = 4 /\ 4 \in Nat
      BY <2>2, <3>2 DEF IsRequest, IsHeader, LongBytes
    <3>a. h2d \in Seq(Byte) /\ h2d # <<>> /\ h2d' = Tail(h2d)
      BY <1>a, <2>1
    <3>4. Len(h2d) = 4 + 1
      BY <3>3, <3>a, TailLen, Zenon
    <3>5. SentAddr(h2d') = SentAddr(h2d)
      <4>1. Len(h2d) >= 5
        BY <3>4
      <4> QED
        BY <3>a, <4>1, AddrKept
    <3> QED
      BY <3>1, <3>5 DEF SentAddr
  <2>3. mailbox' = 0 => mailbox = 0
    BY <2>1, HubAssumption
  <2> QED
    BY <1>a, <1>k, <2>1, <2>2, <2>3 DEF CallInd
<1>2. CASE ReadHeader
  <2> DEFINE addr == ser_rx_long(h2d[1], h2d[2])
  <2>1. /\ dpc = "header" /\ Len(h2d) >= 4 /\ h2d' = SubSeq(h2d, 5, Len(h2d))
        /\ filesize' = ser_rx_long(h2d[3], h2d[4])
        /\ UNCHANGED <<mailbox, mbox>>
        /\ dpc' = "stream" => ptrb' = addr
    BY <1>2 DEF ReadHeader, LongBytes, memVars
  <2>2. hpc = "mode" /\ IsHeader(h2d)
    BY <2>1
       DEF InStep, Between, Asking, Heading, Declined, Streaming, Chunking, Posting, Summed
  <2>3. h2d' = <<>> /\ filesize' = Len(rest) /\ Len(h2d) = 4
    BY <2>1, <2>2, <1>a, SubSeqProperties DEF IsHeader, LongBytes
  <2>4. ASSUME stage = "helper", dpc' = "stream"
        PROVE  /\ filesize' = Len(h2d') + Len(rest') /\ filesize' <= Len(HelperImage)
               /\ ptrb' = HelperBase + Gone(filesize') /\ Flush(h2d, filesize)'
    <3>1. SentAddr(h2d) = addr /\ h2d # <<>>
      <4>1. Len(h2d) - 3 = 1 /\ Len(h2d) - 2 = 2
        BY <2>3
      <4>2. h2d # <<>>
        BY <2>3
      <4> QED
        BY <4>1, <4>2 DEF SentAddr
    <3>2. rest = HelperImage /\ SentAddr(h2d) = HelperBase
      BY <2>2, <2>4, <3>1 DEF CallInd
    <3>3. ptrb' = HelperBase + Gone(filesize') /\ filesize' = Len(HelperImage)
      <4>1. HelperBase \in Nat
        BY LoaderAssumption
      <4> QED
        BY <1>b, <2>1, <2>3, <2>4, <3>1, <3>2, <4>1 DEF Gone
    <3>4. Flush(h2d, filesize)'
      BY <2>3 DEF Flush
    <3> QED
      BY <1>a, <1>b, <2>3, <3>3, <3>4
  <2>5. stage = "helper" => rest = HelperImage
    BY <2>2 DEF CallInd
  <2> QED
    BY <1>a, <1>k, <2>1, <2>2, <2>3, <2>4, <2>5 DEF CallInd
<1>3. CASE StreamByte
  <2>1. /\ dpc = "stream" /\ h2d # <<>> /\ h2d' = Tail(h2d) /\ filesize' = djnz(filesize)
        /\ ptrb' = ptrb + 1 /\ UNCHANGED mailbox /\ StoreByte(ptrb, Head(h2d))
    BY <1>3 DEF StreamByte
  <2>2. /\ hpc \in {"data", "verify"} /\ Len(h2d) + Len(rest) <= filesize
    BY <2>1
       DEF InStep, Between, Asking, Heading, Declined, Streaming, Chunking, Posting, Summed
  <2>3. Len(h2d) >= 1 /\ Len(h2d') = Len(h2d) - 1 /\ Len(rest) \in Nat /\ Len(h2d) \in Nat
    <3>1. h2d \in Seq(Byte) /\ h2d # <<>> /\ rest \in Seq(Byte)
      BY <2>1, <1>a
    <3>2. h2d' = Tail(h2d)
      BY <2>1
    <3>3. Len(h2d) >= 1 /\ Len(Tail(h2d)) = Len(h2d) - 1
      BY <3>1
    <3>4. Len(rest) \in Nat /\ Len(h2d) \in Nat
      BY <3>1
    <3> QED
      BY <3>2, <3>3, <3>4
  <2>4. filesize' = filesize - 1
    <3>1. filesize >= 1
      BY <2>2, <2>3, <1>a
    <3>2. filesize \in Nat /\ filesize < 65536
      BY <1>a
    <3> QED
      BY <2>1, <3>1, <3>2, CountDown
  <2>5. ASSUME stage = "helper"
        PROVE  /\ filesize' = Len(h2d') + Len(rest') /\ filesize' <= Len(HelperImage)
               /\ ptrb' = HelperBase + Gone(filesize') /\ Flush(h2d, filesize)'
               /\ ptrb = MailBase => Head(h2d) = 0
    <3>1. /\ filesize = Len(h2d) + Len(rest) /\ filesize <= Len(HelperImage)
          /\ ptrb = HelperBase + Gone(filesize) /\ Flush(h2d, filesize)
      BY <2>1, <2>5 DEF CallInd
    <3>2. Flush(Tail(h2d), filesize - 1)
      BY <1>a, <2>1, <3>1, FlushTail
    <3>3. Flush(h2d, filesize)'
      <4>1. Flush(h2d', filesize')
        BY <2>1, <2>4, <3>2
      <4> QED
        BY <4>1 DEF Flush, Gone
    <3>4. HelperBase \in Nat /\ MailBase \in Nat
      BY LoaderAssumption, HubAssumption
    <3>5. ASSUME ptrb = MailBase PROVE Head(h2d) = 0
      <4>1. h2d[1] = HelperImage[Gone(filesize) + 1]
        BY <2>3, <3>1 DEF Flush
      <4>2. Gone(filesize) + 1 = MailBase - HelperBase + 1
        BY <1>a, <1>b, <3>1, <3>4, <3>5 DEF Gone
      <4>3. MailBase - HelperBase + 1 <= Len(HelperImage)
        BY <1>a, <1>b, <2>3, <3>1, <3>4, <4>2 DEF Gone
      <4>4. Head(h2d) = h2d[1]
        BY <1>a, <2>1
      <4> QED
        BY <4>1, <4>2, <4>3, <4>4 DEF IdleImage
    <3> QED
      BY <1>a, <1>b, <2>1, <2>3, <2>4, <3>1, <3>3, <3>4, <3>5 DEF Gone
  <2>6. ASSUME job.helper, mailbox = 0 PROVE mbox'.word = 0
    <3>1. mbox.word = 0
      BY <2>6 DEF CallInd
    <3>2. CASE stage = "helper"
      <4>1. ptrb = MailBase => Head(h2d) = 0
        BY <2>5, <3>2
      <4> QED
        BY <1>a, <2>1, <3>1, <4>1 DEF StoreByte
    <3>3. CASE stage # "helper"
      <4>1. Clear(ptrb, filesize)
        BY <2>1, <2>6, <3>3 DEF MailInd
      <4>2. ptrb # MailBase
        BY <1>a, <2>2, <2>3, <4>1, HubAssumption DEF Clear
      <4> QED
        BY <1>a, <2>1, <3>1, <4>2 DEF StoreByte
    <3> QED
      BY <3>2, <3>3
  <2> QED
    BY <1>a, <1>k, <2>1, <2>2, <2>5, <2>6 DEF CallInd
<1>4. CASE ChunkByte
  <2>1. /\ dpc = "chunk" /\ h2d # <<>> /\ UNCHANGED mailbox /\ dpc' \in {"post", "chunk"}
    BY <1>4 DEF ChunkByte
  <2>2. hpc # "mode"
    BY <2>1
       DEF InStep, Between, Asking, Heading, Declined, Streaming, Chunking, NewChunk, Posting, Summed
  <2> QED
    BY <1>a, <1>d, <1>k, <2>1, <2>2 DEF CallInd
<1>5. CASE PostChunk \/ ChunksDone \/ HimemError
  <2>1. /\ UNCHANGED <<h2d, mailbox>> /\ dpc \in {"post", "drain", "postF", "exec"}
        /\ dpc' \in {"chunk", "drain", "request", "header"}
        /\ dpc \in {"post", "drain"} \/ UNCHANGED mbox
    BY <1>5 DEF PostChunk, ChunksDone, HimemError, memVars
  <2>2. UNCHANGED SentAddr(h2d)
    BY <2>1 DEF SentAddr
  <2> QED
    BY <1>a, <1>d, <1>k, <2>1, <2>2 DEF CallInd
<1>6. CASE ReadFlashLength
  <2>1. dpc = "flashlen" /\ dpc' = "postF" /\ UNCHANGED <<mailbox, mbox>>
    BY <1>6 DEF ReadFlashLength, memVars
  <2>2. hpc = "ok"
    BY <2>1
       DEF InStep, Between, Asking, Heading, Declined, Streaming, Chunking, Posting, Summed
  <2> QED
    BY <1>a, <2>1, <2>2 DEF CallInd
<1>7. CASE PostFlashCopy \/ DoneAndExec
  BY <1>7 DEF PostFlashCopy, DoneAndExec,
       InStep, Between, Asking, Heading, Declined, Streaming, Chunking, Posting, Summed
<1> QED
  BY <1>1, <1>2, <1>3, <1>4, <1>5, <1>6, <1>7 DEF DevStep

(* Every step, on a line without faults.                                   *)
LEMMA CallStep ==
  ASSUME Prompt, IdleImage, MaxFaults = 0, TypeInd, SectionsLoad, Pace, MailOK,
         PingInd, CallOK, [Next]_vars
  PROVE  CallOK'
<1>0. TypeOK /\ HostInd
  BY DEF TypeInd
<1>1. CASE Lost \/ Lost'
  BY <1>0, <1>1, LostForGood DEF CallOK
<1>2. CASE ~Lost /\ ~Lost'
  <2>0. InStep /\ MailInd /\ CallInd
    BY <1>2 DEF Pace, Lost, MailOK, CallOK
  <2>1. CASE Host
    BY <1>0, <2>0, <2>1, HostCall DEF Host, CallOK
  <2>2. CASE Device
    BY <1>0, <1>2, <2>0, <2>2, DevCall DEF Device, CallOK
  <2>3. CASE Cog
    <3>1. mailbox # 0
      BY <2>3 DEF Cog, CogStep, CogInit, CogAccept, Erase, WritePage, CogRespond, PingInd, HelperInd
    <3>2. UNCHANGED <<dpc, h2d, mailbox, ptrb, filesize, job, stage, rest, hpc>>
      BY <2>3 DEF Cog, linkVars, devVars, hostVars
    <3>3. /\ UNCHANGED SentAddr(h2d) /\ UNCHANGED Flush(h2d, filesize)
          /\ UNCHANGED Flush(rest, Len(rest)) /\ UNCHANGED Gone(filesize)
      BY <3>2 DEF SentAddr, Flush, Gone
    <3> QED
      BY <2>0, <3>1, <3>2, <3>3 DEF CallInd, CallOK
  <2>4. CASE Timeout \/ UNCHANGED vars
    <3>1. /\ UNCHANGED <<dpc, h2d, mailbox, mbox, ptrb, filesize, job, stage, rest>>
          /\ UNCHANGED hpc \/ hpc' \notin {"mode", "data", "waitk"}
      BY <2>4 DEF Timeout, HostTimeout, HostShortRead, linkVars, devVars, memVars, hostVars, vars
    <3>2. /\ UNCHANGED SentAddr(h2d) /\ UNCHANGED Flush(h2d, filesize)
          /\ UNCHANGED Flush(rest, Len(rest)) /\ UNCHANGED Gone(filesize)
      BY <3>1 DEF SentAddr, Flush, Gone
    <3> QED
      BY <2>0, <3>1, <3>2 DEF CallInd, CallOK
  <2>5. CASE LinkFault
    BY <1>0, <2>5 DEF LinkFault, TypeOK
  <2> QED
    BY <2>1, <2>2, <2>3, <2>4, <2>5 DEF Next
<1> QED
  BY <1>1, <1>2

(* When '!' is read the mailbox is empty.                                  *)
LEMMA CallImplies ==
  ASSUME TypeInd, MailOK, CallOK, Pace
  PROVE  CallsIdle
<1>1. CASE Lost
  BY <1>1 DEF Lost, Astray, Quit, CallsIdle, CallComes
<1>2. CASE ~Lost
  BY <1>2 DEF Lost, MailOK, CallOK, MailInd, CallInd, CallsIdle
<1> QED
  BY <1>1, <1>2

(* The mailbox is never overwritten while the helper uses it, and the      *)
(* loader never fills a buffer the helper is reading, for command lines    *)
(* that keep clear of the mailbox, whatever the line does to them. That    *)
(* '!' finds the mailbox empty is a hypothesis: over a line with faults    *)
(* it rests on the checksum (verify_chksum).                               *)
THEOREM MailboxSafe ==
  Prompt /\ JobsClear => (Spec /\ []SectionsLoad /\ []CallsIdle => []MailboxIntact /\ []PingPongSafe)
<1> SUFFICES ASSUME Prompt, JobsClear
             PROVE  Spec /\ []SectionsLoad /\ []CallsIdle => []MailboxIntact /\ []PingPongSafe
  OBVIOUS
<1> DEFINE Inv == TypeInd /\ Pace /\ MailOK
<1>1. Init => Inv
  BY TypeInit, PaceInit, MailInit
<1>2. Inv /\ SectionsLoad /\ [Next]_vars => Inv'
  BY TypeStep, PaceStep, MailStep
<1>3. Inv /\ CallsIdle => MailboxIntact
  BY MailImplies DEF CallsIdle, CallComes, MailboxIntact
<1>4. Init => PingInd
  BY PingInit
<1>5. Inv /\ CallsIdle /\ PingInd /\ [Next]_vars => PingInd'
  BY <1>3, PingStep
<1>6. Inv /\ PingInd => PingPongSafe
  BY PingImplies
<1> QED
  BY <1>1, <1>2, <1>3, <1>4, <1>5, <1>6, PTL DEF Spec

(* Over a line without faults '!' finds an empty mailbox: the helper       *)
(* arrives as it is in its image (downloadData, MainLoader call_last).     *)
LEMMA CleanCalls ==
  Prompt /\ JobsClear /\ IdleImage /\ MaxFaults = 0
    => (Spec /\ []SectionsLoad => []CallsIdle)
<1> SUFFICES ASSUME Prompt, JobsClear, IdleImage, MaxFaults = 0
             PROVE  Spec /\ []SectionsLoad => []CallsIdle
  OBVIOUS
<1> DEFINE Inv == TypeInd /\ Pace /\ MailOK /\ PingInd /\ CallOK
<1>1. Init => Inv
  BY TypeInit, PaceInit, MailInit, PingInit, CallInit
<1>2. Inv => MailboxIntact /\ CallsIdle
  BY MailImplies, CallImplies DEF CallsIdle, CallComes, MailboxIntact
<1>3. Inv /\ SectionsLoad /\ [Next]_vars => Inv'
  BY <1>2, TypeStep, PaceStep, MailStep, PingStep, CallStep
<1> QED
  BY <1>1, <1>2, <1>3, PTL DEF Spec

(* So over such a line nothing has to be assumed of '!', and MailboxIntact *)
(* and PingPongSafe hold.                                                  *)
THEOREM CleanLoad ==
  Prompt /\ JobsClear /\ IdleImage /\ MaxFaults = 0
    => (Spec /\ []SectionsLoad => []MailboxIntact /\ []PingPongSafe)
<1> SUFFICES ASSUME Prompt, JobsClear, IdleImage, MaxFaults = 0
             PROVE  Spec /\ []SectionsLoad => []MailboxIntact /\ []PingPongSafe
  OBVIOUS
<1>1. Spec /\ []SectionsLoad => []CallsIdle
  BY CleanCalls
<1>2. Spec /\ []SectionsLoad /\ []CallsIdle => []MailboxIntact /\ []PingPongSafe
  BY MailboxSafe
<1> QED
  BY <1>1, <1>2, PTL

(* Command lines without ELF files.                                        *)
RawJobs == \A j \in Jobs : \A i \in DOMAIN j.files : j.files[i].kind # "elf"

(* Without ELF files loadElfSections is never reached.                     *)
LEMMA RawStep ==
  ASSUME RawJobs, TypeInd, stage # "elf", [Next]_vars
  PROVE  stage' # "elf"
<1>1. CASE HostStep
  <2>1. CASE HostFile
    <3>1. job \in Jobs /\ job \in JobType /\ fno \in Nat \ {0} /\ fno <= Len(job.files)
      BY <2>1, JobFacts DEF HostFile, TypeInd, TypeOK, HostTypeOK
    <3>2. fno \in DOMAIN job.files
      BY <3>1 DEF JobType
    <3>3. File.kind # "elf"
      BY <3>1, <3>2 DEF RawJobs, File
    <3> QED
      BY <2>1, <3>3 DEF HostFile, LoadBinary, Download
  <2> QED
    BY <1>1, <2>1 DEF HostStep, HostMode, HostSend, HostNextChunk, HostVerify,
         HostStart, HostHelperLoaded, HostSegment, HostSegmentDone, HostElfDone,
         HostBinaryDone, HostTail, HostFinish, Download
<1>2. CASE Device \/ Cog \/ Timeout \/ LinkFault \/ UNCHANGED vars
  BY <1>2 DEF Device, Cog, Timeout, HostTimeout, HostShortRead, LinkFault, hostVars, vars
<1> QED
  BY <1>1, <1>2 DEF Next, Host

(* So no section of one fails.                                             *)
LEMMA RawLoads == RawJobs => (Spec => []SectionsLoad)
<1> SUFFICES ASSUME RawJobs PROVE Spec => []SectionsLoad
  OBVIOUS
<1> DEFINE Inv == TypeInd /\ stage # "elf"
<1>1. Init => Inv
  BY TypeInit DEF Init, HostInit
<1>2. Inv /\ [Next]_vars => Inv'
  BY TypeStep, RawStep
<1>3. Inv => SectionsLoad
  BY DEF SectionsLoad
<1> QED
  BY <1>1, <1>2, <1>3, PTL DEF Spec

(* And nothing has to be assumed of sections.                              *)
COROLLARY RawPaced == Prompt /\ RawJobs => (Spec => []NoOverrun)
<1> SUFFICES ASSUME Prompt, RawJobs PROVE Spec => []NoOverrun
  OBVIOUS
<1>1. Spec => []SectionsLoad
  BY RawLoads
<1>2. Spec /\ []SectionsLoad => []NoOverrun
  BY PacedCorrect
<1> QED
  BY <1>1, <1>2, PTL

-----------------------------------------------------------------------------
(* Erased first.  The helper erases a sector only when a page begins it,   *)
(* so programming may go on inside a sector only where the rest of it has  *)
(* been erased on the way there.                                           *)

(* A file for flash begins on a sector (or where the helper refuses it).   *)
(* Neither loadfile nor the loader checks this.                            *)
OnSector(a) == a >= HimemBit => a % SectorSize = 0 \/ a % PageSize # 0
JobsOnSectors == \A j \in Jobs : \A i \in DOMAIN j.files :
  /\ OnSector(j.files[i].addr)
  /\ \A k \in DOMAIN j.files[i].segs : OnSector(j.files[i].segs[k].addr)

(* The cells from f to the end of its sector.                              *)
RestOfSector(f) == f..(f - (f % SectorSize)) + SectorSize - 1

(* Programming may go on at address a of a flash that holds mem: either a  *)
(* begins a sector, which will be erased, or the rest of its sector is.    *)
ErasedFrom(mem, f) == \A c \in RestOfSector(f) : mem[c] = Erased
Ready(mem, a) ==
  LET f == a % FlashSize
  IN f % SectorSize # 0 => ErasedFrom(mem, f)

(* The helper goes on where that is so: at a request it has not taken yet, *)
(* at the next page, and behind a request it has finished.                 *)
ReadyInd ==
  /\ cog \in {"init", "poll"} /\ mbox.word < 0 /\ mbox.word # -1 /\ mbox.flash % PageSize = 0 =>
       Ready(flash, mbox.flash)
  /\ cog = "page" => Ready(flash, params.ouraddr)
  /\ cog = "erased" =>
       /\ params.ouraddr % SectorSize = 0
       /\ ErasedFrom(flash, params.ouraddr)
  /\ cog \in {"page", "erased"} =>
       /\ params.ouraddr \in FlashAddr /\ params.ouraddr % PageSize = 0
       /\ (params.ouraddr + params.size) % FlashSize = (mbox.flash + mbox.size) % FlashSize
  /\ cog = "done" /\ (mbox.flash + mbox.size) % PageSize = 0 => Ready(flash, mbox.flash + mbox.size)

(* The next chunk of a file goes where the last one ended, and the image   *)
(* of a flash download goes behind the stub.                               *)
NextInd ==
  /\ dpc \in {"chunk", "post", "drain"} =>
       /\ mbox.word < 0 => loadaddr = mbox.flash + mbox.size
       /\ mbox.word = 0 /\ loadaddr % PageSize = 0 => Ready(flash, loadaddr)
  /\ dpc \in {"flashlen", "postF"} => Ready(flash, FlashImage)

(* No 'F' is on the line.                                                  *)
NoFlash(s) == \A i \in 1..Len(s) : s[i] # ReqFlash

(* What the host asks for: blocks that begin on sectors, and the copy only *)
(* behind the stub.                                                        *)
StubInd ==
  /\ hpc = "mode" /\ dpc \in {"request", "header"} /\ h2d # <<>> =>
       /\ OnSector(SentAddr(h2d))
       /\ stage = "stub" => SentAddr(h2d) = HimemBit /\ Len(rest) = ChunkSize
  /\ stage = "stub" =>
       /\ dpc # "stream"
       /\ dpc \in {"chunk", "post"} => loadaddr = HimemBit /\ filesize = ChunkSize
       /\ dpc = "drain" => loadaddr = FlashImage
       /\ dpc = "request" /\ hpc \in {"verify", "return", "ok"} => Ready(flash, FlashImage)
  /\ hpc = "ok" /\ stage # "stub" => NoFlash(h2d)

(* Division with remainder, and that the remainder is the only one.        *)
LEMMA Quotient ==
  ASSUME NEW a \in Nat, NEW b \in Nat \ {0}
  PROVE  /\ a % b \in 0..b - 1
         /\ \E q \in Nat : a = b * q + (a % b)
<1>1. a % b \in 0..b - 1 /\ a = b * (a \div b) + (a % b) /\ a \div b \in Int
  OBVIOUS
<1>2. a \div b \in Nat
  OBVIOUS
<1> QED
  BY <1>1, <1>2

(* Any way to write a number as a multiple and less than the divisor is    *)
(* the division.                                                           *)
LEMMA Remainder ==
  ASSUME NEW b \in Nat \ {0}, NEW q \in Nat, NEW r \in 0..b - 1
  PROVE  b * q + r \in Nat /\ (b * q + r) % b = r
<1>1. b * q \in Nat
  OBVIOUS
<1> DEFINE a == b * q + r
<1>2. a \in Nat
  BY <1>1
<1>3. PICK p \in Nat : a = b * p + (a % b)
  BY <1>2, Quotient
<1>4. a % b \in 0..b - 1
  BY <1>2, Quotient
<1>5. b * (q - p) = (a % b) - r
  BY <1>3, <1>4
<1>6. q - p = 0
  <2>1. CASE q - p >= 1
    <3>1. b * (q - p) >= b
      BY <2>1
    <3> QED
      BY <1>4, <1>5, <3>1
  <2>2. CASE q - p <= -1
    <3>1. b * (p - q) >= b
      BY <2>2
    <3>2. b * (p - q) = 0 - (b * (q - p))
      OBVIOUS
    <3> QED
      BY <1>4, <1>5, <3>1, <3>2
  <2> QED
    BY <2>1, <2>2
<1> QED
  BY <1>2, <1>3, <1>4, <1>6

(* Multiples, and the way from one to the next.                            *)
LEMMA Multiple ==
  ASSUME NEW x \in Nat, NEW b \in Nat \ {0}, x % b = 0
  PROVE  \E i \in Nat : x = b * i
<1>1. PICK i \in Nat : x = b * i + (x % b)
  BY Quotient
<1>2. b * i \in Nat
  OBVIOUS
<1> QED
  BY <1>1, <1>2

(* Between two multiples lies at least the divisor.                        *)
LEMMA StepUp ==
  ASSUME NEW x \in Nat, NEW y \in Nat, NEW b \in Nat \ {0}, x % b = 0, y % b = 0, x < y
  PROVE  x + b <= y
<1>1. PICK i \in Nat : x = b * i
  BY Multiple
<1>2. PICK j \in Nat : y = b * j
  BY Multiple
<1>3. i < j
  <2>1. CASE i >= j
    <3>1. b * (i - j) >= 0
      BY <2>1
    <3> QED
      BY <1>1, <1>2, <3>1
  <2> QED
    BY <2>1
<1>4. b * (j - i) >= b
  BY <1>3
<1> QED
  BY <1>1, <1>2, <1>4

(* Remainders by a divisor of the modulus.                                 *)
LEMMA ModMod ==
  ASSUME NEW a \in Nat, NEW b \in Nat \ {0}, NEW c \in Nat \ {0}, c % b = 0
  PROVE  (a % c) % b = a % b
<1>1. PICK q \in Nat : a = c * q + (a % c)
  BY Quotient
<1>2. PICK k \in Nat : c = b * k
  BY Multiple
<1>3. PICK r \in Nat : r = a % c
  BY Quotient
<1>4. PICK j \in Nat : r = b * j + (r % b)
  BY Quotient
<1>5. PICK s \in 0..b - 1 : s = r % b
  BY Quotient
<1>6. a = (b * k) * q + (b * j + s)
  BY <1>1, <1>2, <1>3, <1>4, <1>5
<1>7. (b * k) * q + (b * j + s) = b * (k * q + j) + s /\ k * q + j \in Nat
  OBVIOUS
<1>8. a % b = s
  BY <1>6, <1>7, Remainder
<1> QED
  BY <1>3, <1>5, <1>8

(* A remainder is enough to know the remainder of a sum.                   *)
LEMMA AddMod ==
  ASSUME NEW a \in Nat, NEW n \in Nat, NEW b \in Nat \ {0}
  PROVE  ((a % b) + n) % b = (a + n) % b
<1>1. PICK q \in Nat : a = b * q + (a % b)
  BY Quotient
<1>2. PICK r \in Nat : r = a % b
  BY Quotient
<1>3. PICK m \in Nat : m = r + n
  OBVIOUS
<1>4. PICK j \in Nat : m = b * j + (m % b)
  BY Quotient
<1>5. PICK s \in 0..b - 1 : s = m % b
  BY Quotient
<1>6. a + n = b * q + (b * j + s)
  BY <1>1, <1>2, <1>3, <1>4, <1>5
<1>7. PICK p \in Nat : p = q + j
  OBVIOUS
<1>8. b * q + (b * j + s) = b * p + s
  BY <1>7
<1>9. (b * p + s) % b = s
  BY Remainder
<1>10. (a + n) % b = s
  BY <1>6, <1>8, <1>9
<1> QED
  BY <1>2, <1>3, <1>5, <1>10

(* The sizes of the flash, and where the image is put.                     *)
LEMMA FlashFacts ==
  /\ PageSize \in Nat \ {0} /\ SectorSize \in Nat \ {0} /\ FlashSize \in Nat \ {0}
  /\ SectorSize % PageSize = 0 /\ FlashSize % SectorSize = 0 /\ FlashSize % PageSize = 0
  /\ HimemBit \in Nat /\ HimemBit % SectorSize = 0 /\ HimemBit % PageSize = 0
  /\ ChunkSize \in Nat \ {0} /\ FlashImage \in Nat /\ FlashImage = HimemBit + ChunkSize
  /\ FlashImage % PageSize = 0
<1>1. /\ PageSize \in Nat \ {0} /\ SectorSize \in Nat \ {0} /\ FlashSize \in Nat \ {0}
      /\ SectorSize % PageSize = 0 /\ FlashSize % SectorSize = 0 /\ HimemBit % FlashSize = 0
      /\ ChunkSize \in Nat \ {0} /\ ChunkSize % PageSize = 0
  BY FlashAssumption, LoaderAssumption
<1>2. FlashSize % PageSize = (FlashSize % SectorSize) % PageSize
  BY <1>1, ModMod
<1>3. HimemBit \in Nat
  BY DEF HimemBit
<1>4. /\ (HimemBit % FlashSize) % SectorSize = HimemBit % SectorSize
      /\ (HimemBit % SectorSize) % PageSize = HimemBit % PageSize
  BY <1>1, <1>3, ModMod
<1>5. 0 % SectorSize = 0 /\ 0 % PageSize = 0
  BY <1>1
<1>6. ((HimemBit % PageSize) + ChunkSize) % PageSize = (HimemBit + ChunkSize) % PageSize
  BY <1>1, <1>3, AddMod
<1> QED
  BY <1>1, <1>2, <1>3, <1>4, <1>5, <1>6 DEF FlashImage

(* f lies in the sector of s bytes that begins at base, and the page of p  *)
(* bytes at f does.                                                        *)
Sector(p, s, n, f, base) ==
  /\ base <= f /\ base + s <= n /\ f + p <= base + s
  /\ f - (f % s) = base
  /\ f + p = base + s => (f + p) % s = 0
  /\ f + p < base + s => (f + p) - ((f + p) % s) = base

(* Every page lies in a sector.                                            *)
LEMMA InSector ==
  ASSUME NEW p \in Nat \ {0}, NEW s \in Nat \ {0}, NEW n \in Nat \ {0}, s % p = 0, n % s = 0,
         NEW f \in Nat, f < n, f % p = 0
  PROVE  \E base \in Nat : Sector(p, s, n, f, base)
<1>1. PICK q \in Nat : f = s * q + (f % s)
  BY Quotient
<1>2. PICK r \in 0..s - 1 : r = f % s
  BY Quotient
<1>3. PICK base \in Nat : base = s * q
  OBVIOUS
<1>4. f = base + r
  BY <1>1, <1>2, <1>3
<1>5. base % s = 0 /\ (base + s) % s = 0
  <2>1. (s * q + 0) % s = 0
    BY Remainder
  <2>2. PICK k \in Nat : k = q + 1
    OBVIOUS
  <2>3. (s * k + 0) % s = 0
    BY Remainder
  <2>4. s * k + 0 = base + s /\ s * q + 0 = base
    BY <1>3, <2>2
  <2> QED
    BY <2>1, <2>3, <2>4
<1>6. base + s <= n
  <2>1. base < n /\ base % s = 0 /\ n \in Nat
    BY <1>2, <1>4, <1>5
  <2> QED
    BY <2>1, StepUp, Zenon
<1>7. r % p = 0
  BY <1>2, ModMod
<1>8. r + p <= s
  <2>1. r < s /\ r \in Nat /\ s \in Nat
    BY <1>2
  <2> QED
    BY <1>7, <2>1, StepUp, Zenon
<1>9. ASSUME r + p < s PROVE (f + p) % s = r + p
  <2>1. PICK k \in 0..s - 1 : k = r + p
    BY <1>9
  <2>2. (s * q + k) % s = k
    BY Remainder
  <2>3. s * q + k = f + p
    BY <1>3, <1>4, <2>1
  <2> QED
    BY <2>1, <2>2, <2>3
<1>10. /\ base <= f /\ f + p <= base + s
       /\ f - r = base
       /\ f + p < base + s => r + p < s /\ (f + p) - (r + p) = base
  BY <1>4, <1>8
<1> QED
  BY <1>2, <1>5, <1>6, <1>9, <1>10 DEF Sector

(* The page at f lies in what is left of its sector, and what is left      *)
(* behind the page is what the next page has.                              *)
LEMMA NextPage ==
  ASSUME NEW f \in FlashAddr, f % PageSize = 0,
         NEW g, g = (f + PageSize) % FlashSize
  PROVE  /\ RestOfSector(f) \subseteq FlashAddr
         /\ f..f + PageSize - 1 \subseteq RestOfSector(f)
         /\ g \in FlashAddr /\ g % PageSize = 0
         /\ g % SectorSize # 0 =>
              \A c \in RestOfSector(g) : c \in RestOfSector(f) /\ c > f + PageSize - 1
<1>1. /\ f \in Nat /\ f < FlashSize
      /\ PageSize \in Nat \ {0} /\ SectorSize \in Nat \ {0} /\ FlashSize \in Nat \ {0}
  BY FlashFacts DEF FlashAddr
<1>2. PICK base \in Nat : Sector(PageSize, SectorSize, FlashSize, f, base)
  BY <1>1, FlashFacts, InSector
<1>a. /\ base <= f /\ base + SectorSize <= FlashSize /\ f + PageSize <= base + SectorSize
      /\ f - (f % SectorSize) = base
      /\ f + PageSize = base + SectorSize => (f + PageSize) % SectorSize = 0
      /\ f + PageSize < base + SectorSize =>
           (f + PageSize) - ((f + PageSize) % SectorSize) = base
  BY <1>2 DEF Sector
<1>3. RestOfSector(f) = f..base + SectorSize - 1
  BY <1>a DEF RestOfSector
<1>4. RestOfSector(f) \subseteq FlashAddr /\ f..f + PageSize - 1 \subseteq RestOfSector(f)
  <2>1. f..base + SectorSize - 1 \subseteq 0..FlashSize - 1
    BY <1>1, <1>a
  <2>2. f..f + PageSize - 1 \subseteq f..base + SectorSize - 1
    BY <1>1, <1>a
  <2> QED
    BY <1>3, <2>1, <2>2 DEF FlashAddr
<1>5. CASE f + PageSize = FlashSize
  <2>1. g = 0 /\ 0 % SectorSize = 0 /\ 0 % PageSize = 0
    BY <1>1, <1>5
  <2> QED
    BY <1>1, <1>4, <2>1 DEF FlashAddr
<1>6. CASE f + PageSize < FlashSize
  <2>1. g = f + PageSize /\ g \in FlashAddr
    BY <1>1, <1>6 DEF FlashAddr
  <2>2. g % PageSize = 0
    <3>1. ((f % PageSize) + PageSize) % PageSize = (f + PageSize) % PageSize
      BY <1>1, AddMod
    <3>2. (0 + PageSize) % PageSize = 0
      BY <1>1
    <3> QED
      BY <2>1, <3>1, <3>2
  <2>3. ASSUME g % SectorSize # 0
        PROVE  \A c \in RestOfSector(g) : c \in RestOfSector(f) /\ c > f + PageSize - 1
    <3>1. f + PageSize < base + SectorSize
      BY <1>1, <1>a, <2>1, <2>3
    <3>2. RestOfSector(g) = g..base + SectorSize - 1
      BY <1>a, <2>1, <3>1 DEF RestOfSector
    <3>3. \A c \in g..base + SectorSize - 1 : c \in f..base + SectorSize - 1 /\ c > f + PageSize - 1
      BY <1>1, <2>1
    <3> QED
      BY <1>3, <3>2, <3>3
  <2> QED
    BY <1>4, <2>1, <2>2, <2>3
<1> QED
  BY <1>1, <1>a, <1>5, <1>6
(* A sector begins ready.                                                  *)
LEMMA ReadyAligned ==
  ASSUME NEW mem, NEW a \in Nat, a % SectorSize = 0
  PROVE  Ready(mem, a)
<1>1. (a % FlashSize) % SectorSize = a % SectorSize
  BY FlashFacts, ModMod
<1> QED
  BY <1>1 DEF Ready

(* What counts of an address is where it lies in the flash.                *)
LEMMA ReadyModulo ==
  ASSUME NEW mem, NEW a \in Nat, NEW b \in Nat, a % FlashSize = b % FlashSize
  PROVE  Ready(mem, a) <=> Ready(mem, b)
BY DEF Ready

(* An address of the flash, taken modulo its size once or twice.           *)
LEMMA ModTwice ==
  ASSUME NEW a \in Nat
  PROVE  (a % FlashSize) % FlashSize = a % FlashSize /\ a % FlashSize \in FlashAddr
         /\ (a % FlashSize) % PageSize = a % PageSize
<1>1. FlashSize \in Nat \ {0} /\ a % FlashSize \in 0..FlashSize - 1
  BY FlashFacts, Quotient
<1>2. PICK f \in 0..FlashSize - 1 : f = a % FlashSize
  BY <1>1
<1>3. f % FlashSize = f
  BY <1>1
<1>4. (a % FlashSize) % PageSize = a % PageSize
  BY FlashFacts, ModMod
<1> QED
  BY <1>1, <1>2, <1>3, <1>4 DEF FlashAddr

(* Inside a sector ready means erased.                                     *)
LEMMA ReadyErased ==
  ASSUME NEW mem, NEW f \in FlashAddr, Ready(mem, f), f % SectorSize # 0
  PROVE  ErasedFrom(mem, f)
<1>1. f % FlashSize = f
  BY FlashFacts DEF FlashAddr
<1> QED
  BY <1>1 DEF Ready

(* When the page at f has been programmed the next one is ready.           *)
LEMMA ReadyNext ==
  ASSUME NEW mem, NEW new, NEW f \in FlashAddr, f % PageSize = 0, ErasedFrom(mem, f),
         \A c \in FlashAddr \ (f..f + PageSize - 1) : new[c] = mem[c],
         NEW g, g = (f + PageSize) % FlashSize
  PROVE  Ready(new, g)
<1>1. /\ RestOfSector(f) \subseteq FlashAddr /\ g \in FlashAddr
      /\ g % SectorSize # 0 =>
              \A c \in RestOfSector(g) : c \in RestOfSector(f) /\ c > f + PageSize - 1
  BY NextPage
<1>2. g % FlashSize = g /\ f \in Nat /\ PageSize \in Nat /\ FlashAddr \subseteq Nat
  BY <1>1, FlashFacts DEF FlashAddr
<1>3. ASSUME g % SectorSize # 0, NEW c \in RestOfSector(g) PROVE new[c] = Erased
  <2>1. c \in RestOfSector(f) /\ c \in FlashAddr /\ c \notin f..f + PageSize - 1
    BY <1>1, <1>2, <1>3
  <2> QED
    BY <2>1 DEF ErasedFrom
<1> QED
  BY <1>2, <1>3 DEF Ready, ErasedFrom

-----------------------------------------------------------------------------
(* The helper programs only cells that are erased, and stays ready.        *)
ProgramsErased == \A a \in FlashAddr : flash'[a] # flash[a] => Erased \in {flash[a], flash'[a]}

(* Programming a page stays within erased cells, and readies the next.     *)
LEMMA WriteReady ==
  ASSUME TypeOK, PingInd, ReadyInd, WritePage
  PROVE  ReadyInd' /\ ProgramsErased
<1> DEFINE f == params.ouraddr
           n == params.size
           m == mbox.flash + mbox.size
           g == (f + PageSize) % FlashSize
<1>1. /\ cog \in {"page", "erased"} /\ f \in FlashAddr /\ f % PageSize = 0
      /\ (f + n) % FlashSize = m % FlashSize
  BY DEF WritePage, ReadyInd
<1>2. f \in Nat /\ n \in Nat /\ m \in Nat /\ n \in 1..mbox.size /\ PageSize \in Nat \ {0}
      /\ FlashSize \in Nat \ {0} /\ f + n \in Nat /\ f + PageSize \in Nat
  BY <1>1, FlashFacts DEF TypeOK, MemTypeOK, PingInd, HelperInd
<1>3. ErasedFrom(flash, f)
  <2>1. CASE cog = "erased"
    BY <2>1 DEF ReadyInd
  <2>2. CASE cog = "page"
    <3>1. Ready(flash, f) /\ f % SectorSize # 0
      BY <2>2 DEF WritePage, ReadyInd, AtSector
    <3> QED
      BY <1>1, <3>1, ReadyErased
  <2> QED
    BY <1>1, <2>1, <2>2
<1>4. /\ \A c \in FlashAddr \ (f..f + PageSize - 1) : flash'[c] = flash[c]
      /\ UNCHANGED mbox
      /\ \/ /\ n > PageSize /\ cog' = "page"
            /\ params' = [hubaddr |-> params.hubaddr + PageSize, ouraddr |-> g, size |-> n - PageSize]
         \/ n <= PageSize /\ cog' = "done"
  BY <1>2 DEF WritePage
<1>5. Ready(flash', g)
  BY <1>1, <1>3, <1>4, ReadyNext
<1>6. ProgramsErased
  <2> SUFFICES ASSUME NEW a \in FlashAddr, flash'[a] # flash[a] PROVE flash[a] = Erased
    BY DEF ProgramsErased
  <2>1. a \in f..f + PageSize - 1
    BY <1>4
  <2>2. f..f + PageSize - 1 \subseteq RestOfSector(f)
    BY <1>1, NextPage
  <2> QED
    BY <1>3, <2>1, <2>2 DEF ErasedFrom
<1>7. CASE n > PageSize
  <2>1. g \in FlashAddr /\ g % PageSize = 0
    BY <1>1, NextPage
  <2>2. (g + (n - PageSize)) % FlashSize = m % FlashSize
    <3>1. n - PageSize \in Nat /\ (f + PageSize) + (n - PageSize) = f + n
      BY <1>2, <1>7
    <3>2. (g + (n - PageSize)) % FlashSize = ((f + PageSize) + (n - PageSize)) % FlashSize
      BY <1>2, <3>1, AddMod
    <3> QED
      BY <1>1, <3>1, <3>2
  <2>3. cog' = "page" /\ params'.ouraddr = g /\ params'.size = n - PageSize
    BY <1>2, <1>4, <1>7
  <2>4. /\ Ready(flash, params.ouraddr)'
        /\ ((params.ouraddr + params.size) % FlashSize = (mbox.flash + mbox.size) % FlashSize)'
    BY <1>4, <1>5, <2>2, <2>3
  <2> QED
    BY <1>6, <2>1, <2>3, <2>4 DEF ReadyInd
<1>8. CASE n <= PageSize
  <2>1. cog' = "done" /\ UNCHANGED mbox
    BY <1>2, <1>4, <1>8
  <2>2. ASSUME m % PageSize = 0 PROVE Ready(flash', m)
    <3>1. (f + n) % PageSize = m % PageSize
      <4>1. ((f + n) % FlashSize) % PageSize = (f + n) % PageSize
        BY <1>2, ModTwice
      <4>2. (m % FlashSize) % PageSize = m % PageSize
        BY <1>2, ModTwice
      <4> QED
        BY <1>1, <4>1, <4>2
    <3>2. n % PageSize = 0
      <4>1. ((f % PageSize) + n) % PageSize = (f + n) % PageSize
        BY <1>2, AddMod
      <4>2. (f % PageSize) + n = n
        BY <1>1, <1>2
      <4> QED
        BY <2>2, <3>1, <4>1, <4>2
    <3>3. n = PageSize
      <4>1. n < PageSize => n % PageSize = n
        BY <1>2
      <4> QED
        BY <1>2, <1>8, <3>2, <4>1
    <3>4. g % FlashSize = m % FlashSize /\ g \in Nat
      <4>1. g % FlashSize = (f + PageSize) % FlashSize /\ g \in FlashAddr
        BY <1>2, ModTwice
      <4> QED
        BY <1>1, <3>3, <4>1 DEF FlashAddr
    <3> QED
      BY <1>2, <1>5, <3>4, ReadyModulo
  <2>3. ((mbox.flash + mbox.size) % PageSize = 0 => Ready(flash, mbox.flash + mbox.size))'
    BY <2>1, <2>2
  <2> QED
    BY <1>6, <2>1, <2>3 DEF ReadyInd
<1> QED
  BY <1>2, <1>7, <1>8

(* The helper's steps.                                                     *)
LEMMA CogReady ==
  ASSUME TypeOK, PingInd, ReadyInd, CogStep
  PROVE  ReadyInd' /\ (flash' # flash => ProgramsErased)
<1>1. CASE CogInit
  BY <1>1 DEF CogInit, ReadyInd
<1>2. CASE CogAccept
  <2> DEFINE a == mbox.flash
  <2>1. /\ cog = "poll" /\ mbox.word # 0 /\ UNCHANGED <<mbox, flash>> /\ a \in Nat /\ mbox.size \in Nat
        /\ params'.ouraddr = a % FlashSize /\ params'.size = mbox.size
        /\ mbox.word \in Int
    BY <1>2 DEF CogAccept, TypeOK, MemTypeOK
  <2>2. CASE cog' \in {"stopped", "bad"}
    BY <2>1, <2>2 DEF ReadyInd
  <2>3. CASE cog' \in {"done", "page"}
    <3>1. a % PageSize = 0 /\ mbox.word # -1 /\ (cog' = "done" => mbox.size = 0)
      BY <1>2, <2>3 DEF CogAccept
    <3>2. mbox.word < 0
      BY <2>1, <3>1 DEF PingInd, HelperInd
    <3>3. Ready(flash, a)
      BY <2>1, <3>1, <3>2 DEF ReadyInd
    <3>4. /\ (a % FlashSize) % FlashSize = a % FlashSize /\ a % FlashSize \in FlashAddr
          /\ (a % FlashSize) % PageSize = 0
      BY <2>1, <3>1, ModTwice
    <3>5. Ready(flash, a % FlashSize)
      BY <2>1, <3>3, <3>4, ReadyModulo DEF FlashAddr
    <3>6. ((a % FlashSize) + mbox.size) % FlashSize = (a + mbox.size) % FlashSize
      BY <2>1, FlashFacts, AddMod
    <3>7. cog' = "done" => a + mbox.size = a
      BY <2>1, <3>1
    <3>8. CASE cog' = "page"
      BY <2>1, <3>4, <3>5, <3>6, <3>8 DEF ReadyInd
    <3>9. CASE cog' = "done"
      BY <2>1, <3>3, <3>7, <3>9 DEF ReadyInd
    <3> QED
      BY <2>1, <2>3, <3>8, <3>9
  <2> QED
    BY <1>2, <2>2, <2>3 DEF CogAccept
<1>3. CASE Erase
  <2> DEFINE f == params.ouraddr
  <2>1. /\ cog = "page" /\ cog' = "erased" /\ f % SectorSize = 0 /\ UNCHANGED <<mbox, params>>
        /\ f \in FlashAddr /\ f \in Nat
        /\ f % PageSize = 0 /\ (f + params.size) % FlashSize = (mbox.flash + mbox.size) % FlashSize
        /\ flash' = [a \in FlashAddr |-> IF a \in f..f + SectorSize - 1 THEN Erased ELSE flash[a]]
    BY <1>3 DEF Erase, AtSector, ReadyInd, FlashAddr
  <2>2. RestOfSector(f) = f..f + SectorSize - 1 /\ RestOfSector(f) \subseteq FlashAddr
    BY <2>1, NextPage DEF RestOfSector
  <2>3. ErasedFrom(flash', f)
    BY <2>1, <2>2 DEF ErasedFrom
  <2>4. ProgramsErased
    BY <2>1 DEF ProgramsErased
  <2>5. ErasedFrom(flash, params.ouraddr)'
    BY <2>1, <2>3
  <2> QED
    BY <2>1, <2>4, <2>5 DEF ReadyInd
<1>4. CASE CogRespond
  <2>1. ~(mbox'.word < 0)
    BY <1>4, HubAssumption DEF CogRespond, ErrPtr, TypeOK, MemTypeOK
  <2>2. cog' = "poll" /\ UNCHANGED flash
    BY <1>4 DEF CogRespond
  <2> QED
    BY <2>1, <2>2 DEF ReadyInd
<1> QED
  BY <1>1, <1>2, <1>3, <1>4, WriteReady DEF CogStep

(* While the helper is at work the next chunk waits for it.                *)
LEMMA CogNext ==
  ASSUME TypeOK, PingInd, ReadyInd, NextInd, CogStep, UNCHANGED devVars
  PROVE  NextInd'
<1>1. UNCHANGED <<dpc, loadaddr>> /\ mbox.word \in Int
  BY DEF devVars, TypeOK, MemTypeOK
<1>2. CASE CogInit \/ CogAccept
  <2>1. UNCHANGED <<mbox, flash>>
    BY <1>2 DEF CogInit, CogAccept
  <2> QED
    BY <1>1, <2>1 DEF NextInd
<1>3. CASE Erase \/ WritePage
  <2>1. mbox.word < 0 /\ UNCHANGED mbox
    BY <1>3 DEF Erase, WritePage, PingInd, HelperInd
  <2>2. mbox'.word # 0 /\ dpc \notin {"flashlen", "postF"}
    BY <1>1, <2>1 DEF PingInd, MailboxInd
  <2> QED
    BY <1>1, <2>1, <2>2 DEF NextInd
<1>4. CASE CogRespond
  <2>1. UNCHANGED flash /\ ~(mbox'.word < 0)
    BY <1>4, HubAssumption DEF CogRespond, ErrPtr, TypeOK, MemTypeOK
  <2>2. ASSUME dpc \in {"chunk", "post", "drain"}, mbox'.word = 0, loadaddr % PageSize = 0
        PROVE  Ready(flash, loadaddr)
    <3>1. cog = "done"
      BY <1>4, <2>2, HubAssumption DEF CogRespond, ErrPtr, TypeOK, MemTypeOK
    <3>2. mbox.word < 0
      BY <3>1 DEF PingInd, HelperInd
    <3>3. loadaddr = mbox.flash + mbox.size
      BY <2>2, <3>2 DEF NextInd
    <3> QED
      BY <2>2, <3>1, <3>3 DEF ReadyInd
  <2> QED
    BY <1>1, <2>1, <2>2 DEF NextInd
<1> QED
  BY <1>2, <1>3, <1>4 DEF CogStep

(* What the loader needs of the host: headers that begin on sectors, and   *)
(* 'F' only behind the stub.                                               *)
HeaderReady == dpc = "header" /\ Len(h2d) >= 2 * LongBytes => OnSector(ser_rx_long(h2d[1], h2d[2]))
CopyReady == dpc = "request" /\ h2d # <<>> /\ Head(h2d) = ReqFlash => Ready(flash, FlashImage)

(* Then the loader's steps keep the flash ready.                           *)
LEMMA DevReady ==
  ASSUME TypeOK, PingInd, MailboxIntact, ReadyInd, NextInd, HeaderReady, CopyReady, DevStep
  PROVE  ReadyInd' /\ NextInd' /\ UNCHANGED flash
<1>a. /\ mbox.word \in Int /\ mbox.flash \in Nat /\ mbox.size \in Nat /\ loadaddr \in Nat
      /\ ptrb \in Nat /\ filesize \in Nat /\ pingpong \in {Ping, Pong} /\ h2d \in Seq(Byte)
  BY DEF TypeOK, MemTypeOK, DevTypeOK, LinkTypeOK, Long
<1>0. ASSUME UNCHANGED memVars PROVE ReadyInd' /\ UNCHANGED flash
  BY <1>0 DEF memVars, ReadyInd
<1>1. CASE NextRequest
  <2>1. UNCHANGED <<mbox, flash, params, loadaddr>> /\ dpc = "request" /\ h2d # <<>>
        /\ dpc' \in {"header", "flashlen", "exec", "request", "wild", "error"}
        /\ (dpc' = "flashlen" => Head(h2d) = ReqFlash)
    BY <1>1 DEF NextRequest
  <2>2. cog' = cog \/ (cog' = "init" /\ mbox.word = 0)
    BY <1>1 DEF NextRequest, CallLast, MailboxIntact
  <2>3. ReadyInd'
    BY <2>1, <2>2, <1>a DEF ReadyInd
  <2>4. NextInd'
    BY <2>1 DEF NextInd, CopyReady
  <2> QED
    BY <2>1, <2>3, <2>4
<1>2. CASE ReadHeader
  <2> DEFINE a == ser_rx_long(h2d[1], h2d[2])
  <2>1. /\ UNCHANGED memVars /\ loadaddr' = a /\ dpc = "header" /\ Len(h2d) >= 2 * LongBytes
        /\ dpc' \in {"stream", "chunk", "header"} /\ (dpc' = "chunk" => a >= HimemBit)
    BY <1>2 DEF ReadHeader
  <2>2. ~(mbox.word < 0)
    BY <2>1, <1>a DEF PingInd, MailboxInd
  <2>a. h2d[1] \in Byte /\ h2d[2] \in Byte
    BY <2>1, <1>a DEF LongBytes
  <2>3. a \in Nat
    BY <2>a, BytesAreLong DEF Long
  <2>4. OnSector(a)
    BY <2>1 DEF HeaderReady
  <2>5. ASSUME dpc' = "chunk", a % PageSize = 0 PROVE Ready(flash, a)
    <3>1. a % SectorSize = 0
      BY <2>1, <2>4, <2>5 DEF OnSector
    <3> QED
      BY <2>3, <3>1, ReadyAligned
  <2>6. NextInd'
    BY <2>1, <2>2, <2>5 DEF NextInd, memVars
  <2> QED
    BY <1>0, <2>1, <2>6
<1>3. CASE StreamByte
  <2>1. /\ dpc = "stream" /\ h2d # <<>> /\ StoreByte(ptrb, Head(h2d))
        /\ UNCHANGED <<flash, cog, params>> /\ dpc' \in {"stream", "request"}
    BY <1>3 DEF StreamByte
  <2>2. NextInd'
    BY <2>1 DEF NextInd
  <2>3. CASE mailbox # 0
    <3>1. mbox' = mbox
      BY <2>1, <2>3, <1>a, StoreMisses DEF MailboxIntact
    <3> QED
      BY <2>1, <2>2, <3>1 DEF ReadyInd
  <2>4. CASE mailbox = 0
    BY <2>1, <2>2, <2>4 DEF ReadyInd, PingInd, HelperInd
  <2> QED
    BY <2>3, <2>4
<1>4. CASE ChunkByte
  <2>1. /\ dpc = "chunk" /\ StoreByte(ptrb, Head(h2d)) /\ UNCHANGED <<flash, cog, params, loadaddr>>
        /\ dpc' \in {"chunk", "post"}
    BY <1>4 DEF ChunkByte
  <2>2. ptrb \notin MailCells
    BY <2>1, <1>a, HubAssumption, LoaderAssumption DEF PingInd, MailboxInd, MailCells
  <2>3. mbox' = mbox
    BY <2>1, <2>2, <1>a, StoreMisses
  <2> QED
    BY <2>1, <2>3 DEF ReadyInd, NextInd
<1>5. CASE PostChunk
  <2> DEFINE n == bufsiz(filesize)
  <2>1. /\ dpc = "post" /\ mbox.word = 0
        /\ mbox' = [word |-> pingpong - Burst, flash |-> loadaddr, size |-> n]
        /\ UNCHANGED <<flash, cog, params>> /\ loadaddr' = loadaddr + n /\ dpc' \in {"chunk", "drain"}
    BY <1>5 DEF PostChunk, MailboxFree, SendMailbox
  <2>2. mbox'.word # 0 /\ mbox'.flash = loadaddr /\ mbox'.size = n
    BY <2>1, <1>a, BufferFacts
  <2>3. cog \notin {"page", "erased", "done"}
    BY <2>1 DEF PingInd, HelperInd
  <2>4. loadaddr % PageSize = 0 => Ready(flash, loadaddr)
    BY <2>1 DEF NextInd
  <2>5. (mbox.flash % PageSize = 0 => Ready(flash, mbox.flash))'
    BY <2>1, <2>2, <2>4
  <2>6. ReadyInd'
    BY <2>1, <2>3, <2>5 DEF ReadyInd
  <2>7. NextInd'
    BY <2>1, <2>2 DEF NextInd
  <2> QED
    BY <2>1, <2>6, <2>7
<1>6. CASE ChunksDone \/ HimemError
  <2>1. UNCHANGED memVars /\ dpc' \in {"request", "header"}
    BY <1>6 DEF ChunksDone, HimemError
  <2> QED
    BY <1>0, <2>1 DEF NextInd
<1>7. CASE ReadFlashLength
  <2>1. UNCHANGED memVars /\ dpc = "flashlen" /\ dpc' = "postF"
    BY <1>7 DEF ReadFlashLength
  <2> QED
    BY <1>0, <2>1 DEF NextInd, memVars
<1>8. CASE PostFlashCopy
  <2>1. /\ dpc = "postF" /\ mbox.word = 0 /\ UNCHANGED <<flash, cog, params>> /\ dpc' = "exec"
        /\ mbox' = [word |-> 0 - Burst, flash |-> FlashImage, size |-> filesize]
    BY <1>8 DEF PostFlashCopy, MailboxFree, SendMailbox
  <2>2. cog \notin {"page", "erased", "done"} /\ Ready(flash, FlashImage) /\ mbox'.flash = FlashImage
    BY <2>1 DEF PingInd, HelperInd, NextInd
  <2>3. Ready(flash, mbox.flash)'
    BY <2>1, <2>2
  <2> QED
    BY <2>1, <2>2, <2>3 DEF ReadyInd, NextInd
<1>9. CASE DoneAndExec
  <2>1. /\ UNCHANGED <<flash, cog, params>> /\ dpc' = "running"
        /\ (UNCHANGED mbox \/ (mailbox # 0 /\ mbox.word = 0 /\ mbox' = [mbox EXCEPT !.word = -1]))
    BY <1>9 DEF DoneAndExec, MailboxFree
  <2>2. CASE UNCHANGED mbox
    BY <2>1, <2>2 DEF ReadyInd, NextInd
  <2>3. CASE mailbox # 0 /\ mbox.word = 0 /\ mbox' = [mbox EXCEPT !.word = -1]
    <3>1. cog \notin {"page", "erased", "done"}
      BY <2>3 DEF PingInd, HelperInd
    <3>2. mbox'.word = -1
      BY <2>3 DEF TypeOK, MemTypeOK
    <3> QED
      BY <2>1, <3>1, <3>2 DEF ReadyInd, NextInd
  <2> QED
    BY <2>1, <2>2, <2>3
<1> QED
  BY <1>1, <1>2, <1>3, <1>4, <1>5, <1>6, <1>7, <1>8, <1>9 DEF DevStep

-----------------------------------------------------------------------------
(* What the host sends.  StubInd holds as long as neither side is lost.    *)
StubOK == Lost \/ StubInd

(* The helper, the flash stub and every block of a job begin on sectors.   *)
LEMMA SectorBlocks ==
  ASSUME JobsOnSectors, HostTypeOK
  PROVE  /\ OnSector(HostHelper) /\ OnSector(HimemBit)
         /\ fno <= Len(job.files) =>
              /\ OnSector(File.addr)
              /\ sno <= Len(File.segs) => OnSector(Segment.addr)
<1>1. job \in Jobs /\ fno \in Nat \ {0} /\ sno \in Nat \ {0} /\ job \in JobType
  BY JobFacts DEF HostTypeOK
<1>2. OnSector(HostHelper)
  BY HelperFits DEF OnSector, Long, HimemBit
<1>3. OnSector(HimemBit)
  BY FlashFacts DEF OnSector
<1>4. ASSUME fno <= Len(job.files)
      PROVE  OnSector(File.addr) /\ (sno <= Len(File.segs) => OnSector(Segment.addr))
  <2>1. fno \in DOMAIN job.files /\ File \in FileType
    BY <1>1, <1>4, JobFacts DEF JobType
  <2>2. /\ OnSector(File.addr)
        /\ \A k \in DOMAIN File.segs : OnSector(File.segs[k].addr)
    BY <1>1, <2>1 DEF JobsOnSectors, File
  <2>3. sno <= Len(File.segs) => sno \in DOMAIN File.segs
    BY <1>1, <2>1 DEF FileType
  <2> QED
    BY <2>2, <2>3 DEF Segment
<1> QED
  BY <1>2, <1>3, <1>4

(* '-' behind what may lie on the line, and what is left of such a line.   *)
LEMMA NoFlashKept ==
  ASSUME NEW s \in Seq(Byte), NoFlash(s)
  PROVE  /\ NoFlash(Append(s, ReqDone)) /\ NoFlash(s \o <<ReqDone>>)
         /\ s # <<>> => NoFlash(Tail(s))
<1>1. ReqDone # ReqFlash /\ s \o <<ReqDone>> = Append(s, ReqDone)
  BY DEF ReqDone, ReqFlash
<1>2. NoFlash(Append(s, ReqDone))
  BY <1>1 DEF NoFlash
<1>3. s # <<>> => NoFlash(Tail(s))
  BY DEF NoFlash
<1> QED
  BY <1>1, <1>2, <1>3

(* downloadData's entry, between two blocks.                               *)
LEMMA StubBlock ==
  ASSUME TypeOK, dpc = "request", UNCHANGED <<dpc, flash>>,
         NEW addr \in Long, NEW data \in Seq(Byte), Len(data) \in Long,
         NEW caller, Download(addr, data, caller),
         data # <<>> => OnSector(addr),
         caller = "stub" => addr = HimemBit /\ Len(data) = ChunkSize
  PROVE  StubInd'
<1>1. /\ hpc' = "mode" => rest' = data /\ data # <<>> /\ SentAddr(h2d') = addr
      /\ hpc' \in {"mode", "return"} /\ stage' = caller /\ dpc' = "request"
  BY DownloadMail
<1>2. data # <<>> => hpc' = "mode"
  BY DEF Download
<1>3. caller = "stub" => data # <<>>
  BY LoaderAssumption
<1>4. SentAddr(h2d)' = SentAddr(h2d')
  BY DEF SentAddr
<1> QED
  BY <1>1, <1>2, <1>3, <1>4 DEF StubInd

(* The host's steps.                                                       *)
LEMMA HostStub ==
  ASSUME JobsOnSectors, TypeOK, HostInd, InStep, StubInd, HostStep,
         UNCHANGED <<memVars, devVars>>
  PROVE  StubInd'
<1>a. /\ UNCHANGED <<dpc, flash, loadaddr, filesize, job>>
      /\ h2d \in Seq(Byte) /\ HostTypeOK /\ job \in Jobs /\ job \in JobType
  BY JobFacts DEF devVars, memVars, TypeOK, LinkTypeOK, HostTypeOK, HostStep, HostMode, HostSend,
       HostNextChunk, HostVerify, HostStart, HostHelperLoaded, HostFile, HostSegment, HostSegmentDone,
       HostElfDone, HostBinaryDone, HostTail, HostFinish
<1>0. ASSUME hpc' \in {"next", "data", "waitk", "return", "fail"}, stage' = stage \/ stage' # "stub",
             stage' = "stub" /\ hpc' = "return" => hpc = "verify"
      PROVE  StubInd'
  BY <1>0, <1>a DEF StubInd
<1>1. CASE HostMode
  <2>1. hpc' \in {"data", "fail"} \/ (UNCHANGED <<hpc, h2d, rest, stage>> /\ hpc = "mode")
    BY <1>1 DEF HostMode
  <2>2. UNCHANGED stage
    BY <1>1 DEF HostMode
  <2>3. CASE UNCHANGED <<hpc, h2d, rest, stage>> /\ hpc = "mode"
    BY <1>a, <2>3 DEF StubInd, SentAddr, Ready, ErasedFrom
  <2> QED
    BY <1>0, <2>1, <2>2, <2>3
<1>2. CASE HostSend
  <2>1. hpc = "data" /\ UNCHANGED stage /\ hpc' \in {"data", "verify", "waitk"}
    BY <1>2 DEF HostSend
  <2>2. dpc # "request"
    BY <2>1
       DEF InStep, Between, Asking, IsRequest, Heading, Declined, Streaming, Chunking, Posting, Summed
  <2> QED
    BY <1>a, <2>1, <2>2 DEF StubInd
<1>3. CASE HostNextChunk
  <2>1. hpc = "waitk" /\ UNCHANGED stage /\ hpc' \in {"data", "return"}
    BY <1>3 DEF HostNextChunk
  <2>2. stage # "stub"
    BY <2>1 DEF InStep, InBlock
  <2> QED
    BY <1>0, <2>1, <2>2
<1>4. CASE HostVerify
  BY <1>0, <1>4 DEF HostVerify
<1>5. CASE HostHelperLoaded \/ HostSegmentDone \/ HostBinaryDone
  BY <1>0, <1>5 DEF HostHelperLoaded, HostSegmentDone, HostBinaryDone
<1>6. CASE hpc = "next"
  <2>1. dpc = "request" /\ h2d \in Ahead
    BY <1>6
       DEF InStep, Between, Asking, IsRequest, Heading, Declined, Streaming, Chunking, Posting, Summed
  <2>a. OnSector(HostHelper) /\ OnSector(HimemBit)
    BY <1>a, SectorBlocks
  <2>b. ASSUME LoadBinary, fno <= Len(job.files) PROVE StubInd'
    <3>3. PICK image \in FileImages(File) : Download(File.addr, image, "bin")
      BY <2>b DEF LoadBinary
    <3>1. File.addr \in Long /\ image \in Seq(Byte) /\ Len(image) \in Long
      BY <1>a, <2>b, BlockSizes
    <3>2. OnSector(File.addr)
      BY <1>a, <2>b, SectorBlocks
    <3> QED
      BY <1>a, <2>1, <3>1, <3>2, <3>3, StubBlock
  <2>2. CASE HostStart
    <3>1. CASE job.helper
      <4>1. Download(HostHelper, HelperImage, "helper")
        BY <2>2, <3>1 DEF HostStart
      <4>2. HostHelper \in Long /\ HelperImage \in Seq(Byte) /\ Len(HelperImage) \in Long
        BY HelperFits
      <4> QED
        BY <1>a, <2>1, <2>a, <4>1, <4>2, StubBlock
    <3>2. CASE ~job.helper
      BY <1>0, <1>6, <2>2, <3>2 DEF HostStart
    <3> QED
      BY <3>1, <3>2
  <2>3. CASE HostFile
    <3>1. CASE LoadBinary
      BY <2>b, <2>3, <3>1 DEF HostFile
    <3>2. CASE stage' = "elf" /\ UNCHANGED hpc
      BY <1>0, <1>6, <3>2
    <3> QED
      BY <2>3, <3>1, <3>2 DEF HostFile
  <2>4. CASE HostSegment
    <3>1. fno <= Len(job.files) /\ sno <= Len(File.segs) /\ Download(Segment.addr, Segment.data, "elf")
      BY <2>4 DEF HostSegment, HostInd
    <3>2. /\ Segment.addr \in Long /\ Segment.data \in Seq(Byte) /\ Len(Segment.data) \in Long
      BY <1>a, <3>1, BlockSizes
    <3>3. OnSector(Segment.addr)
      BY <1>a, <3>1, SectorBlocks
    <3> QED
      BY <1>a, <2>1, <3>1, <3>2, <3>3, StubBlock
  <2>5. CASE HostElfDone
    <3>1. CASE LoadBinary
      BY <2>b, <2>5, <3>1 DEF HostElfDone, HostInd
    <3>2. CASE stage' = "files" /\ UNCHANGED hpc
      BY <1>0, <1>6, <3>2
    <3> QED
      BY <2>5, <3>1, <3>2 DEF HostElfDone
  <2>6. CASE HostTail
    <3>1. CASE Download(HimemBit, Stub(RoundUp(top)), "stub")
      <4>1. RoundUp(top) \in Nat
        BY <1>a DEF RoundUp, LongBytes, HostTypeOK
      <4>2. Stub(RoundUp(top)) \in Seq(Byte) /\ Len(Stub(RoundUp(top))) = HostChunk
        BY <4>1, StubIsBytes, JobAssumption DEF Stub
      <4>3. HostChunk \in Long /\ HimemBit \in Long
        BY SharedAssumption, LoaderAssumption, HubAssumption DEF Long, HimemBit
      <4> QED
        BY <1>a, <2>1, <2>a, <3>1, <4>2, <4>3, StubBlock, SharedAssumption
    <3>2. CASE Download(HostHelper, job.argv, "argv")
      <4>1. HostHelper \in Long
        BY HelperFits
      <4>2. job.argv \in Seq(Byte) /\ Len(job.argv) \in Long
        BY <1>a, SizeAssumption, FitsLong DEF JobType
      <4> QED
        BY <1>a, <2>1, <2>a, <3>2, <4>1, <4>2, StubBlock
    <3>3. CASE h2d' = Append(h2d, ReqDone) /\ hpc' = "ok" /\ UNCHANGED stage
      <4>1. NoFlash(h2d) /\ h2d' = Append(h2d, ReqDone)
        BY <2>1, <3>3 DEF Ahead, NoFlash, ReqCall, ReqFlash
      <4>3. NoFlash(h2d)'
        BY <1>a, <4>1, NoFlashKept DEF NoFlash
      <4>2. stage' # "stub"
        BY <2>6, <3>3 DEF HostTail
      <4> QED
        BY <3>3, <4>2, <4>3 DEF StubInd
    <3> QED
      BY <2>6, <3>1, <3>2, <3>3 DEF HostTail
  <2> QED
    BY <1>6, <2>2, <2>3, <2>4, <2>5, <2>6
       DEF HostStep, HostMode, HostSend, HostNextChunk, HostVerify, HostHelperLoaded,
           HostSegmentDone, HostBinaryDone, HostFinish
<1>7. CASE HostFinish
  <2>1. hpc = "return" /\ stage \in {"stub", "argv"} /\ UNCHANGED stage /\ hpc' = "ok"
    BY <1>7 DEF HostFinish
  <2>2. dpc = "request" /\ h2d \in Ahead
    BY <2>1
       DEF InStep, Between, Asking, IsRequest, Heading, Declined, Streaming, Chunking, Posting, Summed
  <2>3. stage = "stub" => Ready(flash, FlashImage)
    BY <2>1, <2>2 DEF StubInd
  <2>4. ASSUME stage # "stub" PROVE NoFlash(h2d)'
    <3>1. NoFlash(h2d) /\ h2d' = h2d \o <<ReqDone>>
      BY <1>7, <2>2, <2>4 DEF HostFinish, Ahead, NoFlash, ReqCall, ReqFlash
    <3> QED
      BY <1>a, <3>1, NoFlashKept DEF NoFlash
  <2> QED
    BY <1>a, <2>1, <2>2, <2>3, <2>4 DEF StubInd
<1> QED
  BY <1>1, <1>2, <1>3, <1>4, <1>5, <1>6, <1>7
     DEF HostStep, HostStart, HostFile, HostSegment, HostElfDone, HostTail

(* The loader's steps.                                                     *)
LEMMA DevStub ==
  ASSUME TypeOK, InStep, InStep', StubInd, NextInd, DevStep, UNCHANGED <<hostVars, flash>>
  PROVE  StubInd'
<1>a. /\ UNCHANGED <<hpc, stage, rest>> /\ h2d \in Seq(Byte)
  BY DEF hostVars, TypeOK, LinkTypeOK
<1>b. (SentAddr(h2d))' = SentAddr(h2d')
  BY DEF SentAddr
<1>1. CASE NextRequest
  <2>1. /\ dpc = "request" /\ h2d # <<>> /\ h2d' = Tail(h2d)
        /\ dpc' \in {"header", "flashlen", "exec", "request", "wild", "error"}
    BY <1>1 DEF NextRequest
  <2>2. hpc = "mode" => SentAddr(h2d') = SentAddr(h2d)
    BY <1>1, RequestKeeps
  <2>3. hpc = "ok" /\ stage # "stub" => NoFlash(h2d)'
    BY <1>a, <2>1, NoFlashKept DEF StubInd, NoFlash
  <2> QED
    BY <1>a, <1>b, <2>1, <2>2, <2>3 DEF StubInd
<1>2. CASE ReadHeader
  <2> DEFINE addr == ser_rx_long(h2d[1], h2d[2])
  <2>1. /\ dpc = "header" /\ Len(h2d) >= 4 /\ h2d' = SubSeq(h2d, 5, Len(h2d))
        /\ filesize' = ser_rx_long(h2d[3], h2d[4]) /\ loadaddr' = addr
        /\ (dpc' = "stream" => addr < HimemBit)
        /\ dpc' \in {"stream", "chunk", "header"}
    BY <1>2 DEF ReadHeader, LongBytes
  <2>2. hpc = "mode" /\ IsHeader(h2d)
    BY <2>1
       DEF InStep, Between, Asking, Heading, Declined, Streaming, Chunking, Posting, Summed
  <2>3. h2d' = <<>> /\ filesize' = Len(rest) /\ Len(h2d) = 4
    BY <2>1, <2>2, <1>a, SubSeqProperties DEF IsHeader, LongBytes
  <2>4. SentAddr(h2d) = addr
    <3>1. Len(h2d) - 3 = 1 /\ Len(h2d) - 2 = 2
      BY <2>3
    <3> QED
      BY <3>1 DEF SentAddr
  <2>5. stage = "stub" => addr = HimemBit /\ Len(rest) = ChunkSize
    BY <2>1, <2>2, <2>3, <2>4 DEF StubInd
  <2>6. stage = "stub" => dpc' # "stream"
    BY <2>1, <2>5 DEF HimemBit
  <2> QED
    BY <1>a, <2>1, <2>2, <2>3, <2>5, <2>6 DEF StubInd
<1>3. CASE StreamByte
  <2>1. dpc = "stream" /\ dpc' \in {"stream", "request"} /\ h2d # <<>>
    BY <1>3 DEF StreamByte
  <2>2. hpc \in {"data", "verify"} /\ stage # "stub"
    BY <2>1
       DEF StubInd, InStep, Between, Asking, Heading, Declined, Streaming, Chunking, Posting, Summed
  <2> QED
    BY <1>a, <2>1, <2>2 DEF StubInd
<1>4. CASE ChunkByte
  <2>1. dpc = "chunk" /\ dpc' \in {"chunk", "post"} /\ UNCHANGED <<loadaddr, filesize>>
    BY <1>4 DEF ChunkByte
  <2>2. hpc # "ok"
    BY <2>1
       DEF InStep, Between, Asking, Heading, Declined, Streaming, Chunking, Posting, Summed
  <2> QED
    BY <1>a, <2>1, <2>2 DEF StubInd
<1>5. CASE PostChunk \/ ChunksDone \/ HimemError \/ PostFlashCopy \/ DoneAndExec
  <2>1. dpc \in {"post", "drain", "postF", "exec"} /\ UNCHANGED h2d
    BY <1>5 DEF PostChunk, ChunksDone, HimemError, PostFlashCopy, DoneAndExec
  <2>2. h2d = <<>> /\ dpc \in {"post", "drain"} /\ hpc \in {"waitk", "verify"}
    BY <2>1
       DEF InStep, Between, Asking, Heading, Declined, Streaming, Chunking, Posting, Summed
  <2>3. CASE PostChunk
    <3>1. /\ dpc = "post" /\ loadaddr' = loadaddr + bufsiz(filesize)
          /\ filesize' = filesize - bufsiz(filesize)
          /\ dpc' = (IF filesize' # 0 THEN "chunk" ELSE "drain")
      BY <2>3 DEF PostChunk
    <3>2. ASSUME stage = "stub" PROVE dpc' = "drain" /\ loadaddr' = FlashImage
      <4>1. loadaddr = HimemBit /\ filesize = ChunkSize
        BY <3>1, <3>2 DEF StubInd
      <4>2. bufsiz(filesize) = ChunkSize /\ ChunkSize \in Nat
        BY <4>1, LoaderAssumption DEF bufsiz
      <4>3. filesize' = 0
        BY <3>1, <4>1, <4>2
      <4> QED
        BY <3>1, <4>1, <4>2, <4>3 DEF FlashImage
    <3>3. dpc' \in {"chunk", "drain"}
      BY <3>1
    <3> QED
      BY <1>a, <2>2, <3>2, <3>3 DEF StubInd
  <2>4. CASE ChunksDone
    <3>1. dpc = "drain" /\ mbox.word = 0 /\ dpc' = "request" /\ UNCHANGED loadaddr
      BY <2>4 DEF ChunksDone, MailboxFree
    <3>2. FlashImage % PageSize = 0
      BY FlashFacts
    <3>3. stage = "stub" => Ready(flash, FlashImage)
      BY <3>1, <3>2 DEF StubInd, NextInd
    <3> QED
      BY <1>a, <2>1, <2>2, <3>1, <3>3 DEF StubInd
  <2>5. CASE HimemError
    <3>1. dpc' = "header"
      BY <2>5 DEF HimemError
    <3> QED
      BY <1>a, <2>1, <2>2, <3>1 DEF StubInd
  <2> QED
    BY <1>5, <2>2, <2>3, <2>4, <2>5 DEF PostFlashCopy, DoneAndExec
<1>6. CASE ReadFlashLength
  <2>1. dpc' = "postF"
    BY <1>6 DEF ReadFlashLength
  <2> QED
    BY <2>1
       DEF InStep, Between, Asking, Heading, Declined, Streaming, Chunking, Posting, Summed
<1> QED
  BY <1>1, <1>2, <1>3, <1>4, <1>5, <1>6 DEF DevStep

(* What the host sends stays what the loader needs.                        *)
LEMMA StubStep ==
  ASSUME Prompt, JobsClear, JobsOnSectors, TypeInd, SectionsLoad, Pace, PingInd, NextInd, StubOK,
         DevStep => UNCHANGED flash, [Next]_vars
  PROVE  StubOK'
<1>0. TypeOK /\ HostInd
  BY DEF TypeInd
<1>1. CASE Lost \/ Lost'
  BY <1>0, <1>1, LostForGood DEF Lost, StubOK
<1>2. CASE ~Lost /\ ~Lost'
  <2>0. InStep /\ InStep' /\ StubInd
    <3>1. Pace'
      BY PaceStep
    <3> QED
      BY <1>2, <3>1 DEF Pace, Lost, StubOK
  <2>1. CASE Host
    BY <1>0, <2>0, <2>1, HostStub DEF Host, StubOK
  <2>2. CASE Device
    BY <1>0, <2>0, <2>2, DevStub DEF Device, StubOK
  <2>3. CASE Cog
    <3>1. UNCHANGED <<dpc, hpc, h2d, rest, stage, loadaddr, filesize>>
      BY <2>3 DEF Cog, linkVars, devVars, hostVars
    <3>2. CogStep
      BY <2>3 DEF Cog
    <3>3. mbox.word \in Int
      BY <1>0 DEF TypeOK, MemTypeOK
    <3>4. dpc = "request" => UNCHANGED flash
      BY <3>2, <3>3 DEF CogStep, CogInit, CogAccept, Erase, WritePage, CogRespond, PingInd,
           MailboxInd, HelperInd
    <3>5. UNCHANGED SentAddr(h2d)
      BY <3>1 DEF SentAddr
    <3>6. dpc = "request" => UNCHANGED Ready(flash, FlashImage)
      BY <3>4
    <3> QED
      BY <2>0, <3>1, <3>5, <3>6 DEF StubInd, StubOK
  <2>4. CASE Timeout
    <3>1. /\ UNCHANGED <<dpc, stage>> /\ hpc' \in {"return", "fail"}
          /\ hpc' = "return" => hpc = "waitk"
      BY <2>4 DEF Timeout, HostTimeout, HostShortRead, TimedOut, devVars
    <3>2. hpc = "waitk" => stage # "stub"
      BY <2>0 DEF InStep, InBlock
    <3>3. UNCHANGED <<flash, loadaddr, filesize>>
      BY <2>4 DEF Timeout, memVars, devVars
    <3> QED
      BY <2>0, <3>1, <3>2, <3>3 DEF StubInd, StubOK
  <2>5. CASE LinkFault
    <3>1. /\ UNCHANGED <<dpc, hpc, flash, loadaddr, filesize, stage>>
          /\ dpc \in {"stream", "chunk"}
      BY <2>5 DEF LinkFault, memVars, devVars, hostVars
    <3>2. hpc # "ok"
      BY <2>0, <3>1
         DEF InStep, Between, Asking, Heading, Declined, Streaming, Chunking, NewChunk, Posting, Summed
    <3> QED
      BY <2>0, <3>1, <3>2 DEF StubInd, StubOK
  <2>6. CASE UNCHANGED vars
    <3>1. UNCHANGED <<dpc, hpc, h2d, rest, stage, loadaddr, filesize, flash>>
      BY <2>6 DEF vars, linkVars, memVars, devVars, hostVars
    <3>2. UNCHANGED SentAddr(h2d)
      BY <3>1 DEF SentAddr
    <3> QED
      BY <2>0, <3>1, <3>2 DEF StubInd, StubOK
  <2> QED
    BY <2>1, <2>2, <2>3, <2>4, <2>5, <2>6 DEF Next
<1> QED
  BY <1>1, <1>2

(* And it is enough for the loader.                                        *)
LEMMA StubReady ==
  ASSUME TypeInd, Pace, StubOK
  PROVE  HeaderReady /\ CopyReady
<1>a. h2d \in Seq(Byte)
  BY DEF TypeInd, TypeOK, LinkTypeOK
<1>1. CASE Lost
  BY <1>1, <1>a DEF Lost, Astray, Quit, HeaderReady, CopyReady, LongBytes
<1>2. CASE InStep /\ StubInd
  <2>1. HeaderReady
    <3> SUFFICES ASSUME dpc = "header", Len(h2d) >= 4
                 PROVE  OnSector(ser_rx_long(h2d[1], h2d[2]))
      BY DEF HeaderReady, LongBytes
    <3>1. hpc = "mode" /\ IsHeader(h2d)
      BY <1>2, <1>a
         DEF InStep, Between, Asking, Heading, Declined, Streaming, Chunking, Posting, Summed
    <3>2. Len(h2d) - 3 = 1 /\ Len(h2d) - 2 = 2 /\ h2d # <<>>
      BY <3>1, <1>a DEF IsHeader, LongBytes
    <3> QED
      BY <1>2, <3>1, <3>2 DEF StubInd, SentAddr
  <2>2. CopyReady
    <3> SUFFICES ASSUME dpc = "request", h2d # <<>>, Head(h2d) = ReqFlash
                 PROVE  Ready(flash, FlashImage)
      BY DEF CopyReady
    <3>1. Asking
      BY <1>2
         DEF InStep, Between, Ahead, Heading, Declined, Streaming, Chunking, Posting, Summed,
             ReqCall, ReqFlash
    <3>2. hpc = "ok"
      BY <3>1 DEF Asking, IsRequest, ReqLoad, ReqCall, ReqFlash
    <3>3. stage = "stub"
      BY <1>2, <1>a, <3>2 DEF StubInd, NoFlash
    <3> QED
      BY <1>2, <3>2, <3>3 DEF StubInd
  <2> QED
    BY <2>1, <2>2
<1> QED
  BY <1>1, <1>2 DEF Pace, StubOK, Lost

(* Every step keeps the flash ready, and programs only erased cells.       *)
LEMMA ReadyStep ==
  ASSUME Prompt, JobsClear, JobsOnSectors, TypeInd, SectionsLoad, Pace, MailboxIntact, PingInd,
         ReadyInd, NextInd, StubOK, [Next]_vars
  PROVE  ReadyInd' /\ NextInd' /\ StubOK' /\ (flash' # flash => ProgramsErased)
<1>0. TypeOK /\ HeaderReady /\ CopyReady
  BY StubReady DEF TypeInd
<1>1. DevStep => UNCHANGED flash
  BY <1>0, DevReady
<1>2. StubOK'
  BY <1>1, StubStep
<1>3. CASE Device
  BY <1>0, <1>2, <1>3, DevReady DEF Device
<1>4. CASE Cog
  BY <1>0, <1>2, <1>4, CogReady, CogNext DEF Cog
<1>5. CASE Host \/ Timeout \/ LinkFault \/ UNCHANGED vars
  <2>1. UNCHANGED <<mbox, flash, cog, params, dpc, loadaddr>>
    BY <1>5 DEF Host, Timeout, LinkFault, vars, memVars, devVars
  <2> QED
    BY <1>2, <2>1 DEF ReadyInd, NextInd
<1> QED
  BY <1>3, <1>4, <1>5 DEF Next

(* A page is programmed only where the flash is erased, for every command  *)
(* line whose files for flash begin on sectors (JobsOnSectors; the code    *)
(* does not check it), and whatever the line does to what it loads.        *)
THEOREM ErasesFirst ==
  Prompt /\ JobsClear /\ JobsOnSectors
    => (Spec /\ []SectionsLoad /\ []CallsIdle => ProgramErased)
<1> SUFFICES ASSUME Prompt, JobsClear, JobsOnSectors
             PROVE  Spec /\ []SectionsLoad /\ []CallsIdle => ProgramErased
  OBVIOUS
<1> DEFINE Inv == TypeInd /\ Pace /\ MailOK /\ PingInd /\ ReadyInd /\ NextInd /\ StubOK
<1>1. Init => Inv
  <2> SUFFICES ASSUME Init PROVE Inv
    OBVIOUS
  <2>1. ReadyInd /\ NextInd /\ StubInd
    BY DEF Init, HimemInit, DevInit, HostInit, ReadyInd, NextInd, StubInd
  <2> QED
    BY <2>1, TypeInit, PaceInit, MailInit, PingInit DEF StubOK
<1>2. Inv /\ CallsIdle => MailboxIntact
  BY MailImplies DEF CallsIdle, CallComes, MailboxIntact
<1>3. Inv /\ SectionsLoad /\ CallsIdle /\ [Next]_vars => Inv'
  BY <1>2, TypeStep, PaceStep, MailStep, PingStep, ReadyStep
<1>4. Inv /\ SectionsLoad /\ CallsIdle /\ [Next]_vars => [ProgramsErased]_flash
  BY <1>2, ReadyStep
<1> QED
  BY <1>1, <1>3, <1>4, PTL DEF Spec, ProgramErased, ProgramsErased

(* So the flash is erased first in every such download without ELF files:  *)
(* nothing is left to assume of its behaviour.                             *)
COROLLARY CleanErases ==
  Prompt /\ JobsClear /\ JobsOnSectors /\ IdleImage /\ MaxFaults = 0 /\ RawJobs
    => (Spec => ProgramErased)
<1> SUFFICES ASSUME Prompt, JobsClear, JobsOnSectors, IdleImage, MaxFaults = 0, RawJobs
             PROVE  Spec => ProgramErased
  OBVIOUS
<1>1. Spec => []SectionsLoad
  BY RawLoads
<1>2. Spec /\ []SectionsLoad => []CallsIdle
  BY CleanCalls
<1>3. Spec /\ []SectionsLoad /\ []CallsIdle => ProgramErased
  BY ErasesFirst
<1> QED
  BY <1>1, <1>2, <1>3, PTL

-----------------------------------------------------------------------------
(* The start address.  The loader keeps the address of the first block it  *)
(* is sent, the helper's among them, and forgets it when it starts the     *)
(* helper.  What is inductive is which sections it has been told of: until *)
(* one with data it has no address, and from then on it has that one's.    *)

(* The address the loader has, or will have once it has taken the request  *)
(* to start the helper.                                                    *)
Started == IF CallComes THEN None ELSE startaddr

(* s is the start address when the sections before section k of file i     *)
(* have been sent.                                                         *)
StartAt(j, i, k, s) ==
  /\ s = None <=> NoneBefore(j, i, k)
  /\ \A h \in DOMAIN j.files : \A m \in DOMAIN Sections(j.files[h]) :
       Before(h, m, i, k) /\ IsFirst(j, h, m) => Sections(j.files[h])[m].addr = s

(* The section the host is at in a file, and whether the loader has been   *)
(* told its address, or there is nothing to tell.                          *)
Place == IF stage = "elf" THEN sno ELSE 1
Told  == hpc \notin {"next", "mode"} \/ (hpc = "mode" /\ h2d = <<>>)
NextPlace == IF Told THEN Place + 1 ELSE Place

(* A section is on its way: the header has its address.                    *)
HeaderTold ==
  hpc = "mode" /\ h2d # <<>> =>
     LET s == Sections(File)[Place] IN SentAddr(h2d) = s.addr /\ s.data # <<>>

(* Where the host is in the command line, and what the loader knows.       *)
StartInd ==
  /\ stage = "start" => startaddr = None
  /\ stage \in {"start", "helper"} => fno = 1
  /\ stage = "files" => StartAt(job, fno, 1, Started)
  /\ stage \in {"elf", "bin"} =>
       /\ StartAt(job, fno, NextPlace, Started) /\ HeaderTold
       /\ stage = "elf" <=> File.kind = "elf"
       /\ stage = "elf" => elfsum >= 0
       /\ Place \in DOMAIN Sections(File) \/ hpc = "next"
  /\ stage \in {"stub", "argv"} \/ hpc = "ok" => StartOf(job, Started)

(* The inductive invariant of the start address; once the loader has been  *)
(* asked to start the application nothing changes its address.             *)
StartOK ==
  /\ Lost \/ StartInd
  /\ dpc \in {"flashlen", "postF", "exec", "running"} => StartOf(job, startaddr)

(* The files of a command line and the sections of a file are counted.     *)
LEMMA SectionPlaces ==
  ASSUME NEW j \in JobType
  PROVE  /\ DOMAIN j.files = 1..Len(j.files) /\ Len(j.files) \in Nat
         /\ \A h \in DOMAIN j.files :
              /\ Sections(j.files[h]) \in Seq(SegType)
              /\ DOMAIN Sections(j.files[h]) = 1..Len(Sections(j.files[h]))
              /\ Len(Sections(j.files[h])) \in Nat
              /\ j.files[h].kind # "elf" => Len(Sections(j.files[h])) = 1
<1>1. j.files \in Seq(FileType)
  BY DEF JobType
<1>2. ASSUME NEW h \in DOMAIN j.files
      PROVE  /\ Sections(j.files[h]) \in Seq(SegType)
             /\ j.files[h].kind # "elf" => Len(Sections(j.files[h])) = 1
  <2>1. PICK f \in FileType : f = j.files[h]
    BY <1>1
  <2>2. [addr |-> f.addr, data |-> f.data] \in SegType /\ f.segs \in Seq(SegType)
    BY <2>1 DEF FileType, SegType
  <2>3. Sections(f) \in Seq(SegType) /\ (f.kind # "elf" => Len(Sections(f)) = 1)
    BY <2>2 DEF Sections
  <2> QED
    BY <2>1, <2>3
<1> QED
  BY <1>1, <1>2

(* The next section comes right behind this one.                           *)
LEMMA NextBefore ==
  ASSUME NEW h \in Nat, NEW m \in Nat, NEW i \in Nat, NEW k \in Nat
  PROVE  Before(h, m, i, k + 1) <=> Before(h, m, i, k) \/ (h = i /\ m = k)
BY DEF Before

(* An empty section changes nothing.                                       *)
LEMMA SkipEmpty ==
  ASSUME NEW j \in JobType, NEW i \in Nat, NEW k \in Nat, NEW s, StartAt(j, i, k, s),
         Sections(j.files[i])[k].data = <<>>
  PROVE  StartAt(j, i, k + 1, s)
<1>1. \A h \in DOMAIN j.files : h \in Nat /\ \A m \in DOMAIN Sections(j.files[h]) : m \in Nat
  BY SectionPlaces
<1>2. NoneBefore(j, i, k + 1) <=> NoneBefore(j, i, k)
  BY <1>1, NextBefore DEF NoneBefore
<1>3. ASSUME NEW h \in DOMAIN j.files, NEW m \in DOMAIN Sections(j.files[h]),
             Before(h, m, i, k + 1), IsFirst(j, h, m)
      PROVE  Before(h, m, i, k)
  BY <1>1, <1>3, NextBefore DEF IsFirst
<1> QED
  BY <1>2, <1>3 DEF StartAt

(* The address of a section with data is taken when there is none yet.     *)
LEMMA TakeFirst ==
  ASSUME NEW j \in JobType, NEW i \in DOMAIN j.files, NEW k \in DOMAIN Sections(j.files[i]),
         NEW s, StartAt(j, i, k, s), Sections(j.files[i])[k].data # <<>>,
         NEW t, t = IF s = None THEN Sections(j.files[i])[k].addr ELSE s
  PROVE  StartAt(j, i, k + 1, t)
<1>1. /\ \A h \in DOMAIN j.files : h \in Nat /\ \A m \in DOMAIN Sections(j.files[h]) : m \in Nat
      /\ i \in Nat /\ k \in Nat
  BY SectionPlaces
<1>2. Sections(j.files[i])[k].addr # None
  <2>1. Sections(j.files[i])[k] \in SegType
    BY SectionPlaces
  <2> QED
    BY <2>1 DEF SegType, Long, None
<1>3. t # None /\ ~NoneBefore(j, i, k + 1)
  <2>1. Before(i, k, i, k + 1)
    BY <1>1, NextBefore
  <2> QED
    BY <1>2, <2>1 DEF NoneBefore
<1>4. ASSUME NEW h \in DOMAIN j.files, NEW m \in DOMAIN Sections(j.files[h]),
             Before(h, m, i, k + 1), IsFirst(j, h, m)
      PROVE  Sections(j.files[h])[m].addr = t
  <2>1. CASE h = i /\ m = k
    <3>1. s = None
      BY <1>4, <2>1 DEF IsFirst, StartAt
    <3> QED
      BY <2>1, <3>1
  <2>2. CASE Before(h, m, i, k)
    <3>1. ~NoneBefore(j, i, k)
      BY <1>4, <2>2 DEF IsFirst, NoneBefore
    <3>2. s # None
      BY <3>1 DEF StartAt
    <3>3. Sections(j.files[h])[m].addr = s
      BY <1>4, <2>2 DEF StartAt
    <3> QED
      BY <3>2, <3>3
  <2> QED
    BY <1>1, <1>4, <2>1, <2>2, NextBefore
<1> QED
  BY <1>3, <1>4 DEF StartAt

(* The next file begins behind the last section of this one.               *)
LEMMA NextFile ==
  ASSUME NEW j \in JobType, NEW i \in DOMAIN j.files, NEW k \in Nat,
         NEW s, StartAt(j, i, k, s), k > Len(Sections(j.files[i]))
  PROVE  StartAt(j, i + 1, 1, s)
<1>1. /\ \A h \in DOMAIN j.files : h \in Nat /\ \A m \in DOMAIN Sections(j.files[h]) : m \in Nat \ {0}
      /\ i \in Nat
      /\ DOMAIN Sections(j.files[i]) = 1..Len(Sections(j.files[i]))
      /\ Len(Sections(j.files[i])) \in Nat
  BY SectionPlaces
<1>2. ASSUME NEW h \in DOMAIN j.files, NEW m \in DOMAIN Sections(j.files[h])
      PROVE  Before(h, m, i + 1, 1) <=> Before(h, m, i, k)
  <2>1. h \in Nat /\ m \in Nat \ {0}
    BY <1>1
  <2>2. h = i => m < k
    BY <1>1
  <2> QED
    BY <1>1, <2>1, <2>2 DEF Before
<1>3. NoneBefore(j, i + 1, 1) <=> NoneBefore(j, i, k)
  BY <1>2 DEF NoneBefore
<1> QED
  BY <1>2, <1>3 DEF StartAt

(* Behind the last file the start address is the application's.            *)
LEMMA AllSent ==
  ASSUME NEW j \in JobType, NEW i \in Nat, NEW k, NEW s, StartAt(j, i, k, s), i > Len(j.files)
  PROVE  StartOf(j, s)
<1>1. \A h \in DOMAIN j.files : h < i
  BY SectionPlaces
<1> QED
  BY <1>1 DEF StartAt, StartOf, Before

(* Before the first file there is none.                                    *)
LEMMA NoneSent ==
  ASSUME NEW j \in JobType
  PROVE  StartAt(j, 1, 1, None)
<1>1. /\ \A h \in DOMAIN j.files : h \in Nat \ {0} /\
           \A m \in DOMAIN Sections(j.files[h]) : m \in Nat \ {0}
  BY SectionPlaces
<1>2. ASSUME NEW h \in DOMAIN j.files, NEW m \in DOMAIN Sections(j.files[h]) PROVE ~Before(h, m, 1, 1)
  BY <1>1 DEF Before
<1> QED
  BY <1>2 DEF StartAt, NoneBefore

(* Priming the invariant is priming what it speaks of.                     *)
LEMMA StartPrimed ==
  /\ StartAt(job, fno, 1, Started)' <=> StartAt(job', fno', 1, Started')
  /\ StartAt(job, fno, NextPlace, Started)' <=> StartAt(job', fno', NextPlace', Started')
  /\ StartOf(job, Started)' <=> StartOf(job', Started')
  /\ StartOf(job, startaddr)' <=> StartOf(job', startaddr')
  /\ SentAddr(h2d)' = SentAddr(h2d')
  /\ Sections(File)' = Sections(File')
BY DEF StartAt, StartOf, NoneBefore, IsFirst, Before, Sections, SentAddr

(* A step that neither moves the host on nor tells the loader anything.    *)
LEMMA StartKept ==
  ASSUME StartInd, UNCHANGED <<job, fno, sno, stage, elfsum>>, UNCHANGED Started, UNCHANGED Told,
         stage = "start" /\ startaddr = None => startaddr' = None,
         hpc' = "mode" /\ h2d' # <<>> => hpc = "mode" /\ h2d # <<>> /\ SentAddr(h2d') = SentAddr(h2d),
         hpc' = "ok" => hpc = "ok", hpc = "next" => hpc' = "next"
  PROVE  StartInd'
<1>1. /\ UNCHANGED File /\ UNCHANGED Place /\ UNCHANGED NextPlace
  BY DEF File, Place, NextPlace
<1>2. HeaderTold => HeaderTold'
  BY <1>1, StartPrimed DEF HeaderTold
<1> QED
  BY <1>1, <1>2, StartPrimed DEF StartInd

(* downloadData's entry says nothing to the loader yet.                    *)
LEMMA StartDownload ==
  ASSUME TypeOK, dpc = "request", UNCHANGED <<dpc, startaddr>>,
         NEW addr \in Long, NEW data \in Seq(Byte), Len(data) \in Long,
         NEW caller, Download(addr, data, caller)
  PROVE  /\ UNCHANGED Started /\ stage' = caller
         /\ \/ hpc' = "mode" /\ h2d' # <<>> /\ data # <<>> /\ SentAddr(h2d') = addr
            \/ hpc' = "return" /\ data = <<>>
<1>1. /\ CallComes' => CallComes
      /\ hpc' = "mode" => data # <<>> /\ SentAddr(h2d') = addr
      /\ hpc' = "return" => UNCHANGED h2d
      /\ h2d # <<>> => h2d' # <<>> /\ Head(h2d') = Head(h2d)
      /\ hpc' \in {"mode", "return"} /\ stage' = caller
  BY DownloadMail
<1>2. UNCHANGED Started
  BY <1>1 DEF Started, CallComes
<1>3. CASE data = <<>>
  <2>1. hpc' = "return"
    BY <1>3 DEF Download
  <2> QED
    BY <1>1, <1>2, <1>3, <2>1
<1>4. CASE data # <<>>
  <2>1. PICK header \in Seq(Byte) : h2d' = h2d \o (<<ReqLoad>> \o header)
    BY <1>4, HeaderSent
  <2>2. ReqLoad \in Byte /\ h2d \in Seq(Byte)
    BY DEF ReqLoad, Byte, TypeOK, LinkTypeOK
  <2>3. PICK req \in Seq(Byte) : req = <<ReqLoad>> \o header /\ req # <<>>
    BY <2>2, Prepend
  <2>4. h2d' # <<>>
    BY <2>1, <2>2, <2>3
  <2>5. hpc' = "mode"
    BY <1>4 DEF Download
  <2> QED
    BY <1>1, <1>2, <1>4, <2>4, <2>5
<1> QED
  BY <1>3, <1>4

(* The host goes on to section k of the file it is at.                     *)
LEMMA StartSection ==
  ASSUME TypeOK, dpc = "request", UNCHANGED <<dpc, startaddr, job, fno>>,
         fno \in DOMAIN job.files, NEW k \in DOMAIN Sections(File),
         StartAt(job, fno, k, Started),
         NEW data \in Seq(Byte), Len(data) \in Long, NEW caller \in {"elf", "bin"},
         Download(Sections(File)[k].addr, data, caller),
         data = <<>> <=> Sections(File)[k].data = <<>>,
         caller = "elf" <=> File.kind = "elf",
         caller = "elf" => UNCHANGED elfsum /\ elfsum >= 0,
         IF caller = "elf" THEN sno' = k ELSE k = 1
  PROVE  StartInd'
<1>1. job \in JobType /\ UNCHANGED File /\ File = job.files[fno]
  BY JobFacts DEF TypeOK, HostTypeOK, File
<1>2. /\ fno \in Nat /\ k \in Nat /\ Sections(File)[k] \in SegType
  BY <1>1, SectionPlaces
<1>3. Sections(File)[k].addr \in Long
  BY <1>2 DEF SegType
<1>4. /\ UNCHANGED Started /\ stage' = caller
      /\ \/ hpc' = "mode" /\ h2d' # <<>> /\ data # <<>> /\ SentAddr(h2d') = Sections(File)[k].addr
         \/ hpc' = "return" /\ data = <<>>
  BY <1>3, StartDownload
<1>5. Place' = k
  BY <1>4 DEF Place
<1>6. HeaderTold'
  BY <1>1, <1>4, <1>5, StartPrimed DEF HeaderTold
<1>7. StartAt(job', fno', NextPlace', Started')
  <2>1. CASE hpc' = "mode"
    <3>1. NextPlace' = k
      BY <1>4, <1>5, <2>1 DEF NextPlace, Told
    <3> QED
      BY <1>4, <3>1
  <2>2. CASE hpc' = "return"
    <3>1. NextPlace' = k + 1
      BY <1>5, <2>2 DEF NextPlace, Told
    <3>2. StartAt(job, fno, k + 1, Started)
      BY <1>1, <1>2, <1>4, <2>2, SkipEmpty
    <3> QED
      BY <1>4, <3>1, <3>2
  <2> QED
    BY <1>4, <2>1, <2>2
<1> QED
  BY <1>1, <1>4, <1>5, <1>6, <1>7, StartPrimed DEF StartInd

(* loadfile loads a file that is not an ELF file.                          *)
LEMMA StartBinary ==
  ASSUME TypeOK, dpc = "request", UNCHANGED <<dpc, startaddr, job, fno>>,
         fno <= Len(job.files), File.kind # "elf", StartAt(job, fno, 1, Started), LoadBinary
  PROVE  StartInd'
<1>1. job \in JobType /\ fno \in DOMAIN job.files /\ File = job.files[fno] /\ HostTypeOK
  BY JobFacts DEF TypeOK, HostTypeOK, File, JobType
<1>2. PICK image \in FileImages(File) : Download(File.addr, image, "bin")
  BY DEF LoadBinary
<1>3. /\ Sections(File) = <<[addr |-> File.addr, data |-> File.data]>>
      /\ 1 \in DOMAIN Sections(File)
      /\ Sections(File)[1].addr = File.addr /\ Sections(File)[1].data = File.data
  BY DEF Sections
<1>4. /\ image \in Seq(Byte) /\ Len(image) \in Long
      /\ image = <<>> <=> File.data = <<>>
  BY <1>1, ImageFacts
<1> QED
  BY <1>1, <1>2, <1>3, <1>4, StartSection

(* The host's steps.                                                       *)
LEMMA HostStarts ==
  ASSUME TypeOK, HostInd, InStep, ~Lost', StartInd, HostStep, UNCHANGED <<memVars, devVars>>
  PROVE  StartInd'
<1>a. /\ UNCHANGED <<dpc, startaddr, job>> /\ job \in JobType /\ HostTypeOK
      /\ h2d \in Seq(Byte) /\ rest \in Seq(Byte) /\ fno \in Nat \ {0} /\ sno \in Nat \ {0}
  BY JobFacts DEF devVars, TypeOK, LinkTypeOK, HostTypeOK, HostStep, HostMode, HostSend,
       HostNextChunk, HostVerify, HostStart, HostHelperLoaded, HostFile, HostSegment,
       HostSegmentDone, HostElfDone, HostBinaryDone, HostTail, HostFinish
<1>b. DOMAIN job.files = 1..Len(job.files) /\ Len(job.files) \in Nat
  BY <1>a, SectionPlaces
<1>0. ASSUME UNCHANGED h2d PROVE UNCHANGED Started /\ UNCHANGED CallComes
  BY <1>0, <1>a DEF Started, CallComes
<1>1. CASE HostMode \/ HostNextChunk \/ HostVerify
  <2>1. /\ UNCHANGED <<h2d, fno, sno, stage, elfsum>>
        /\ \/ hpc = "mode" /\ d2h # <<>> /\ hpc' \in {"mode", "data", "fail"}
           \/ hpc \in {"waitk", "verify"} /\ hpc' \in {"data", "return", "fail"}
    BY <1>1 DEF HostMode, HostNextChunk, HostVerify
  <2>2. hpc = "mode" /\ d2h # <<>> => h2d = <<>>
    BY DEF InStep, Between, Asking, Heading, Declined, Streaming, Chunking, NewChunk, Posting, Summed
  <2>3. UNCHANGED Told
    BY <2>1, <2>2 DEF Told
  <2> QED
    BY <1>0, <1>a, <2>1, <2>2, <2>3, StartKept
<1>2. CASE HostSend
  <2>1. /\ hpc = "data" /\ hpc' \in {"data", "verify", "waitk"}
        /\ UNCHANGED <<fno, sno, stage, elfsum>>
    BY <1>2 DEF HostSend
  <2>2. dpc # "request"
    BY <2>1 DEF InStep, Between, Asking, IsRequest, IsLast, Summed, Heading, Declined,
         Streaming, Chunking, Posting
  <2>3. UNCHANGED Started /\ UNCHANGED Told
    BY <1>a, <2>1, <2>2 DEF Started, CallComes, Told
  <2> QED
    BY <1>a, <2>1, <2>3, StartKept
<1>3. CASE hpc \in {"next", "return"}
  <2>1. dpc = "request"
    BY <1>3 DEF InStep, Between, Asking, IsRequest, IsLast, Summed, Heading, Declined,
         Streaming, Chunking, Posting
  <2>2. d2h = <<>> /\ (hpc = "return" => ret >= 0) /\ (stage \in {"start", "helper"} => h2d = <<>>)
    BY <1>3 DEF InStep, Between, Asking, IsRequest, IsLast, Summed, Heading, Declined,
         Streaming, Chunking, Posting
  <2>3. CASE HostStart
    <3>1. stage = "start" /\ hpc = "next" /\ startaddr = None /\ fno = 1 /\ UNCHANGED fno
      BY <2>3 DEF HostStart, StartInd
    <3>2. CASE job.helper
      <4>1. Download(HostHelper, HelperImage, "helper")
        BY <2>3, <3>2 DEF HostStart
      <4>2. HostHelper \in Long /\ HelperImage \in Seq(Byte) /\ Len(HelperImage) \in Long
        BY HelperFits
      <4>3. stage' = "helper" /\ hpc' # "ok"
        BY <1>a, <2>1, <4>1, <4>2, StartDownload
      <4> QED
        BY <3>1, <4>3 DEF StartInd
    <3>3. CASE ~job.helper
      <4>1. UNCHANGED <<h2d, hpc>> /\ stage' = "files"
        BY <2>3, <3>3 DEF HostStart
      <4>2. Started' = None
        BY <1>a, <3>1 DEF Started
      <4>3. StartAt(job', fno', 1, Started')
        BY <1>a, <3>1, <4>2, NoneSent
      <4> QED
        BY <3>1, <4>1, <4>3, StartPrimed DEF StartInd
    <3> QED
      BY <3>2, <3>3
  <2>4. CASE HostHelperLoaded
    <3>1. /\ h2d' = Append(h2d, ReqCall) /\ hpc' = "next" /\ stage' = "files"
          /\ fno = 1 /\ UNCHANGED fno /\ h2d = <<>>
      <4>1. stage = "helper" /\ UNCHANGED fno
        BY <2>4 DEF HostHelperLoaded
      <4>2. h2d = <<>> /\ fno = 1
        BY <2>2, <4>1 DEF StartInd
      <4>3. ~(hpc' = "fail" /\ UNCHANGED h2d)
        BY <4>2 DEF Lost, Quit
      <4> QED
        BY <2>4, <4>1, <4>2, <4>3 DEF HostHelperLoaded
    <3>2. h2d' = <<ReqCall>>
      BY <3>1
    <3>3. CallComes'
      BY <1>a, <2>1, <3>2 DEF CallComes
    <3>4. StartAt(job', fno', 1, Started')
      BY <1>a, <3>1, <3>3, NoneSent DEF Started
    <3> QED
      BY <3>1, <3>4, StartPrimed DEF StartInd
  <2>5. CASE HostFile
    <3>1. /\ stage = "files" /\ fno <= Len(job.files) /\ UNCHANGED fno
          /\ StartAt(job, fno, 1, Started)
      BY <2>5 DEF HostFile, StartInd
    <3>2. CASE File.kind # "elf" /\ LoadBinary
      BY <1>a, <2>1, <3>1, <3>2, StartBinary
    <3>3. CASE File.kind = "elf" /\ stage' = "elf" /\ sno' = 1 /\ elfsum' = 0 /\ UNCHANGED <<h2d, hpc>>
      <4>1. hpc = "next" /\ UNCHANGED File /\ UNCHANGED Started
        BY <1>0, <1>a, <2>5, <3>1, <3>3 DEF HostFile, File
      <4>2. NextPlace' = 1
        BY <3>3, <4>1 DEF NextPlace, Told, Place
      <4>3. HeaderTold'
        BY <3>3, <4>1 DEF HeaderTold
      <4> QED
        BY <1>a, <3>1, <3>3, <4>1, <4>2, <4>3, StartPrimed DEF StartInd
    <3> QED
      BY <2>5, <3>2, <3>3 DEF HostFile
  <2>6. CASE HostSegment
    <3>1. /\ stage = "elf" /\ hpc = "next" /\ sno <= Len(File.segs) /\ fno <= Len(job.files)
          /\ UNCHANGED <<fno, sno, elfsum>> /\ elfsum >= 0 /\ File.kind = "elf"
          /\ Download(Segment.addr, Segment.data, "elf")
          /\ StartAt(job, fno, NextPlace, Started)
      BY <2>6 DEF HostSegment, HostInd, StartInd
    <3>2. /\ Segment.addr \in Long /\ Segment.data \in Seq(Byte) /\ Len(Segment.data) \in Long
      BY <1>a, <3>1, BlockSizes
    <3>3. Sections(File) = File.segs /\ Sections(File)[sno] = Segment
      BY <3>1 DEF Sections, Segment
    <3>4. fno \in DOMAIN job.files /\ File = job.files[fno]
      BY <1>a, <1>b, <3>1 DEF File
    <3>5. sno \in DOMAIN Sections(File)
      <4>1. DOMAIN Sections(File) = 1..Len(Sections(File)) /\ Len(Sections(File)) \in Nat
        BY <1>a, <3>4, SectionPlaces
      <4> QED
        BY <1>a, <3>1, <3>3, <4>1
    <3>6. NextPlace = sno
      BY <3>1 DEF NextPlace, Told, Place
    <3> QED
      BY <1>a, <2>1, <3>1, <3>2, <3>3, <3>4, <3>5, <3>6, StartSection
  <2>7. CASE HostSegmentDone
    <3>1. /\ stage = "elf" /\ hpc = "return" /\ elfsum' = elfsum + ret /\ sno' = sno + 1
          /\ hpc' = "next" /\ UNCHANGED <<h2d, stage, fno>>
          /\ StartAt(job, fno, NextPlace, Started) /\ elfsum >= 0 /\ File.kind = "elf"
      BY <2>7 DEF HostSegmentDone, StartInd
    <3>2. NextPlace' = NextPlace /\ UNCHANGED File
      BY <1>a, <3>1 DEF NextPlace, Told, Place, File
    <3>3. elfsum' >= 0
      BY <1>a, <2>2, <3>1 DEF HostTypeOK
    <3>4. HeaderTold'
      BY <3>1 DEF HeaderTold
    <3> QED
      BY <1>0, <1>a, <3>1, <3>2, <3>3, <3>4, StartPrimed DEF StartInd
  <2>8. CASE HostElfDone \/ HostBinaryDone
    <3>1. /\ stage \in {"elf", "bin"} /\ fno <= Len(job.files)
          /\ StartAt(job, fno, NextPlace, Started)
          /\ stage = "elf" <=> File.kind = "elf"
          /\ stage = "elf" => elfsum >= 0
      BY <2>8 DEF HostElfDone, HostBinaryDone, HostInd, StartInd
    <3>2. fno \in DOMAIN job.files /\ File = job.files[fno]
      BY <1>a, <1>b, <3>1 DEF File
    <3>3. /\ fno' = fno + 1 /\ stage' = "files" /\ hpc' = "next" /\ UNCHANGED h2d
          /\ NextPlace > Len(Sections(File)) /\ NextPlace \in Nat
      <4>1. CASE HostElfDone
        <5>1. /\ hpc = "next" /\ stage = "elf" /\ sno > Len(File.segs)
              /\ fno' = fno + 1 /\ stage' = "files" /\ UNCHANGED <<h2d, hpc>>
          BY <3>1, <4>1, <1>a DEF HostElfDone, HostTypeOK
        <5>2. NextPlace = sno /\ Sections(File) = File.segs
          BY <3>1, <5>1 DEF NextPlace, Told, Place, Sections
        <5> QED
          BY <1>a, <5>1, <5>2
      <4>2. CASE HostBinaryDone
        <5>1. /\ hpc = "return" /\ stage = "bin" /\ ~(ret < 0)
          BY <2>2, <4>2, <1>a DEF HostBinaryDone, HostTypeOK
        <5>2. NextPlace = 2
          BY <5>1 DEF NextPlace, Told, Place
        <5>3. Len(Sections(File)) = 1
          BY <1>a, <3>1, <3>2, <5>1, SectionPlaces
        <5> QED
          BY <4>2, <5>1, <5>2, <5>3 DEF HostBinaryDone
      <4> QED
        BY <2>8, <4>1, <4>2
    <3>4. StartAt(job, fno + 1, 1, Started)
      BY <1>a, <3>1, <3>2, <3>3, NextFile
    <3> QED
      BY <1>0, <1>a, <3>3, <3>4, StartPrimed DEF StartInd
  <2>9. CASE HostTail
    <3>1. stage = "files" /\ fno > Len(job.files) /\ UNCHANGED fno /\ StartAt(job, fno, 1, Started)
      BY <2>9 DEF HostTail, StartInd
    <3>2. StartOf(job, Started)
      BY <1>a, <3>1, AllSent
    <3>3. ASSUME UNCHANGED Started, stage' \in {"stub", "argv"} PROVE StartInd'
      BY <1>a, <3>2, <3>3, StartPrimed DEF StartInd
    <3>4. CASE Download(HimemBit, Stub(RoundUp(top)), "stub")
      <4>1. RoundUp(top) \in Nat
        BY <1>a DEF RoundUp, LongBytes, HostTypeOK
      <4>2. Stub(RoundUp(top)) \in Seq(Byte) /\ Len(Stub(RoundUp(top))) = HostChunk
        BY <4>1, StubIsBytes, JobAssumption DEF Stub
      <4>3. HostChunk \in Long /\ HimemBit \in Long
        BY SharedAssumption, LoaderAssumption, HubAssumption DEF Long, HimemBit
      <4>4. UNCHANGED Started /\ stage' = "stub"
        BY <1>a, <2>1, <3>4, <4>2, <4>3, StartDownload
      <4> QED
        BY <3>3, <4>4
    <3>5. CASE Download(HostHelper, job.argv, "argv")
      <4>1. HostHelper \in Long
        BY HelperFits
      <4>2. job.argv \in Seq(Byte) /\ Len(job.argv) \in Long
        BY <1>a, SizeAssumption, FitsLong DEF JobType, HostTypeOK
      <4>3. UNCHANGED Started /\ stage' = "argv"
        BY <1>a, <2>1, <3>5, <4>1, <4>2, StartDownload
      <4> QED
        BY <3>3, <4>3
    <3>6. CASE h2d' = Append(h2d, ReqDone) /\ hpc' = "ok" /\ UNCHANGED stage
      <4>1. UNCHANGED CallComes
        <5>1. CASE h2d = <<>>
          <6>1. h2d' = <<ReqDone>> /\ Head(<<ReqDone>>) # ReqCall
            BY <3>6, <5>1 DEF ReqDone, ReqCall
          <6> QED
            BY <5>1, <6>1 DEF CallComes
        <5>2. CASE h2d # <<>>
          <6>1. h2d' # <<>> /\ Head(h2d') = Head(h2d)
            BY <1>a, <3>6, <5>2
          <6> QED
            BY <1>a, <5>2, <6>1 DEF CallComes
        <5> QED
          BY <5>1, <5>2
      <4>2. UNCHANGED Started
        BY <1>a, <4>1 DEF Started
      <4> QED
        BY <1>a, <3>1, <3>2, <3>6, <4>2, StartPrimed DEF StartInd
    <3> QED
      BY <2>9, <3>4, <3>5, <3>6 DEF HostTail
  <2>10. CASE HostFinish
    <3>1. /\ stage \in {"stub", "argv"} /\ UNCHANGED stage /\ hpc' = "ok"
          /\ StartOf(job, Started)
      BY <2>10 DEF HostFinish, StartInd
    <3>2. PICK last : last # <<>> /\ last \in Seq(Byte) /\ Head(last) # ReqCall /\ h2d' = h2d \o last
      <4> DEFINE raw == tx_raw_long(top)
      <4>1. raw \in Seq(Byte)
        BY <1>a, LongIsBytes DEF HostTypeOK
      <4>2. h2d' = h2d \o (<<ReqFlash>> \o raw) \/ h2d' = h2d \o <<ReqDone>>
        BY <2>10 DEF HostFinish
      <4> HIDE DEF raw
      <4>3. ReqFlash \in Byte /\ ReqFlash # ReqCall /\ ReqDone \in Byte /\ ReqDone # ReqCall
        BY DEF ReqFlash, ReqCall, ReqDone, Byte
      <4>4. PICK flashreq : flashreq = <<ReqFlash>> \o raw
        OBVIOUS
      <4>5. flashreq \in Seq(Byte) /\ flashreq # <<>> /\ Head(flashreq) # ReqCall
        BY <4>1, <4>3, <4>4, Prepend
      <4>6. <<ReqDone>> \in Seq(Byte) /\ <<ReqDone>> # <<>> /\ Head(<<ReqDone>>) # ReqCall
        BY <4>3
      <4> QED
        BY <4>2, <4>4, <4>5, <4>6
    <3>3. UNCHANGED CallComes
      <4>1. CASE h2d = <<>>
        <5>1. h2d' = last
          BY <3>2, <4>1
        <5> QED
          BY <3>2, <4>1, <5>1 DEF CallComes
      <4>2. CASE h2d # <<>>
        <5>1. h2d' # <<>> /\ Head(h2d') = Head(h2d)
          BY <1>a, <3>2, <4>2
        <5> QED
          BY <1>a, <4>2, <5>1 DEF CallComes
      <4> QED
        BY <4>1, <4>2
    <3>4. UNCHANGED Started
      BY <1>a, <3>3 DEF Started
    <3> QED
      BY <1>a, <3>1, <3>4, StartPrimed DEF StartInd
  <2> QED
    BY <1>3, <2>3, <2>4, <2>5, <2>6, <2>7, <2>8, <2>9, <2>10
       DEF HostStep, HostMode, HostSend, HostNextChunk, HostVerify
<1> QED
  BY <1>1, <1>2, <1>3 DEF HostStep, HostStart, HostHelperLoaded, HostFile, HostSegment,
       HostSegmentDone, HostElfDone, HostBinaryDone, HostTail, HostFinish

(* When there is nothing to start, any address will do.                    *)
LEMMA NothingToStart ==
  ASSUME NEW j \in JobType, StartOf(j, None), NEW a
  PROVE  StartOf(j, a)
<1>1. ASSUME NEW i \in DOMAIN j.files, NEW k \in DOMAIN Sections(j.files[i])
      PROVE  Sections(j.files[i])[k].addr # None
  <2>1. Sections(j.files[i])[k] \in SegType
    BY SectionPlaces
  <2> QED
    BY <2>1 DEF SegType, Long, None
<1> QED
  BY <1>1 DEF StartOf

(* The loader's steps.                                                     *)
LEMMA DevStarts ==
  ASSUME TypeOK, HostInd, InStep, InStep', ~Lost', StartInd, DevStep, UNCHANGED hostVars
  PROVE  StartInd'
<1>a. /\ UNCHANGED <<hpc, stage, rest, num, mode, ret, job, fno, sno, elfsum>>
      /\ h2d \in Seq(Byte) /\ d2h \in Seq(Byte) /\ rest \in Seq(Byte)
      /\ HostTypeOK /\ job \in JobType
  BY JobFacts DEF hostVars, TypeOK, HostTypeOK, LinkTypeOK
<1>0. ASSUME UNCHANGED startaddr, ~CallComes, ~CallComes', UNCHANGED Told,
             hpc = "mode" => UNCHANGED h2d
      PROVE  StartInd'
  <2>1. UNCHANGED Started
    BY <1>0 DEF Started
  <2> QED
    BY <1>0, <1>a, <2>1, StartKept
<1>1. CASE NextRequest
  <2>1. /\ dpc = "request" /\ h2d # <<>> /\ h2d' = Tail(h2d) /\ d2h' = d2h
        /\ IF Head(h2d) = ReqCall
           THEN dpc' = "wild" \/ startaddr' = None
           ELSE dpc' # "request" /\ UNCHANGED startaddr
    BY <1>1 DEF NextRequest, CallLast, ReqLoad, ReqFlash, ReqDone, ReqCall
  <2>2. UNCHANGED Started
    BY <2>1 DEF Started, CallComes, Lost, Astray
  <2>3. hpc = "mode" => SentAddr(h2d') = SentAddr(h2d)
    BY <1>1, RequestKeeps
  <2>4. hpc = "mode" => h2d' # <<>>
    <3>1. hpc = "mode" => Asking
      BY <2>1 DEF InStep, Between, Heading, Declined, Streaming, Chunking, Posting, Summed
    <3>2. ASSUME hpc = "mode", IsRequest(h2d) PROVE h2d' # <<>>
      <4>1. Len(h2d') = 8 \/ Len(h2d') = 4
        BY <2>1, <3>2 DEF IsRequest, IsHeader, LongBytes
      <4> QED
        BY <4>1
    <3>3. ASSUME hpc = "mode", IsRequest(Tail(h2d)) PROVE h2d' # <<>>
      BY <2>1, <3>3 DEF IsRequest
    <3> QED
      BY <3>1, <3>2, <3>3 DEF Asking
  <2>5. UNCHANGED Told
    BY <1>a, <2>1, <2>4 DEF Told
  <2>6. startaddr = None => startaddr' = None
    BY <2>1 DEF Lost, Astray
  <2> QED
    BY <1>a, <2>1, <2>2, <2>3, <2>5, <2>6, StartKept
<1>2. CASE ReadHeader
  <2> DEFINE addr == ser_rx_long(h2d[1], h2d[2])
  <2>1. /\ dpc = "header" /\ Len(h2d) >= 4 /\ h2d' = SubSeq(h2d, 5, Len(h2d))
        /\ startaddr' = IF startaddr = None THEN addr ELSE startaddr
        /\ dpc' \in {"stream", "chunk", "header"}
    BY <1>2 DEF ReadHeader, LongBytes
  <2>2. hpc = "mode" /\ IsHeader(h2d) /\ InBlock
    BY <2>1
       DEF InStep, Between, Asking, Heading, Declined, Streaming, Chunking, Posting, Summed
  <2>3. h2d' = <<>> /\ Len(h2d) = 4 /\ h2d # <<>>
    <3>1. h2d' = <<>> /\ Len(h2d) = 4
      BY <2>1, <2>2, <1>a, SubSeqProperties DEF IsHeader, LongBytes
    <3> QED
      BY <3>1
  <2>4. SentAddr(h2d) = addr
    <3>1. Len(h2d) - 3 = 1 /\ Len(h2d) - 2 = 2
      BY <2>3
    <3> QED
      BY <3>1 DEF SentAddr
  <2>5. Started = startaddr /\ Started' = startaddr'
    BY <2>1 DEF Started, CallComes
  <2>6. CASE stage = "helper"
    BY <1>a, <2>2, <2>6 DEF StartInd
  <2>7. CASE stage \in {"elf", "bin"}
    <3>1. /\ StartAt(job, fno, NextPlace, Started) /\ HeaderTold
          /\ stage = "elf" <=> File.kind = "elf"
          /\ stage = "elf" => elfsum >= 0
          /\ Place \in DOMAIN Sections(File)
      BY <2>2, <2>7 DEF StartInd
    <3>2. fno \in DOMAIN job.files /\ File = job.files[fno] /\ Place \in Nat
      <4>1. DOMAIN job.files = 1..Len(job.files) /\ Len(job.files) \in Nat
        BY <1>a, SectionPlaces
      <4>2. fno \in DOMAIN job.files
        BY <1>a, <2>7, <4>1 DEF HostInd, HostTypeOK
      <4> QED
        BY <1>a, <4>2 DEF File, Place, HostTypeOK
    <3>3. NextPlace = Place
      BY <2>2, <2>3 DEF NextPlace, Told
    <3>4. Sections(File)[Place].addr = addr /\ Sections(File)[Place].data # <<>>
      BY <2>2, <2>3, <2>4, <3>1 DEF HeaderTold
    <3>5. StartAt(job, fno, Place + 1, startaddr')
      BY <1>a, <2>1, <2>5, <3>1, <3>2, <3>3, <3>4, TakeFirst
    <3>6. UNCHANGED File /\ UNCHANGED Place
      BY <1>a DEF File, Place
    <3>7. NextPlace' = Place + 1
      BY <1>a, <2>2, <2>3, <3>6 DEF NextPlace, Told
    <3>8. HeaderTold'
      BY <2>3 DEF HeaderTold
    <3> QED
      BY <1>a, <2>2, <2>5, <2>7, <3>1, <3>5, <3>6, <3>7, <3>8, StartPrimed DEF StartInd
  <2>8. CASE stage \in {"stub", "argv"}
    <3>1. StartOf(job, startaddr)
      BY <2>5, <2>8 DEF StartInd
    <3>2. StartOf(job, startaddr')
      BY <1>a, <2>1, <3>1, NothingToStart
    <3> QED
      BY <1>a, <2>2, <2>5, <2>8, <3>2, StartPrimed DEF StartInd
  <2> QED
    BY <2>2, <2>6, <2>7, <2>8 DEF InBlock
<1>3. CASE StreamByte
  <2>1. /\ dpc = "stream" /\ h2d # <<>> /\ UNCHANGED startaddr
    BY <1>3 DEF StreamByte
  <2>2. hpc \in {"data", "verify"}
    BY <2>1
       DEF InStep, Between, Asking, Heading, Declined, Streaming, Chunking, Posting, Summed
  <2>3. ~CallComes /\ ~CallComes'
    BY <2>1, <2>2, <1>a DEF CallComes, InStep, Between, Asking, IsRequest, Heading, Declined, Streaming,
         Chunking, Posting, Summed
  <2>4. UNCHANGED Told
    BY <1>a, <2>2 DEF Told
  <2> QED
    BY <1>0, <2>1, <2>2, <2>3, <2>4
<1>4. CASE ChunkByte
  <2>1. /\ dpc = "chunk" /\ h2d # <<>> /\ UNCHANGED startaddr /\ dpc' \in {"post", "chunk"}
    BY <1>4 DEF ChunkByte
  <2>2. hpc \notin {"next", "mode"}
    BY <2>1
       DEF InStep, Between, Asking, Heading, Declined, Streaming, Chunking, NewChunk, Posting, Summed
  <2>3. UNCHANGED Told
    BY <1>a, <2>2 DEF Told
  <2> QED
    BY <1>0, <2>1, <2>2, <2>3 DEF CallComes
<1>5. CASE PostChunk \/ ChunksDone \/ HimemError
  <2>1. /\ UNCHANGED <<h2d, startaddr>> /\ dpc \in {"post", "drain", "postF", "exec"}
    BY <1>5 DEF PostChunk, ChunksDone, HimemError
  <2>2. h2d = <<>>
    BY <2>1
       DEF InStep, Between, Asking, Heading, Declined, Streaming, Chunking, Posting, Summed
  <2>3. UNCHANGED Told
    BY <1>a, <2>1 DEF Told
  <2> QED
    BY <1>0, <2>1, <2>2, <2>3 DEF CallComes
<1>6. CASE ReadFlashLength
  <2>1. dpc = "flashlen" /\ dpc' = "postF" /\ UNCHANGED startaddr
    BY <1>6 DEF ReadFlashLength
  <2>2. hpc = "ok"
    BY <2>1
       DEF InStep, Between, Asking, Heading, Declined, Streaming, Chunking, Posting, Summed
  <2>3. UNCHANGED Told
    BY <1>a, <2>2 DEF Told
  <2> QED
    BY <1>0, <2>1, <2>2, <2>3 DEF CallComes
<1>7. CASE PostFlashCopy \/ DoneAndExec
  BY <1>7 DEF PostFlashCopy, DoneAndExec,
       InStep, Between, Asking, Heading, Declined, Streaming, Chunking, Posting, Summed
<1> QED
  BY <1>1, <1>2, <1>3, <1>4, <1>5, <1>6, <1>7 DEF DevStep

(* A request to start the application comes when the loader has all it     *)
(* needs to know; from then on its address stays.                          *)
LEMMA LaunchStep ==
  ASSUME TypeOK, Pace, StartOK, [Next]_vars
  PROVE  (dpc \in {"flashlen", "postF", "exec", "running"} => StartOf(job, startaddr))'
<1>a. UNCHANGED job
  BY DEF Next, Host, HostStep, HostMode, HostSend, HostNextChunk, HostVerify, HostStart,
       HostHelperLoaded, HostFile, HostSegment, HostSegmentDone, HostElfDone, HostBinaryDone,
       HostTail, HostFinish, Device, Cog, Timeout, HostTimeout, HostShortRead, LinkFault,
       hostVars, vars
<1>1. CASE Device /\ NextRequest
  <2>1. dpc = "request" /\ h2d # <<>>
    BY <1>1 DEF NextRequest
  <2>2. InStep /\ StartInd
    BY <2>1 DEF Pace, StartOK, Lost, Astray, Quit
  <2>3. ASSUME dpc' \in {"flashlen", "postF", "exec", "running"} PROVE StartOf(job', startaddr')
    <3>1. Head(h2d) \in {ReqFlash, ReqDone} /\ UNCHANGED startaddr
      BY <1>1, <2>3 DEF NextRequest, ReqLoad, ReqFlash, ReqDone, ReqCall
    <3>2. hpc = "ok"
      BY <2>1, <2>2, <3>1 DEF InStep, Between, Ahead, Asking, IsRequest, Heading, Declined,
           Streaming, Chunking, Posting, Summed, ReqLoad, ReqFlash, ReqDone, ReqCall
    <3>3. StartOf(job, Started) /\ Started = startaddr
      BY <2>2, <3>1, <3>2 DEF StartInd, Started, CallComes, ReqFlash, ReqDone, ReqCall
    <3> QED
      BY <1>a, <3>1, <3>3
  <2> QED
    BY <2>3, StartPrimed
<1>2. CASE Device /\ ReadHeader
  BY <1>2 DEF ReadHeader
<1>3. CASE \/ Host \/ Cog \/ Timeout \/ LinkFault \/ UNCHANGED vars
           \/ Device /\ ~NextRequest /\ ~ReadHeader
  <2>1. UNCHANGED startaddr
    BY <1>3 DEF Host, Cog, Timeout, LinkFault, devVars, vars, Device, DevStep, StreamByte, ChunkByte,
         PostChunk, ChunksDone, HimemError, ReadFlashLength, PostFlashCopy, DoneAndExec
  <2>2. dpc' \in {"flashlen", "postF", "exec", "running"} =>
          dpc \in {"flashlen", "postF", "exec", "running"}
    BY <1>3 DEF Host, Cog, Timeout, LinkFault, devVars, vars, Device, DevStep, StreamByte, ChunkByte,
         PostChunk, ChunksDone, HimemError, ReadFlashLength, PostFlashCopy, DoneAndExec
  <2> QED
    BY <1>a, <2>1, <2>2, StartPrimed DEF StartOK
<1> QED
  BY <1>1, <1>2, <1>3 DEF Next, Device

(* Every step keeps the start address.                                     *)
LEMMA StartStep ==
  ASSUME Prompt, TypeInd, SectionsLoad, Pace, StartOK, [Next]_vars
  PROVE  StartOK'
<1>0. TypeOK /\ HostInd
  BY DEF TypeInd
<1>1. (dpc \in {"flashlen", "postF", "exec", "running"} => StartOf(job, startaddr))'
  BY <1>0, LaunchStep
<1>2. CASE Lost
  BY <1>0, <1>1, <1>2, LostForGood DEF StartOK
<1>3. CASE ~Lost /\ ~Lost'
  <2>0. InStep /\ InStep' /\ StartInd
    <3>1. Pace'
      BY PaceStep
    <3> QED
      BY <1>3, <3>1 DEF Pace, Lost, StartOK
  <2>1. CASE Host
    BY <1>0, <1>1, <1>3, <2>0, <2>1, HostStarts DEF Host, StartOK
  <2>2. CASE Device
    BY <1>0, <1>1, <1>3, <2>0, <2>2, DevStarts DEF Device, StartOK
  <2>3. CASE Cog \/ UNCHANGED vars
    <3>1. UNCHANGED <<dpc, h2d, startaddr, job, fno, sno, stage, elfsum, hpc>>
      BY <2>3 DEF Cog, linkVars, devVars, hostVars, vars
    <3>2. UNCHANGED Started /\ UNCHANGED Told /\ UNCHANGED SentAddr(h2d)
      BY <3>1 DEF Started, CallComes, Told, SentAddr
    <3> QED
      BY <1>1, <2>0, <3>1, <3>2, StartKept, StartPrimed DEF StartOK
  <2>4. CASE Timeout
    <3>1. hpc' = "fail" \/ (hpc' = "return" /\ ret' = -1)
      BY <2>4 DEF Timeout, HostTimeout, HostShortRead
    <3>2. ~InStep'
      BY <3>1 DEF InStep, Between, Asking, IsRequest, Heading, Declined, Streaming, Chunking, NewChunk,
           Posting, Summed
    <3> QED
      BY <2>0, <3>2
  <2>5. CASE LinkFault
    <3>1. /\ UNCHANGED <<dpc, hpc, startaddr, job, fno, sno, stage, elfsum>>
          /\ dpc \in {"stream", "chunk"} /\ h2d # <<>>
      BY <2>5 DEF LinkFault, devVars, hostVars
    <3>2. hpc # "mode"
      BY <2>0, <3>1
         DEF InStep, Between, Asking, Heading, Declined, Streaming, Chunking, NewChunk, Posting, Summed
    <3>3. UNCHANGED Started /\ UNCHANGED Told
      BY <3>1, <3>2 DEF Started, CallComes, Told
    <3> QED
      BY <1>1, <2>0, <3>1, <3>2, <3>3, StartKept DEF StartOK
  <2> QED
    BY <2>1, <2>2, <2>3, <2>4, <2>5 DEF Next
<1>4. CASE Lost'
  BY <1>1, <1>4 DEF StartOK
<1> QED
  BY <1>2, <1>3, <1>4

(* The application starts at the first section of the command line that    *)
(* has anything in it, for every command line, helper and start value of   *)
(* the memories, and whatever the line does, as long as no section of an   *)
(* ELF file fails.                                                         *)
THEOREM StartCorrect == Prompt => (Spec /\ []SectionsLoad => []StartsFirstFile)
<1> SUFFICES ASSUME Prompt PROVE Spec /\ []SectionsLoad => []StartsFirstFile
  OBVIOUS
<1> DEFINE Inv == TypeInd /\ Pace /\ StartOK
<1>1. Init => Inv
  <2> SUFFICES ASSUME Init PROVE Inv
    OBVIOUS
  <2>1. StartOK
    BY DEF Init, HimemInit, DevInit, HostInit, StartOK, StartInd
  <2> QED
    BY <2>1, TypeInit, PaceInit
<1>2. Inv /\ SectionsLoad /\ [Next]_vars => Inv'
  BY TypeStep, PaceStep, StartStep
<1>3. Inv => StartsFirstFile
  BY DEF StartOK, StartsFirstFile
<1> QED
  BY <1>1, <1>2, <1>3, PTL DEF Spec

(* Without ELF files nothing is assumed.                                   *)
COROLLARY RawStarts == Prompt /\ RawJobs => (Spec => []StartsFirstFile)
<1> SUFFICES ASSUME Prompt, RawJobs PROVE Spec => []StartsFirstFile
  OBVIOUS
<1>1. Spec => []SectionsLoad
  BY RawLoads
<1>2. Spec /\ []SectionsLoad => []StartsFirstFile
  BY StartCorrect
<1> QED
  BY <1>1, <1>2, PTL
=============================================================================
