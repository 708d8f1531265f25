----------------------------- MODULE MainLoader -----------------------------
(***************************************************************************)
(* The fast loader (MainLoader_chip.spin2), the program the ROM loader     *)
(* starts on cog 0: it answers the host's requests, stores what it         *)
(* receives in hub memory, and hands data for high memory to the helper    *)
(* cog of HimemFlash through two ping-pong buffers at the top of hub       *)
(* memory.  It starts here where autobaud has succeeded and the first      *)
(* checksum reply has been sent (label next_request).                      *)
(*                                                                         *)
(* dpc is the place in the code:                                           *)
(*    request   next_request, waiting for a request character              *)
(*    header    read_file, waiting for address and size                    *)
(*    stream    receiving a file for hub memory                            *)
(*    chunk     .buf_lp, receiving a chunk into a ping-pong buffer         *)
(*    post      send_mbox with a full buffer                               *)
(*    drain     chunks_done, waiting for the last chunk to be written      *)
(*    flashlen  copy_hub_to_flash, waiting for the length                  *)
(*    postF     send_mbox with the copy-hub-to-flash request               *)
(*    exec      done_and_exec, send_mbox with the shutdown request         *)
(*    running   coginit #0,startaddr: the application has started          *)
(*    error     the LED loop of a bad request                              *)
(*    wild      running code that is neither loader nor application        *)
(***************************************************************************)
EXTENDS HimemFlash

CONSTANTS
  ChunkSize,   \* bytes of a ping-pong buffer  (1024 in the code)
  BufBase,     \* the lower buffer             ($7F800 in the code)
  HelperBase,  \* where the helper is loaded   ($FC000 in the code)
  ErrText      \* the helper's error message

ASSUME LoaderAssumption ==
  /\ ChunkSize \in Nat \ {0} /\ BufBase \in Nat /\ HelperBase \in Nat
  /\ ChunkSize % PageSize = 0
  /\ MailBase + 2 < BufBase /\ HelperBase <= MailBase
  /\ BufBase + 2 * ChunkSize <= HubSize
  /\ HubSize < HimemBit
  /\ ErrText \in Seq(Byte)

VARIABLES
  dpc,
  startaddr,  \* address of the first download, or None
  mailbox,    \* address of the helper's mailbox, 0 when there is no helper
  loadaddr, filesize, chksum,
  pingpong,   \* the buffer being filled
  ptrb,       \* where the next byte goes
  pb          \* bytes still to come in this chunk

None == -1

devVars == <<dpc, startaddr, mailbox, loadaddr, filesize, chksum, pingpong, ptrb, pb>>
memVars == <<hub, mbox, flash, cog, params>>

DevStates == {"request", "header", "stream", "chunk", "post", "drain",
              "flashlen", "postF", "exec", "running", "error", "wild"}

Ping == BufBase
Pong == BufBase + ChunkSize
(* xor pingpong, onek *)
OtherAdd(buf) == buf + ChunkSize
Other(buf) == IF buf = Ping THEN Pong ELSE Ping

bufsiz(n) == IF n < ChunkSize THEN n ELSE ChunkSize

(* Where copy_hub_to_flash puts the image: $8000_0400, after the stub. *)
FlashImageUnaligned == HimemBit + ChunkSize + 1
FlashImage == HimemBit + ChunkSize

(* djnz: the count after one more byte, which wraps at 0, and the loop end. *)
djnz(n) == (n - 1) % (2 * HimemBit)
Exhausted(n) == n = 0

Reply(bytes) == d2h' = d2h \o bytes

-----------------------------------------------------------------------------
(* next_request *)

(* call_last: the entry point of the helper starts its cog and returns the *)
(* mailbox in ptra.                                                        *)
CallLastKeepsStart == mailbox' = MailBase /\ cog' = "init" /\ UNCHANGED startaddr
CallLast == mailbox' = MailBase /\ cog' = "init" /\ startaddr' = None

NextRequest ==
  /\ dpc = "request"
  /\ h2d # <<>>
  /\ h2d' = Tail(h2d)
  /\ LET rxbyte == Head(h2d)
     IN dpc' = CASE rxbyte = ReqLoad  -> "header"
                 [] rxbyte = ReqFlash -> "flashlen"
                 [] rxbyte = ReqDone  -> "exec"
                 [] rxbyte = ReqCall  -> IF startaddr = HelperBase
                                         THEN "request" ELSE "wild"
                 [] OTHER             -> "error"
  /\ IF Head(h2d) = ReqCall /\ startaddr = HelperBase
     THEN CallLast
     ELSE UNCHANGED <<startaddr, mailbox, cog>>
  /\ UNCHANGED <<d2h, hub, mbox, flash, params,
                 loadaddr, filesize, chksum, pingpong, ptrb, pb>>

(* read_file, then the branch on bit 31 of the address; every branch that  *)
(* answers with an error comes back to read_file.                          *)
ReadHeader ==
  /\ dpc = "header"
  /\ Len(h2d) >= 2 * LongBytes
  /\ h2d' = SubSeq(h2d, 2 * LongBytes + 1, Len(h2d))
  /\ LET addr == ser_rx_long(h2d[1], h2d[2])
         size == ser_rx_long(h2d[3], h2d[4])
     IN /\ loadaddr' = addr
        /\ filesize' = size
        /\ startaddr' = IF startaddr = None THEN addr ELSE startaddr
        /\ \/ /\ addr < HimemBit                       \* .mainloop
              /\ Reply(<<RepStream>>)
              /\ dpc' = "stream"
              /\ ptrb' = addr
              /\ UNCHANGED <<pingpong, pb>>
           \/ /\ addr >= HimemBit /\ mailbox # 0       \* use_himem, next_buffer
              /\ Reply(<<RepChunk>>)
              /\ dpc' = "chunk"
              /\ pingpong' = Ping
              /\ ptrb' = Ping
              /\ pb' = bufsiz(size)
           \/ /\ addr >= HimemBit /\ mailbox = 0       \* no_himem
              /\ Reply(<<RepNoHigh>>)
              /\ dpc' = "header"
              /\ UNCHANGED <<ptrb, pingpong, pb>>
  /\ chksum' = 0
  /\ UNCHANGED <<mailbox>> /\ UNCHANGED memVars

(* One turn of .mainloop: store a byte; after the last, done_file. *)
StreamByte ==
  /\ dpc = "stream"
  /\ h2d # <<>>
  /\ h2d' = Tail(h2d)
  /\ StoreByte(ptrb, Head(h2d))
  /\ ptrb' = ptrb + 1
  /\ chksum' = (chksum + Head(h2d)) % 256
  /\ filesize' = djnz(filesize)
  /\ IF Exhausted(filesize')
     THEN dpc' = "request" /\ Reply(send_chksum(chksum'))
     ELSE UNCHANGED <<dpc, d2h>>
  /\ UNCHANGED <<flash, cog, params, startaddr, mailbox, loadaddr, pingpong, pb>>

(* One turn of .buf_lp; after the chunk's last byte, send_mbox. *)
ChunkByte ==
  /\ dpc = "chunk"
  /\ h2d # <<>>
  /\ h2d' = Tail(h2d)
  /\ StoreByte(ptrb, Head(h2d))
  /\ ptrb' = ptrb + 1
  /\ chksum' = (chksum + Head(h2d)) % 256
  /\ pb' = djnz(pb)
  /\ dpc' = IF Exhausted(pb') THEN "post" ELSE "chunk"
  /\ UNCHANGED <<d2h, flash, cog, params,
                 startaddr, mailbox, loadaddr, filesize, pingpong>>

-----------------------------------------------------------------------------
(* send_mbox and its three callers.  Each waits while the mailbox is       *)
(* negative and goes to himem_error when it is positive.                   *)

MailboxNotError == mbox.word <= 0
MailboxFree  == mbox.word = 0
MailboxError == mbox.word > 0

SendMailbox(word, addr, size) ==
  mbox' = [word |-> word, flash |-> addr, size |-> size]

PostChunk ==
  /\ dpc = "post"
  /\ MailboxFree
  /\ SendMailbox(pingpong - Burst, loadaddr, bufsiz(filesize))
  /\ loadaddr' = loadaddr + bufsiz(filesize)
  /\ filesize' = filesize - bufsiz(filesize)
  /\ IF filesize' # 0
     THEN /\ pingpong' = Other(pingpong)               \* next_buffer
          /\ ptrb' = pingpong'
          /\ pb' = bufsiz(filesize')
          /\ Reply(<<RepChunk>>)
          /\ dpc' = "chunk"
     ELSE /\ dpc' = "drain"
          /\ UNCHANGED <<pingpong, ptrb, pb, d2h>>
  /\ UNCHANGED <<h2d, hub, flash, cog, params, startaddr, mailbox, chksum>>

ChunksDone ==
  /\ dpc = "drain"
  /\ MailboxFree
  /\ Reply(send_chksum(chksum))
  /\ dpc' = "request"
  /\ UNCHANGED <<h2d, startaddr, mailbox, loadaddr, filesize, chksum,
                 pingpong, ptrb, pb>>
  /\ UNCHANGED memVars

HimemError ==
  /\ dpc \in {"post", "drain", "postF"} \/ (dpc = "exec" /\ mailbox # 0)
  /\ MailboxError
  /\ Reply(<<RepError>> \o ErrText)
  /\ dpc' = "header"
  /\ chksum' = 0
  /\ UNCHANGED <<h2d, startaddr, mailbox, loadaddr, filesize, pingpong, ptrb, pb>>
  /\ UNCHANGED memVars

-----------------------------------------------------------------------------
(* copy_hub_to_flash and done_and_exec *)

ReadFlashLength ==
  /\ dpc = "flashlen"
  /\ Len(h2d) >= LongBytes
  /\ h2d' = SubSeq(h2d, LongBytes + 1, Len(h2d))
  /\ filesize' = ser_rx_long(h2d[1], h2d[2])           \* rxlong
  /\ dpc' = "postF"
  /\ UNCHANGED <<d2h, startaddr, mailbox, loadaddr, chksum, pingpong, ptrb, pb>>
  /\ UNCHANGED memVars

PostFlashCopy ==
  /\ dpc = "postF"
  /\ mailbox # 0
  /\ MailboxFree
  /\ SendMailbox(0 - Burst, FlashImage, filesize)
  /\ dpc' = "exec"
  /\ UNCHANGED <<h2d, d2h, hub, flash, cog, params, startaddr, mailbox,
                 loadaddr, filesize, chksum, pingpong, ptrb, pb>>

DoneAndExec ==
  /\ dpc = "exec"
  /\ \/ mailbox = 0 /\ UNCHANGED mbox
     \/ mailbox # 0 /\ MailboxFree /\ mbox' = [mbox EXCEPT !.word = -1]
  /\ dpc' = "running"
  /\ UNCHANGED <<h2d, d2h, hub, flash, cog, params, startaddr, mailbox,
                 loadaddr, filesize, chksum, pingpong, ptrb, pb>>

(* The registers of the loader's cog. *)
DevTypeOK ==
  /\ dpc \in DevStates
  /\ startaddr \in Long \cup {None} /\ mailbox \in {0, MailBase}
  /\ loadaddr \in Nat /\ filesize \in Long /\ chksum \in Byte
  /\ pingpong \in {Ping, Pong} /\ ptrb \in Nat /\ pb \in Long

DevStep ==
  \/ NextRequest \/ ReadHeader \/ StreamByte \/ ChunkByte
  \/ PostChunk \/ ChunksDone \/ HimemError
  \/ ReadFlashLength \/ PostFlashCopy \/ DoneAndExec

DevInit ==
  /\ dpc = "request"
  /\ startaddr = None
  /\ mailbox = 0
  /\ loadaddr = 0 /\ filesize = 0 /\ chksum = 0
  /\ pingpong = Ping /\ ptrb = Ping /\ pb = 0
=============================================================================
