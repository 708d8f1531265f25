--------------------------------- MODULE Sdmm ---------------------------------
(***************************************************************************)
(* The SD card driver (sdmm.c): disk_initialize, disk_read, disk_write and *)
(* disk_ioctl, called in any order by the file system, over a card that    *)
(* may be slow, refuse, be garbled or be taken out.  A step is one command *)
(* with its answer, or one data block; every wait of the driver ends in    *)
(* time or, as a fault, does not.  The card is not in the repository: what *)
(* each command does to it and what it answers is that of an SD or MMC     *)
(* card in SPI mode that keeps to the SD specification.                    *)
(***************************************************************************)
EXTENDS Integers, Sequences, FiniteSets, FiniteSetsExt

CONSTANTS
  Kinds,      \* which cards there are, of SD2HC, SD2, SD1, MMC
  Sectors,    \* how many sectors a card has
  SectorSize, \* bytes of a sector           (512)
  MaxWarm,    \* the most times a card answers that it is not ready yet
  Tries,      \* how often initialisation asks whether the card is ready (1000)
  MaxCalls, MaxFaults,   \* bounds
  Sizes       \* the size fields of cards, for GET_SECTOR_COUNT

ASSUME CardAssumption ==
  /\ Kinds \subseteq {"SD2HC", "SD2", "SD1", "MMC"}
  /\ {Sectors, SectorSize} \subseteq Nat \ {0} /\ MaxWarm \in Nat

(* Version, C_SIZE, C_SIZE_MULT and READ_BL_LEN, in the bits the register  *)
(* has for them.  The largest C_SIZE its bits can hold is not the size of  *)
(* any card: 2^32 sectors, and the driver's DWORD would say none.          *)
ASSUME RegisterAssumption ==
  \A z \in Sizes :
    \/ z[1] = 2 /\ z[2] \in 0..2^22 - 2
    \/ z[1] = 1 /\ z[2] \in 0..2^12 - 1 /\ z[3] \in 0..7 /\ z[4] \in 9..11

-----------------------------------------------------------------------------
(* The card *)

(* Commands, and the first byte of the answers. *)
CMD0 == "GO_IDLE_STATE"
CMD1 == "SEND_OP_COND"
CMD8 == "SEND_IF_COND"
CMD9 == "SEND_CSD"
CMD12 == "STOP_TRANSMISSION"
CMD16 == "SET_BLOCKLEN"
CMD17 == "READ_SINGLE_BLOCK"
CMD18 == "READ_MULTIPLE_BLOCK"
CMD24 == "WRITE_BLOCK"
CMD25 == "WRITE_MULTIPLE_BLOCK"
CMD55 == "APP_CMD"
CMD58 == "READ_OCR"
ACMD23 == "SET_WR_BLK_ERASE_COUNT"
ACMD41 == "SD_SEND_OP_COND"
AppCommands == {ACMD23, ACMD41}

HCS == 2^30   \* argument of ACMD41: the host takes block addresses

Ready == 0
Idle == 1
Illegal == 5
BadAddress == 64
NoAnswer == 255

(* A card: "native" until CMD0, "idle" until it has warmed up, "ready";    *)
(* xfer is the data phase it is in; what it has accepted waits in pending  *)
(* while it is busy.                                                       *)
Fresh(kind, warm, content) ==
  [kind |-> kind, mode |-> "native", warm |-> warm, app |-> FALSE,
   xfer |-> "none", at |-> 0, busy |-> FALSE, pending |-> <<>>, store |-> content]
Absent == Fresh("none", 0, [s \in 0..Sectors - 1 |-> 0])

Says(c, r) == [card |-> [c EXCEPT !.app = FALSE], r |-> r]
Plain(c) == IF c.mode = "ready" THEN Ready ELSE Idle
(* Cards of up to 2 GB take byte addresses. *)
SectorOf(c, arg) == IF c.kind = "SD2HC" THEN arg ELSE arg \div SectorSize
Aligned(c, arg) == c.kind = "SD2HC" \/ arg % SectorSize = 0

WarmsUp(c) ==
  IF c.warm > 0 THEN Says([c EXCEPT !.warm = @ - 1], Idle)
                ELSE Says([c EXCEPT !.mode = "ready"], Ready)
Transfers(c, xfer, arg) ==
  IF c.mode = "ready" /\ Aligned(c, arg) /\ SectorOf(c, arg) < Sectors
  THEN Says([c EXCEPT !.xfer = xfer, !.at = SectorOf(c, arg)], Ready)
  ELSE Says(c, BadAddress)

(* What command cmd does to card c, and what c answers. *)
Obeys(c, cmd, arg) ==
  CASE c.kind = "none" -> Says(c, NoAnswer)
    [] c.kind # "none" /\ cmd = CMD0 ->
         Says([c EXCEPT !.mode = "idle", !.xfer = "none", !.pending = <<>>], Idle)
    [] c.mode = "native" /\ cmd # CMD0 -> Says(c, NoAnswer)
    [] cmd = CMD12 /\ c.xfer = "reads" -> Says([c EXCEPT !.xfer = "none"], Ready)
    [] OTHER ->
       IF c.xfer # "none" THEN Says(c, NoAnswer)      \* it takes it for data, or is sending
       ELSE CASE cmd = CMD8 -> Says(c, IF c.kind \in {"SD2HC", "SD2"} THEN Idle ELSE Illegal)
              [] cmd = CMD55 -> IF c.kind = "MMC" THEN Says(c, Illegal)
                                ELSE [card |-> [c EXCEPT !.app = TRUE], r |-> Plain(c)]
              [] cmd = ACMD41 ->
                   IF ~c.app THEN Says(c, Illegal)
                   ELSE IF c.kind = "SD2HC" /\ arg # HCS THEN Says(c, Idle) ELSE WarmsUp(c)
              [] cmd = ACMD23 -> Says(c, IF c.app THEN Ready ELSE Illegal)
              [] cmd = CMD1 -> IF c.kind = "MMC" THEN WarmsUp(c) ELSE Says(c, Illegal)
              [] cmd = CMD58 -> Says(c, Plain(c))
              [] cmd = CMD16 -> Says(c, IF c.mode = "ready" THEN Ready ELSE Illegal)
              [] cmd = CMD9 -> IF c.mode = "ready" THEN Says([c EXCEPT !.xfer = "csd"], Ready)
                                                   ELSE Says(c, Illegal)
              [] cmd = CMD17 -> Transfers(c, "read", arg)
              [] cmd = CMD18 -> Transfers(c, "reads", arg)
              [] cmd = CMD24 -> Transfers(c, "write", arg)
              [] cmd = CMD25 -> Transfers(c, "writes", arg)
              [] cmd = CMD12 -> Says(c, Illegal)

HasBlock(c) == c.xfer = "csd" \/ (c.xfer \in {"read", "reads"} /\ c.at < Sectors)
WantsBlock(c) == c.xfer \in {"write", "writes"} /\ c.at < Sectors

(* A data block it sends, and after it. *)
Sent(c) == IF c.xfer = "read" \/ c.xfer = "csd" THEN [c EXCEPT !.xfer = "none"]
           ELSE [c EXCEPT !.at = @ + 1]
(* One it accepts: it is busy until that is programmed. *)
Accepted(c, data) ==
  [c EXCEPT !.pending = Append(@, <<c.at, data>>), !.busy = TRUE,
            !.xfer = IF @ = "write" THEN "none" ELSE @, !.at = @ + 1]
Refused(c) == [c EXCEPT !.xfer = IF @ = "write" THEN "none" ELSE @]
Stopped(c) == [c EXCEPT !.xfer = "none", !.busy = TRUE]
Programmed(c) ==
  [c EXCEPT !.busy = FALSE, !.pending = <<>>,
            !.store = [s \in DOMAIN @ |-> IF \E i \in DOMAIN c.pending : c.pending[i][1] = s
                                          THEN (CHOOSE p \in {c.pending[i] : i \in DOMAIN c.pending} : p[1] = s)[2]
                                          ELSE @[s]]]

(* The register that tells its size: C_SIZE (and for the older cards two   *)
(* more fields) in bytes 5 to 10.                                          *)
CSD(version, size, mult, len) ==
  IF version = 2
  THEN [i \in 0..15 |-> CASE i = 0 -> 64 [] i = 7 -> (size \div 65536) % 64
                          [] i = 8 -> (size \div 256) % 256 [] i = 9 -> size % 256 [] OTHER -> 0]
  ELSE [i \in 0..15 |-> CASE i = 5 -> 80 + len [] i = 6 -> 128 + (size \div 1024)
                          [] i = 7 -> (size \div 4) % 256 [] i = 8 -> (size % 4) * 64 + 45
                          [] i = 9 -> 180 + mult \div 2 [] i = 10 -> (mult % 2) * 128 + 63 [] OTHER -> 0]
Capacity(version, size, mult, len) ==   \* in blocks of 512 bytes
  IF version = 2 THEN (size + 1) * 1024
  ELSE ((size + 1) * 2^(mult + 2 + len)) \div 512

-----------------------------------------------------------------------------
(* The driver *)

VARIABLES
  card,
  Stat,       \* STA_NOINIT or 0
  CardType,   \* what initialisation found: "none", "SD2", "SD1" or "MMC", block addressing
  pc,         \* where the call is, "out" between calls
  call,       \* the call: its name, first sector and count
  count,      \* sectors it has still to transfer
  tmr,        \* tries left
  buff,       \* what it has read
  res,        \* its result
  calls, faults,
  late,       \* history: an answer was given up that may still come, or STOP went unheard
  swapped,    \* history: the card was changed after it was initialised
  may         \* history: what each sector may hold, for all the caller was told

vars == <<card, Stat, CardType, pc, call, count, tmr, buff, res, calls, faults, late, swapped, may>>
data == <<buff, may>>
bound == <<calls, swapped>>

NoType == [is |-> "none", block |-> FALSE]

-----------------------------------------------------------------------------
(* Commands. *)

(* Sending a command waits, half a second at most, for a card that is not  *)
(* busy; only STOP_TRANSMISSION does not.  The command may not come        *)
(* through, nor the answer.                                                *)
Fails(obeyed, r) ==
  /\ faults < MaxFaults /\ faults' = faults + 1 /\ r = NoAnswer
  /\ \/ card.busy /\ UNCHANGED card /\ late' = TRUE
     \/ UNCHANGED card /\ late' = (late \/ card.xfer # "none")
     \/ ~card.busy /\ card' = obeyed /\ late' = TRUE

Commanded(outcome, r) ==
  \/ ~card.busy /\ r = outcome.r /\ card' = outcome.card /\ UNCHANGED <<faults, late>>
  \/ Fails(outcome.card, r)

send_cmd(cmd, arg, r) == Commanded(Obeys(card, cmd, arg), r)

(* An application command is two: CMD55 announces it. *)
AppCmd(cmd, arg, r) ==
  LET announced == Obeys(card, CMD55, 0)
  IN  Commanded(IF announced.r > 1 THEN announced ELSE Obeys(announced.card, cmd, arg), r)
Sends(cmd, arg, r) == IF cmd \in AppCommands THEN AppCmd(cmd, arg, r) ELSE send_cmd(cmd, arg, r)

Answers == {Ready, Idle, Illegal, BadAddress, NoAnswer}
Goto(label) == pc' = label
Return(result) == pc' = "out" /\ res' = result

-----------------------------------------------------------------------------
(* disk_initialize *)

Found(type) ==
  /\ CardType' = type
  /\ Stat' = IF type = NoType THEN "STA_NOINIT" ELSE "0"
  /\ Return(IF type = NoType THEN "STA_NOINIT" ELSE "OK")
  /\ swapped' = (swapped /\ type = NoType)
  /\ may' = IF swapped /\ ~swapped' THEN [s \in DOMAIN may |-> {card.store[s]}] ELSE may
  /\ UNCHANGED tmr
Keep == UNCHANGED <<Stat, CardType, res, swapped, may>>

GoIdle(r) == IF r = Idle THEN Goto("if_cond") /\ UNCHANGED tmr /\ Keep ELSE Found(NoType)
IfCond(r) ==
  IF r = Idle THEN Goto("op_cond") /\ tmr' = Tries /\ Keep
              ELSE Goto("which") /\ UNCHANGED tmr /\ Keep
(* The answer comes, but not this voltage and pattern in the rest of it.   *)
WrongPattern ==
  /\ faults < MaxFaults /\ faults' = faults + 1
  /\ ~card.busy /\ Obeys(card, CMD8, 0).r = Idle /\ card' = Obeys(card, CMD8, 0).card
  /\ Found(NoType) /\ UNCHANGED late
(* Is it ready?  Ask again until it is, Tries times in all. *)
AskAgain(r, next) ==
  \/ r = Ready /\ Goto(next) /\ UNCHANGED tmr /\ Keep
  \/ r # Ready /\ tmr = 1 /\ Found(NoType)
  \/ r # Ready /\ tmr > 1 /\ tmr' = tmr - 1 /\ UNCHANGED pc /\ Keep
Ocr(r) == Found(IF r = Ready THEN [is |-> "SD2", block |-> card.kind = "SD2HC"] ELSE NoType)
Which(r) == tmr' = Tries /\ Goto(IF r <= 1 THEN "SD1" ELSE "MMC") /\ Keep
BlockLength(r, type) == Found(IF r = Ready THEN [is |-> type, block |-> FALSE] ELSE NoType)

disk_initialize ==
  /\ \E r \in Answers :
       \/ pc = "idle" /\ Sends(CMD0, 0, r) /\ GoIdle(r)
       \/ pc = "if_cond" /\ Sends(CMD8, 0, r) /\ IfCond(r)
       \/ pc = "if_cond" /\ WrongPattern
       \/ pc = "op_cond" /\ Sends(ACMD41, HCS, r) /\ AskAgain(r, "ocr")
       \/ pc = "ocr" /\ Sends(CMD58, 0, r) /\ Ocr(r)
       \/ pc = "which" /\ Sends(ACMD41, 0, r) /\ Which(r)
       \/ pc = "SD1" /\ Sends(ACMD41, 0, r) /\ AskAgain(r, "SD1_len")
       \/ pc = "MMC" /\ Sends(CMD1, 0, r) /\ AskAgain(r, "MMC_len")
       \/ pc = "SD1_len" /\ Sends(CMD16, 0, r) /\ BlockLength(r, "SD1")
       \/ pc = "MMC_len" /\ Sends(CMD16, 0, r) /\ BlockLength(r, "MMC")
  /\ UNCHANGED <<buff, call, count, calls>>

-----------------------------------------------------------------------------
(* Data blocks. *)

(* The card's block comes in time, or an error token or none at all does.  *)
rcvr_datablock(ok) ==
  \/ ok /\ HasBlock(card)
     /\ card' = Sent(card) /\ UNCHANGED <<faults, late>>
  \/ ~ok /\ ~HasBlock(card)
     /\ UNCHANGED <<card, faults, late>>
  \/ /\ ~ok /\ faults < MaxFaults /\ faults' = faults + 1
     /\ \/ card' = [card EXCEPT !.xfer = IF @ = "reads" THEN @ ELSE "none"] /\ UNCHANGED late
        \/ UNCHANGED card /\ late' = TRUE

(* A block goes out when the card is not busy, and is accepted or refused. *)
xmit_datablock(block, ok) ==
  \/ ok /\ ~card.busy /\ WantsBlock(card)
     /\ card' = Accepted(card, block) /\ UNCHANGED <<faults, late>>
  \/ ~ok /\ ~card.busy /\ ~WantsBlock(card)
     /\ card' = Refused(card) /\ UNCHANGED <<faults, late>>
  \/ /\ ~ok /\ faults < MaxFaults /\ faults' = faults + 1
     /\ \/ ~card.busy /\ card' = Refused(card) /\ UNCHANGED late
        \/ card.busy /\ UNCHANGED card /\ late' = TRUE

(* The stop token has no answer. *)
StopToken(ok) ==
  \/ /\ ok /\ ~card.busy
     /\ card' = IF card.xfer = "writes" THEN Stopped(card) ELSE card
     /\ UNCHANGED <<faults, late>>
  \/ /\ ~ok /\ card.busy /\ faults < MaxFaults /\ faults' = faults + 1
     /\ UNCHANGED card /\ late' = TRUE

(* Block addressing or bytes. *)
Address(sector) == IF CardType.block THEN sector ELSE sector * SectorSize
Done(left) == Return(IF left = 0 THEN "OK" ELSE "RES_ERROR")

-----------------------------------------------------------------------------
(* disk_read *)

FirstRead ==
  /\ pc = "read"
  /\ \E r \in Answers :
       /\ send_cmd(IF call.count > 1 THEN CMD18 ELSE CMD17, Address(call.sector), r)
       /\ IF r = Ready THEN Goto("block_in") /\ UNCHANGED res ELSE Done(count)
  /\ UNCHANGED <<buff, may, count>>

BlockInUnstopped ==   \* wrong: only a complete transfer is stopped
  /\ pc = "block_in"
  /\ \E ok \in BOOLEAN :
       /\ rcvr_datablock(ok)
       /\ count' = IF ok THEN count - 1 ELSE count
       /\ buff' = IF ok THEN Append(buff, card.store[card.at]) ELSE buff
       /\ IF ok /\ count' > 0 THEN UNCHANGED <<pc, res>>
          ELSE IF ok /\ call.count > 1 THEN Goto("stop_in") /\ UNCHANGED res
          ELSE Done(count')
  /\ UNCHANGED may
BlockIn ==
  /\ pc = "block_in"
  /\ \E ok \in BOOLEAN :
       /\ rcvr_datablock(ok)
       /\ count' = IF ok THEN count - 1 ELSE count
       /\ buff' = IF ok THEN Append(buff, card.store[card.at]) ELSE buff
       /\ IF ok /\ count' > 0 THEN UNCHANGED <<pc, res>>
          ELSE IF call.count > 1 THEN Goto("stop_in") /\ UNCHANGED res
          ELSE Done(count')
  /\ UNCHANGED may

StopIn ==
  /\ pc = "stop_in"
  /\ \E r \in Answers : send_cmd(CMD12, 0, r)
  /\ Done(count)
  /\ UNCHANGED <<buff, may, count>>

disk_read == (FirstRead \/ BlockIn \/ StopIn) /\ UNCHANGED <<Stat, CardType, call, tmr, bound>>

-----------------------------------------------------------------------------
(* disk_write *)

Block == 10 * calls + count               \* the data this call writes next
At == call.sector + call.count - count
Told(left) ==   \* what the sectors of this call may hold once its result is known
  [s \in DOMAIN may |->
     IF s \notin call.sector .. call.sector + call.count - 1 THEN may[s]
     ELSE LET new == 10 * calls + (call.count - (s - call.sector))
          IN  IF left = 0 THEN {new} ELSE may[s] \cup {new}]
Written(left) == Done(left) /\ may' = Told(left)

FirstWrite ==
  /\ pc = "write"
  /\ IF call.count > 1 /\ CardType.is \in {"SD1", "SD2"}
     THEN \E r \in Answers : Sends(ACMD23, 0, r)
     ELSE UNCHANGED <<card, faults, late>>
  /\ Goto("address_out")
  /\ UNCHANGED <<count, res, may>>

AddressOut ==
  /\ pc = "address_out"
  /\ \E r \in Answers :
       /\ send_cmd(IF call.count > 1 THEN CMD25 ELSE CMD24, Address(call.sector), r)
       /\ IF r = Ready THEN Goto("block_out") /\ UNCHANGED <<res, may>> ELSE Written(count)
  /\ UNCHANGED count

BlockOutUnchecked ==  \* wrong: the data response is not looked at
  /\ pc = "block_out"
  /\ \E ok \in BOOLEAN :
       /\ xmit_datablock(Block, ok)
       /\ count' = count - 1
       /\ IF count' > 0 THEN UNCHANGED <<pc, res, may>>
          ELSE IF call.count > 1 THEN Goto("stop_out") /\ UNCHANGED <<res, may>>
          ELSE Written(count')
BlockOut ==
  /\ pc = "block_out"
  /\ \E ok \in BOOLEAN :
       /\ xmit_datablock(Block, ok)
       /\ count' = IF ok THEN count - 1 ELSE count
       /\ IF ok /\ count' > 0 THEN UNCHANGED <<pc, res, may>>
          ELSE IF call.count > 1 THEN Goto("stop_out") /\ UNCHANGED <<res, may>>
          ELSE Written(count')

StopOut ==
  /\ pc = "stop_out"
  /\ \E ok \in BOOLEAN : StopToken(ok) /\ count' = (IF ok THEN count ELSE 1) /\ Written(count')

disk_write ==
  /\ FirstWrite \/ AddressOut \/ BlockOut \/ StopOut
  /\ UNCHANGED <<Stat, CardType, call, tmr, buff, bound>>

-----------------------------------------------------------------------------
(* disk_ioctl *)

SyncAtOnce ==         \* wrong: nothing waits for the card
  /\ pc = "sync" /\ Return("OK") /\ UNCHANGED <<card, faults, late, buff>>
(* CTRL_SYNC: select the card, which waits until it is not busy. *)
Sync ==
  /\ pc = "sync"
  /\ \/ ~card.busy /\ Return("OK") /\ UNCHANGED <<card, faults, late>>
     \/ /\ card.busy /\ faults < MaxFaults /\ faults' = faults + 1
        /\ late' = TRUE /\ Return("RES_ERROR") /\ UNCHANGED card
  /\ UNCHANGED buff

(* GET_SECTOR_COUNT.  Shifted by 10, a DWORD keeps 22 bits of what it was. *)
Shifted(n, by) == IF by >= 0 THEN n * 2^by ELSE 0
SectorCount(csd) ==
  IF csd[0] \div 64 = 1
  THEN ((csd[9] + csd[8] * 256 + (csd[7] % 64) * 65536 + 1) % 2^22) * 1024
  ELSE LET n == (csd[5] % 16) + (csd[10] \div 128) + (csd[9] % 4) * 2 + 2
           cs == (csd[8] \div 64) + csd[7] * 4 + (csd[6] % 4) * 1024 + 1
       IN  Shifted(cs, n - 9)

AskSize ==
  /\ pc = "size"
  /\ \E r \in Answers :
       /\ send_cmd(CMD9, 0, r)
       /\ IF r = Ready THEN Goto("csd_in") /\ UNCHANGED res ELSE Return("RES_ERROR")
  /\ UNCHANGED buff

SizeIn ==
  /\ pc = "csd_in"
  /\ \E ok \in BOOLEAN :
       /\ rcvr_datablock(ok)
       /\ Return(IF ok THEN "OK" ELSE "RES_ERROR")
       /\ IF ok THEN \E z \in Sizes : buff' = <<z, SectorCount(CSD(z[1], z[2], z[3], z[4]))>>
                ELSE UNCHANGED buff

disk_ioctl ==
  /\ Sync \/ AskSize \/ SizeIn
  /\ UNCHANGED <<Stat, CardType, call, count, tmr, may, bound>>

-----------------------------------------------------------------------------
(* The callers, the card and what becomes of it. *)

Entry == [initialize |-> "idle", read |-> "read", write |-> "write", sync |-> "sync", size |-> "size"]

Call ==
  /\ pc = "out" /\ calls < MaxCalls /\ calls' = calls + 1
  /\ \E name \in DOMAIN Entry, sector \in 0..Sectors - 1, n \in 1..Sectors :
       /\ sector + n <= Sectors
       /\ name \notin {"read", "write"} => sector = 0 /\ n = 1
       /\ call' = [name |-> name, sector |-> sector, count |-> n]
       /\ count' = n
       /\ IF name # "initialize" /\ Stat = "STA_NOINIT" THEN Return("RES_NOTRDY")
          ELSE Goto(Entry[name]) /\ res' = "none"
  /\ buff' = <<>>
  /\ UNCHANGED <<card, Stat, CardType, tmr, faults, late, swapped, may>>

Program ==
  /\ card.busy /\ card' = Programmed(card)
  /\ UNCHANGED <<Stat, CardType, pc, call, count, tmr, buff, res, calls, faults, late, swapped, may>>

Swap ==
  /\ faults < MaxFaults /\ faults' = faults + 1
  /\ \E kind \in Kinds : card' \in {Absent, Fresh(kind, 0, [s \in 0..Sectors - 1 |-> 1])}
  /\ swapped' = TRUE /\ late' = FALSE
  /\ UNCHANGED <<Stat, CardType, pc, call, count, tmr, buff, res, calls, may>>

Init ==
  /\ \E kind \in Kinds, warm \in 0..MaxWarm :
       card = Fresh(kind, warm, [s \in 0..Sectors - 1 |-> 0])
  /\ Stat = "STA_NOINIT" /\ CardType = NoType
  /\ pc = "out" /\ call = [name |-> "none", sector |-> 0, count |-> 1]
  /\ count = 0 /\ tmr = 0 /\ buff = <<>> /\ res = "none"
  /\ calls = 0 /\ faults = 0 /\ late = FALSE /\ swapped = FALSE
  /\ may = [s \in 0..Sectors - 1 |-> {0}]

Driver == disk_initialize \/ disk_read \/ disk_write \/ disk_ioctl
Next == Call \/ Driver \/ Program \/ Swap

Spec == Init /\ [][Next]_vars

-----------------------------------------------------------------------------
(* Properties. *)

Returned(name) == pc = "out" /\ call.name = name /\ res = "OK"

(* A call that returns RES_OK tells the truth.  A disk_read has read what   *)
(* the last successful disk_write of each of its sectors wrote, or what a  *)
(* later one that failed may have: for every kind of card, whichever way   *)
(* it takes its addresses.  The count of sectors is what the card's        *)
(* register says, in either layout.  And nothing came from a card that     *)
(* replaced the one initialised: the driver does not notice the change,    *)
(* but no card answers before it is initialised.                           *)
TellsTruth ==
  [][pc # "out" /\ pc' = "out" /\ res' = "OK" =>
       /\ swapped /\ call.name \in {"read", "write", "size"} => count = 0
       /\ call.name = "read" =>
            /\ Len(buff') = call.count
            /\ \A i \in DOMAIN buff' : buff'[i] \in may[call.sector + i - 1]
       /\ call.name = "size" =>
            buff'[2] = Capacity(buff'[1][1], buff'[1][2], buff'[1][3], buff'[1][4])]_vars

(* CTRL_SYNC returns RES_OK only when all that disk_write said was written *)
(* is programmed: the card may lose its power.                             *)
SyncedMeansStored ==
  Returned("sync") /\ ~swapped => \A s \in DOMAIN may : card.store[s] \in may[s]

(* No call leaves the card in the middle of a transfer, where the next     *)
(* command would be taken for data, also when it has failed half way; only *)
(* an answer that comes after the driver stopped waiting can do that, or a *)
(* STOP_TRANSMISSION that is not heard: nobody looks at its answer.        *)
InStep == pc = "out" /\ ~late => card.xfer = "none"
=============================================================================
