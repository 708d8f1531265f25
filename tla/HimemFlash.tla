----------------------------- MODULE HimemFlash -----------------------------
(***************************************************************************)
(* The himem helper (himem_flash.spin2): a second cog that takes write     *)
(* requests from a mailbox in hub memory and programs them into the SPI    *)
(* flash, concurrently with the fast loader that keeps receiving serial    *)
(* data.  The three parties share                                          *)
(*    hub    the hub memory                                                *)
(*    mbox   the mailbox, the longs at offsets 0, 4 and 8 of it            *)
(* and the helper alone owns the flash chip.                               *)
(*                                                                         *)
(* The first mailbox long, mbox.word, is kept as the code tests it:        *)
(*    0          the helper is idle, the last request succeeded            *)
(*    -1         shut down                                                 *)
(*    negative   a request; the hub address is in the low bits, R_WRITEBURST*)
(*               in the top nybble makes the long negative                 *)
(*    positive   the hub address of an error message                       *)
(***************************************************************************)
EXTENDS SerialLink

CONSTANTS
  HubSize,      \* bytes of hub memory
  MailBase,     \* hub address of the mailbox; a mailbox long is one cell
  PageSize,     \* bytes of a flash page             (256 in the code)
  SectorSize,   \* bytes erased by one Erase_4k      (4096 in the code)
  FlashSize,    \* bytes of flash, the range of the 24-bit address
  Burst,        \* R_WRITEBURST: hub address a is requested as a - Burst
  FlashContents \* what the flash may hold before a download

ASSUME HubAssumption ==
  /\ HubSize \in Nat /\ MailBase \in Nat \ {0} /\ MailBase + 4 <= HubSize
  /\ Burst \in Nat /\ Burst > HubSize + 1

ASSUME FlashAssumption ==
  /\ PageSize \in Nat \ {0} /\ SectorSize \in Nat \ {0} /\ FlashSize \in Nat \ {0}
  /\ SectorSize % PageSize = 0
  /\ FlashSize % SectorSize = 0
  /\ HimemBit % FlashSize = 0
  /\ FlashContents \subseteq [0..FlashSize-1 -> Byte]

VARIABLES
  hub,     \* hub memory
  mbox,    \* the mailbox
  flash,   \* the SPI flash array
  cog,     \* where the helper's cog is in its code
  params   \* its registers hubaddr, ouraddr and size

HubAddr   == 0..HubSize-1
FlashAddr == 0..FlashSize-1
MailCells == MailBase..MailBase+2
ErrPtr    == MailBase + 3   \* err_badaddr, which follows the mailbox

Erased  == 255
Garbled == 0     \* the AND of two bytes that differ, abstracted to one value

CogStates == {"off", "init", "poll", "page", "erased", "done", "bad", "stopped"}

(* One byte of the array after programming new over old: flash cells only  *)
(* go from 1 to 0, so the result is the bitwise AND.                       *)
Programmed(old, new) ==
  CASE old = Erased -> new
    [] new = Erased -> old
    [] old = new    -> old
    [] OTHER        -> Garbled

HubByte(mem, a) == IF a \in HubAddr THEN mem[a] ELSE 0

(* Storing byte b at hub address a: the mailbox is ordinary hub memory, so *)
(* a store that lands on it changes the mailbox.                           *)
StoreByte(a, b) ==
  /\ hub' = IF a \in HubAddr \ MailCells THEN [hub EXCEPT ![a] = b] ELSE hub
  /\ mbox' = CASE a = MailBase     -> [mbox EXCEPT !.word = b]
               [] a = MailBase + 1 -> [mbox EXCEPT !.flash = b]
               [] a = MailBase + 2 -> [mbox EXCEPT !.size = b]
               [] OTHER            -> mbox

(* and hubaddr, ##$00FF_FFFF *)
HubOf(word) == IF word < 0 THEN word + Burst ELSE word

-----------------------------------------------------------------------------

(* Spi_Init, wake-up and reset of the flash chip, then the polling loop. *)
CogInit ==
  /\ cog = "init"
  /\ cog' = "poll"
  /\ UNCHANGED <<hub, mbox, flash, params>>

(* mainloop / process_request: take whatever non-zero request is there. *)
CogAccept ==
  /\ cog = "poll"
  /\ mbox.word # 0
  /\ \/ mbox.word = -1 /\ cog' = "stopped"
     \/ mbox.word # -1 /\ mbox.flash % PageSize # 0 /\ cog' = "bad"
     \/ mbox.word # -1 /\ mbox.flash % PageSize = 0 /\ mbox.size = 0 /\ cog' = "done"
     \/ mbox.word # -1 /\ mbox.flash % PageSize = 0 /\ mbox.size # 0 /\ cog' = "page"
  /\ params' = [hubaddr |-> HubOf(mbox.word),
                ouraddr |-> mbox.flash % FlashSize,
                size    |-> mbox.size]
  /\ UNCHANGED <<hub, mbox, flash>>

(* test ouraddr, ##$FFF: the page is the first of its sector. *)
AtSectorWideMask(addr) == addr % (2 * SectorSize) = 0
AtSector(addr) == addr % SectorSize = 0

(* Erase: a page on a sector boundary erases its sector first. *)
Erase ==
  /\ cog = "page"
  /\ AtSector(params.ouraddr)
  /\ flash' = [a \in FlashAddr |->
                 IF a \in params.ouraddr..params.ouraddr + SectorSize - 1
                 THEN Erased ELSE flash[a]]
  /\ cog' = "erased"
  /\ UNCHANGED <<hub, mbox, params>>

(* pad_page (a last, short page is filled with $FF in the hub buffer) and  *)
(* WritePage, then the loop test.                                          *)
WritePage ==
  /\ cog = "erased" \/ (cog = "page" /\ ~AtSector(params.ouraddr))
  /\ LET PadCells == params.hubaddr + params.size .. params.hubaddr + PageSize - 1
         padded   == [a \in HubAddr |->
                        IF a \in PadCells \ MailCells THEN Erased ELSE hub[a]]
     IN /\ hub' = padded
        /\ flash' = [a \in FlashAddr |->
                       IF a \in params.ouraddr..params.ouraddr + PageSize - 1
                       THEN Programmed(flash[a],
                              HubByte(padded, params.hubaddr + a - params.ouraddr))
                       ELSE flash[a]]
  /\ IF params.size > PageSize
     THEN /\ params' = [hubaddr |-> params.hubaddr + PageSize,
                        ouraddr |-> (params.ouraddr + PageSize) % FlashSize,
                        size    |-> params.size - PageSize]
          /\ cog' = "page"
     ELSE /\ cog' = "done"
          /\ params' = [params EXCEPT !.size = 0]
  /\ UNCHANGED mbox

(* send_response: 0 for success, or the address of the error message. *)
CogRespond ==
  /\ cog \in {"done", "bad"}
  /\ mbox' = [mbox EXCEPT !.word = IF cog = "done" THEN 0 ELSE ErrPtr]
  /\ cog' = "poll"
  /\ UNCHANGED <<hub, flash, params>>

(* Memory, mailbox and the registers of the helper's cog. *)
MemTypeOK ==
  /\ hub \in [HubAddr -> Byte] /\ flash \in [FlashAddr -> Byte]
  /\ mbox \in [word : Int, flash : Nat, size : Nat]
  /\ cog \in CogStates
  /\ params \in [hubaddr : Int, ouraddr : Nat, size : Nat]

CogStep == CogInit \/ CogAccept \/ Erase \/ WritePage \/ CogRespond

HimemInit ==
  /\ hub = [a \in HubAddr |-> 0]
  /\ mbox = [word |-> 0, flash |-> 0, size |-> 0]
  /\ flash \in FlashContents
  /\ cog = "off"
  /\ params = [hubaddr |-> 0, ouraddr |-> 0, size |-> 0]
=============================================================================
