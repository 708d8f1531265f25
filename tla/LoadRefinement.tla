--------------------------- MODULE LoadRefinement ---------------------------
(***************************************************************************)
(* LoadSystem implements DownloadSpec.  The mapping reads the plan off the *)
(* command line, the acknowledgements off the host, the outcome off the    *)
(* host's and the device's control state, and the target's memory off the  *)
(* hub and the flash: hub cell a is cell a, flash cell f is HimemBit + f,  *)
(* as the addresses of the protocol have it.  The mailbox and the          *)
(* ping-pong buffers are working storage and not part of the promise.      *)
(***************************************************************************)
EXTENDS LoadSystem, SequencesExt

Cells == (HubAddr \ (MailCells \cup Ping..Pong + ChunkSize - 1))
           \cup {HimemBit + f : f \in FlashAddr}

Target == [c \in Cells |-> IF c < HimemBit THEN hub[c] ELSE flash[c - HimemBit]]

(* A block: len bytes are sent to addr, and from there on, data begins.    *)
(* What is sent besides is promised nothing about: the long in front of an *)
(* @ADDR+file (loadp2.c prepends the size of the file before it), and what *)
(* fills the last long of a raw file.                                      *)
AsBlock(addr, data) == [addr |-> addr, len |-> Len(data), from |-> addr, data |-> data]
RawBlock(addr, ahead, data) ==
  [addr |-> addr, len |-> RoundUp(ahead + Len(data)), from |-> addr + ahead, data |-> data]

FileBlocks(f) ==
  CASE f.kind = "bin"   -> <<RawBlock(f.addr, 0, f.data)>>
    [] f.kind = "sized" -> <<RawBlock(f.addr, LongBytes, f.data)>>
    [] f.kind = "elf"   -> [k \in DOMAIN f.segs |-> AsBlock(f.segs[k].addr, f.segs[k].data)]

NonEmpty(b) == b.data # <<>>

UserBlocks(j) ==
  SelectSeq(FlattenSeq([i \in DOMAIN j.files |-> FileBlocks(j.files[i])]), NonEmpty)

(* The end of the image in hub memory, rounded as the stub wants it. *)
HubTop(j) ==
  LET blocks == UserBlocks(j)
      ends   == {blocks[i].addr + blocks[i].len :
                   i \in {k \in DOMAIN blocks : blocks[k].addr < HelperBase}}
  IN IF ends = {} THEN 0 ELSE RoundUp(Max(ends))

AllBlocks(j) ==
  LET helper == IF j.helper THEN <<AsBlock(HelperBase, HelperImage)>> ELSE <<>>
      tail   == CASE j.flash -> <<AsBlock(HimemBit, Stub(HubTop(j)))>>
                  [] ~j.flash /\ j.argv # <<>> -> <<AsBlock(HelperBase, j.argv)>>
                  [] OTHER -> <<>>
  IN helper \o UserBlocks(j) \o tail

Span(b)  == Cells \cap b.addr..b.addr + b.len - 1
Image(b) ==
  [c \in Cells \cap b.from..b.from + Len(b.data) - 1 |-> b.data[c - b.from + 1]]

(* Cells a write of n bytes at a flash address may change: its pages, and  *)
(* every sector it starts.                                                 *)
FlashTouch(addr, n) ==
  {c \in Cells :
     \E k \in 0..((n - 1) \div PageSize) :
        LET page == addr + k * PageSize
        IN \/ c \in page..page + PageSize - 1
           \/ page % SectorSize = 0 /\ c \in page..page + SectorSize - 1}

Touch(b) == IF b.addr < HimemBit THEN Span(b) ELSE FlashTouch(b.addr, b.len)

(* All blocks, later ones over earlier ones, with all that is sent of them.*)
Loaded(j) ==
  FoldLeft(LAMBDA img, b : Image(b) @@ Restrict(img, DOMAIN img \ Span(b)), <<>>, AllBlocks(j))

Final(j) ==
  IF j.flash
  THEN [c \in {FlashImage + a : a \in DOMAIN Loaded(j) \cap 0..HubTop(j) - 1}
          |-> Loaded(j)[c - FlashImage]] @@ Loaded(j)
  ELSE Loaded(j)

(* The pad bytes of the last flash page are written into hub memory. *)
InstallTouch(j) ==
  IF j.flash /\ HubTop(j) > 0
  THEN FlashTouch(FlashImage, HubTop(j)) \cup HubTop(j)..HubTop(j) + PageSize - 1
  ELSE {}

PlanOf(j) ==
  [blocks  |-> [i \in DOMAIN AllBlocks(j) |->
                  [image |-> Image(AllBlocks(j)[i]), touch |-> Touch(AllBlocks(j)[i])]],
   install |-> InstallTouch(j),
   final   |-> Final(j)]

Plans == [j \in Jobs |-> PlanOf(j)]
Plan  == Plans[job]

Outcome == CASE dpc = "running" -> "launched"
             [] hpc = "fail" /\ dpc # "running" -> "failed"
             [] hpc = "ok" /\ dpc # "running" -> "committed"
             [] OTHER -> "busy"

Promise == INSTANCE DownloadSpec WITH
             plan <- Plan, acked <- acked, outcome <- Outcome, mem <- Target

(* loadp2 keeps its promise: a block counts as loaded only when the target *)
(* holds it, '-' or 'F' is sent only when all do, the application starts   *)
(* with all of them in place, and no transfer disturbs another's memory,   *)
(* but for the bytes that fill the last long of a raw file (downloadData,  *)
(* loadfile, readBinaryFile, read_file, use_himem, copy_hub_to_flash).     *)
KeepsPromise == Promise!Spec
=============================================================================
