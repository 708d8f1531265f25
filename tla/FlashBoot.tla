------------------------------ MODULE FlashBoot ------------------------------
(***************************************************************************)
(* Making the SPI flash bootable, and booting from it, while the power may *)
(* go at any moment.  There are two ways to do it:                         *)
(*                                                                         *)
(*   "single"  the host puts the flash programmer (flash_loader.spin2) in  *)
(*             front of the application and loads both with the ROM; the   *)
(*             programmer writes a loader and the application to flash     *)
(*             and starts the application;                                 *)
(*   "fast"    the loader and the himem helper (MainLoader, HimemFlash)    *)
(*             write the host's boot stub (flash_stub.spin2) and then the  *)
(*             application; here only what they do to the pages.           *)
(*                                                                         *)
(* Memories are sequences of longs; a checksum is their sum, not cut to 32 *)
(* bits.                                                                   *)
(***************************************************************************)
EXTENDS ElfImage

CONSTANTS
  Files,        \* the files there are to flash
  Hubs,         \* what the hub memory may hold before, in bytes
  Methods,      \* which of the two ways
  Programmer,   \* longs of the programmer: code, checksum, debug flag, ...
  LoaderLongs,  \* longs the ROM boots from flash                       (256)
  PageLongs,    \* longs of a page, programmed at once                   (64)
  SmallPages,   \* pages of a small block, erased at once                (16)
  BigPages,     \* pages of a big block                                 (256)
  SmallMax,     \* the most pages left for which small blocks are used   (64)
  FlashPages,   \* size of the flash
  Erased,       \* an erased long
  Garbage,      \* one whose programming or erasing was cut short
  Prop,         \* what the loader's longs must sum to
  MaxJobs, MaxCuts   \* bounds: files flashed, power cuts

(* Where the application is in the loader's image. *)
AppStart == 4

ASSUME FlashAssumption ==
  /\ Methods \subseteq {"single", "fast"}
  /\ {LoaderLongs, PageLongs, SmallPages, BigPages, SmallMax, FlashPages} \subseteq Nat \ {0}
  /\ LoaderLongs % PageLongs = 0 /\ BigPages % SmallPages = 0
  /\ LoaderLongs > AppStart
  /\ {Erased, Garbage, Prop} \subseteq Int

(* The programmer is assembled with its checksum, the second long, zero.   *)
ASSUME ProgrammerAssumption ==
  Programmer \in Seq(Int) /\ Len(Programmer) >= 3 /\ Programmer[2] = 0

Entry == [type : STRING, paddr : Nat, memsz : Nat, filesz : Nat, offset : Nat]

ASSUME FilesAssumption ==
  /\ LongSize \in Nat \ {0} /\ HeapBytes \subseteq Nat /\ Hubs \subseteq Seq(Nat)
  /\ \A f \in DOMAIN Files :
       /\ Files[f].elf \in BOOLEAN /\ Files[f].data \in Seq(Nat)
       /\ Files[f].elf => /\ Files[f].phdrs \in Seq(Entry)
                          /\ Files[f].readable \in 0..Len(Files[f].phdrs)
                          /\ \A h \in Hubs : RoundUp(SectionsTop(Files[f])) <= Len(h)
  /\ 0 \notin DOMAIN Files

VARIABLES
  method,
  chip,    \* what the chip is doing
  hub,     \* the hub memory, from 0
  flash,
  source,  \* the longs to be programmed
  page,    \* the page being programmed
  left,    \* pages still to program
  block,   \* pages of the block to erase
  app,     \* the longs of the application that runs
  jobs, cuts,
  sent,    \* history: the application last sent
  last,    \* history: the one last begun to be programmed
  whole    \* history: that was finished

vars == <<method, chip, hub, flash, source, page, left, block, app, jobs, cuts, sent, last, whole>>

SumOf(s) == FoldLeft(LAMBDA n, long : n + long, 0, s)
Unset(n) == [i \in 1..n |-> 0]

(* The bytes of the application, as longs. *)
AsLong(s)    == FoldRight(LAMBDA b, n : b + 100 * n, s, 0)
LongAt(s, i) == AsLong(SubSeq(s, (i - 1) * LongSize + 1, i * LongSize))
Longs(s) == [i \in 1..Len(s) \div LongSize |-> LongAt(s, i)]

Busy == {"check", "settings", "block", "erasing", "page", "programming", "move",
         "start", "read", "verify"}

-----------------------------------------------------------------------------
(* The host *)

(* The programmer ends with its copy of the loader: AppStart longs to be   *)
(* set, then the application.                                              *)
Prefix   == Programmer \o <<0, 0, 0, -Prop>>
APP_LONGS == Len(Programmer) + 1
APP_LONGS2 == Len(Programmer) + 2
APP_SUM   == Len(Programmer) + 3   LOADER_SUM == Len(Programmer) + 4

(* patchBinaryFileForFlash: the debug flag goes first, then the checksum. *)
patchBinaryFileForFlash(s) == LET p == [s EXCEPT ![3] = 0] IN [p EXCEPT ![2] = -SumOf(p)]

(* An application is the file it comes from, what hub memory held before,  *)
(* and the bytes that are sent of it and meant to run.                     *)
Application(f, h, b) == [file |-> f, held |-> h, bytes |-> b]
NoApp == Application(0, <<>>, <<>>)

(* A file that is not a whole number of longs is refused. *)
SingleApps ==
  {a \in UNION {{Application(f, <<>>, b) : b \in readBinaryFile(Files[f])} : f \in DOMAIN Files} :
     a.bytes # <<>> /\ Len(a.bytes) % LongSize = 0}

(* The sections of an ELF file, or else the file, from address 0 up to the *)
(* highest byte of them, in whole longs.                                   *)
FastImages(f, h) ==
  IF loadElfSections(f, h) # {}
  THEN {SubSeq(mem, 1, RoundUp(SectionsTop(f))) : mem \in loadElfSections(f, h)}
  ELSE readBinaryFile(f)
FastApps ==
  {a \in UNION {{Application(f, h, b) : b \in FastImages(Files[f], h)} : f \in DOMAIN Files, h \in Hubs} :
     a.bytes # <<>>}

Apps(m) == IF m = "single" THEN SingleApps ELSE FastApps

(* loadfilesingle; without the ROM's checksum the line may damage a long.  *)
LoadSingle(a) ==
  /\ method = "single"
  /\ \E wrong \in 0..1 :
       hub' = LET s == patchBinaryFileForFlash(Prefix \o Longs(a.bytes))
              IN [s EXCEPT ![Len(s)] = @ + wrong]
  /\ chip' = "check"
  /\ UNCHANGED <<flash, source, page, left, block, last, whole>>

(* The stub knows the number of bytes to load where it says longs.         *)
Stub(n) == LET s == <<1, 0, n>> \o Unset(LoaderLongs - 3) IN [s EXCEPT ![2] = Prop - SumOf(s)]

Pages(longs) == (longs + PageLongs - 1) \div PageLongs

(* Any program that fits the hub memory fits the flash, which is bigger.   *)
ASSUME FlashIsBigger ==
  \A a \in SingleApps \cup FastApps : Pages(LoaderLongs + Len(Longs(a.bytes))) <= FlashPages

Padded(s) == s \o Unset(Pages(Len(s)) * PageLongs - Len(s))

LoadFast(a) ==
  /\ method = "fast"
  /\ hub' = Longs(a.bytes)
  /\ source' = Padded(Stub(Len(a.bytes)) \o Longs(a.bytes))
  /\ page' = 0 /\ left' = Pages(Len(source'))
  /\ block' = SmallPages
  /\ last' = a /\ whole' = FALSE
  /\ chip' = "block"
  /\ UNCHANGED flash

Load ==
  /\ chip \in {"rom", "running", "stopped"}
  /\ jobs < MaxJobs
  /\ jobs' = jobs + 1
  /\ \E a \in Apps(method) : sent' = a /\ (LoadSingle(a) \/ LoadFast(a))
  /\ app' = <<>>
  /\ UNCHANGED <<method, cuts>>

-----------------------------------------------------------------------------
(* The programmer *)

Checked == IF SumOf(hub) = 0 THEN "settings" ELSE "stopped"
Check ==
  /\ chip = "check"
  /\ chip' = Checked
  /\ UNCHANGED <<method, hub, flash, source, page, left, block, app, jobs, cuts, sent, last, whole>>

(* What was downloaded behind the programmer, padded with zeros. *)
Downloaded == SubSeq(hub, Len(Programmer) + AppStart + 1, Len(hub))
LoaderImage(s) == SubSeq(s, Len(Programmer) + 1, Len(s))

AppSumPlus(longs) == SumOf(longs)
AppSum(longs) == -SumOf(longs)
SettingsOf(s) ==
  LET n  == Len(Downloaded)
      t  == [s EXCEPT ![APP_LONGS] = n, ![APP_LONGS2] = n, ![APP_SUM] = AppSum(Downloaded)]
      l  == SubSeq(LoaderImage(t) \o Unset(LoaderLongs), 1, LoaderLongs)
  IN [t EXCEPT ![LOADER_SUM] = -SumOf(l)]

PagesNeeded == Max({Pages(Len(Downloaded) + AppStart), LoaderLongs \div PageLongs})

Settings ==
  /\ chip = "settings"
  /\ hub' = SettingsOf(hub)
  /\ left' = PagesNeeded
  /\ source' = LET s == LoaderImage(hub') IN s \o Unset(PagesNeeded * PageLongs - Len(s))
  /\ page' = 0
  /\ block' = BigPages
  /\ last' = sent /\ whole' = FALSE
  /\ chip' = "block"
  /\ UNCHANGED <<method, flash, app, jobs, cuts, sent>>

(* Few pages left: small blocks from here on. *)
BlockSize(n) == IF n <= SmallMax THEN SmallPages ELSE block

Block ==
  /\ chip = "block"
  /\ block' = BlockSize(left)
  /\ chip' = "erasing"
  /\ UNCHANGED <<method, hub, flash, source, page, left, app, jobs, cuts, sent, last, whole>>

(* The block around the page. *)
InBlock(i) == (i - 1) \div (block * PageLongs) = page \div block
InPage(i)  == (i - 1) \div PageLongs = page
EraseTo(long) == flash' = [i \in DOMAIN flash |-> IF InBlock(i) THEN long ELSE flash[i]]

EraseDone ==
  /\ chip = "erasing"
  /\ EraseTo(Erased)
  /\ chip' = "page"
  /\ UNCHANGED <<method, hub, source, page, left, block, app, jobs, cuts, sent, last, whole>>

Page ==
  /\ chip = "page"
  /\ chip' = "programming"
  /\ UNCHANGED <<method, hub, flash, source, page, left, block, app, jobs, cuts, sent, last, whole>>

(* Programming only clears bits. *)
Programmed(old, long) == IF old \in {Erased, long} THEN long ELSE Garbage
ProgramUpto(n) ==
  flash' = [i \in DOMAIN flash |->
              IF InPage(i) /\ i <= page * PageLongs + n THEN Programmed(flash[i], source[i]) ELSE flash[i]]

(* The flash goes on to the next page; a new block begins where the page   *)
(* number is a multiple of its size.                                       *)
AtBlock(p) == p % block = 0

PageDone ==
  /\ chip = "programming"
  /\ ProgramUpto(PageLongs)
  /\ left' = left - 1
  /\ IF left = 1
     THEN chip' = "move" /\ whole' = TRUE /\ UNCHANGED page
     ELSE /\ page' = page + 1
          /\ chip' = IF AtBlock(page') THEN "block" ELSE "page"
          /\ UNCHANGED whole
  /\ UNCHANGED <<method, hub, source, block, app, jobs, cuts, sent, last>>

(* The application is moved to the start of hub memory and started; in the *)
(* other way it is there already.                                          *)
Move ==
  /\ chip = "move"
  /\ app' = IF method = "single" THEN Downloaded ELSE hub
  /\ hub' = app'
  /\ chip' = "running"
  /\ UNCHANGED <<method, flash, source, page, left, block, jobs, cuts, sent, last, whole>>

-----------------------------------------------------------------------------
(* Booting *)

FlashLoader == SubSeq(flash, 1, LoaderLongs)

(* The ROM runs what it finds in flash if it adds up to "Prop". *)
PowerOn ==
  /\ chip = "off"
  /\ chip' = IF SumOf(FlashLoader) = Prop THEN "start" ELSE "rom"
  /\ hub' = <<>> /\ app' = <<>>
  /\ UNCHANGED <<method, flash, source, page, left, block, jobs, cuts, sent, last, whole>>

Run(longs) == app' = longs /\ hub' = longs /\ chip' = "running"

(* flash_loader's loader: the application longs it came with are all there *)
(* is, or the rest is read.                                                *)
Inside == LoaderLongs - AppStart
LoaderStart ==
  /\ chip = "start" /\ method = "single"
  /\ IF flash[1] <= Inside
     THEN Run(SubSeq(flash, AppStart + 1, AppStart + flash[1]))
     ELSE chip' = "read" /\ UNCHANGED <<hub, app>>
  /\ UNCHANGED <<method, flash, source, page, left, block, jobs, cuts, sent, last, whole>>

FromFlashNext(from, n) == SubSeq(flash, from + 2, Min({from + n + 1, Len(flash)}))
FromFlash(from, n) == SubSeq(flash, from + 1, Min({from + n, Len(flash)}))

LoaderRead ==
  /\ chip = "read"
  /\ hub' = FromFlash(AppStart, flash[1])
  /\ chip' = "verify"
  /\ UNCHANGED <<method, flash, source, page, left, block, app, jobs, cuts, sent, last, whole>>

VerifiedAny(s) == TRUE
Verified(s) == flash[3] + SumOf(SubSeq(s, 1, flash[2])) = 0
LoaderVerify ==
  /\ chip = "verify"
  /\ IF Verified(hub) THEN Run(hub)
     ELSE chip' = "stopped" /\ UNCHANGED <<hub, app>>
  /\ UNCHANGED <<method, flash, source, page, left, block, jobs, cuts, sent, last, whole>>

(* flash_stub reads and runs. *)
StubStart ==
  /\ chip = "start" /\ method = "fast"
  /\ Run(FromFlash(LoaderLongs, flash[3]))
  /\ UNCHANGED <<method, flash, source, page, left, block, jobs, cuts, sent, last, whole>>

(* The power goes: what the flash was doing is left half done. *)
PowerCut ==
  /\ chip # "off"
  /\ cuts < MaxCuts
  /\ cuts' = cuts + 1
  /\ chip' = "off" /\ app' = <<>>
  /\ CASE chip = "erasing"     -> EraseTo(Erased) \/ EraseTo(Garbage) \/ UNCHANGED flash
       [] chip = "programming" -> \E n \in 0..PageLongs : ProgramUpto(n)
       [] OTHER                -> UNCHANGED flash
  /\ UNCHANGED <<method, hub, source, page, left, block, jobs, sent, last, whole>>

ChipStep ==
  \/ Check \/ Settings \/ Block \/ EraseDone \/ Page \/ PageDone \/ Move
  \/ PowerOn \/ LoaderStart \/ LoaderRead \/ LoaderVerify \/ StubStart

Next == Load \/ ChipStep \/ PowerCut

Init ==
  /\ method \in Methods
  /\ chip = "rom" /\ hub = <<>> /\ app = <<>>
  /\ flash = [i \in 1..FlashPages * PageLongs |-> Garbage]     \* whatever it held
  /\ source = <<>> /\ page = 0 /\ left = 0 /\ block = SmallPages
  /\ jobs = 0 /\ cuts = 0 /\ sent = NoApp /\ last = NoApp /\ whole = FALSE

Spec == Init /\ [][Next]_vars /\ WF_vars(ChipStep)

-----------------------------------------------------------------------------
(* "This all ensures that no errant application code will boot": after a   *)
(* power cut in the middle of anything, and after any damage on the line,  *)
(* what runs is one of the applications in full (flash_loader.spin2).      *)
NoErrantApp ==
  method = "single" /\ chip = "running" => \E a \in SingleApps : app = Longs(a.bytes)

(* What is flashed is what is in the file: all of it and less than a long  *)
(* behind it; or of an ELF file every segment at its place, over zeros in  *)
(* one piece and over what hub memory held section by section.  The first  *)
(* is longer than need be (readElfFileToMem).                              *)
AsInFile(m, a) ==
  LET f == Files[a.file] IN
  CASE ~f.elf                 -> IsPrefix(f.data, a.bytes) /\ Len(a.bytes) < Len(f.data) + LongSize
    [] f.elf /\ m = "single" -> LaidOut(f, a.bytes)
    [] f.elf /\ m = "fast"   -> SectionsLaid(f, a.held, a.bytes)

(* Once a file has been flashed without interruption it is what runs, and  *)
(* what every later power-on boots, until the next one is begun (loadfile, *)
(* copy_hub_to_flash); but the stub reads on into what follows it, as many *)
(* longs as it has bytes and no further (loadp2.c:913).                    *)
BootsWhatWasFlashed ==
  /\ last # NoApp => AsInFile(method, last)
  /\ chip = "running" /\ whole =>
       /\ IsPrefix(Longs(last.bytes), app)
       /\ method = "single" => app = Longs(last.bytes)
       /\ method = "fast" => Len(app) <= Len(last.bytes)

(* And it does boot: no power-on after that ends in the ROM's serial       *)
(* loader or with the chip stopped.                                        *)
StaysBootable == whole /\ chip \in {"off", "start", "read", "verify"} => chip' \notin {"rom", "stopped"}

(* And whatever the chip is at comes to an end: the application runs, the  *)
(* chip has stopped or waits for the host.                                 *)
AlwaysBoots ==
  /\ [][StaysBootable]_vars
  /\ chip \in Busy ~> chip \notin Busy

(* flash_stub.spin2 has the same words on its checksum, and no checksum.   *)
NoErrantCode ==
  chip = "running" => \E a \in Apps(method) : IsPrefix(Longs(a.bytes), app)

(* Its app_longs is said to be the "number of longs (filled by loadp2)":   *)
(* what the stub reads is the application and nothing else.                *)
StubReadsApp ==
  chip = "running" /\ whole => app = Longs(last.bytes)
=============================================================================
