# loadp2 in TLA+

A verification development for `loadp2`, the program that loads code into the
Parallax Propeller 2 (P2) over a serial line, and for what it brings along: the
fast loader and the flash helper it runs on the P2, the programs that make flash
and SD card bootable, the terminal and its scripts, the 9P file server it offers
to the loaded program, the client library for that server, and the FAT file
system of the SD card updater.

Sources are named relative to the repository (`src/`). All definitions are
translated from the code; `PROJECT.json` gives for each the lines it stands for.

- [1. The system](#1-the-system)
- [2. The modules](#2-the-modules)
- [3. Downloads](#3-downloads)
- [4. Sessions: handshake, script, terminal](#4-sessions-handshake-script-terminal)
- [5. Files over 9P](#5-files-over-9p)
- [6. Booting from flash](#6-booting-from-flash)
- [7. The SD card](#7-the-sd-card)
- [8. YMODEM](#8-ymodem)
- [9. The runs](#9-the-runs)
- [10. What is proved](#10-what-is-proved)
- [11. Where the code differs from what is said of it](#11-where-the-code-differs-from-what-is-said-of-it)
- [12. What is not modelled, and the plan](#12-what-is-not-modelled-and-the-plan)

## 1. The system

| Component | Code | State it keeps | Operations |
|---|---|---|---|
| Host loader | `loadp2.c` (`loadfile`, `downloadData`, `loadElfSections`, `readBinaryFile`, `loadfilesingle`, `findp2`, `checkp2_and_init`) | the file being loaded, the bytes still to send, the highest hub address, the port and the try | find the chip, send the first stage, answer autobaud, send a block, wait, verify, go on, finish with `-` or `F` |
| Fast loader | `MainLoader_chip.spin2` (cog 0 of the P2) | start address, mailbox address, size, checksum, which ping-pong buffer | autobaud; requests `=`, `!`, `F`, `-`; stream into hub memory; hand chunks to the helper |
| Himem helper | `himem_flash.spin2` (cog 1) | its mailbox, the flash chip | erase, program a page, respond, shut down |
| Flash boot | `flash_stub.spin2`, `flash_loader.spin2` | flash contents | program the flash; boot from it |
| Serial and terminal | `osint_linux.c`, `osint_mingw.c` | file descriptor, escape state | transmit, receive with timeout, terminal loop, `0xff` sequences |
| Script engine | `loadp2.c` (`RunScript`) | script position, timeouts | `send`, `recv`, `pausems`, `pauseafter`, `recvtimeout`, `binfile`, `textfile`, `scriptfile` |
| 9P server | `u9fs/` | fid table, message size | all T-messages |
| 9P client | `testfile/fs9p.cc` | offset of each `fs_file`, message size | `fs_init`, `fs_open`, `fs_create`, `fs_read`, `fs_write`, `fs_close` |
| ELF reader | `loadelf.c` | none | read headers and the program table |
| YMODEM sender | `sb.c`, `sendfile.c` | packet number, the packet under way | a separate program |
| SD boot | `board/sdcard/` | one sector buffer, the open file, the card's type | updater (`sdboot.c`), FatFs (`ff.c`), SPI driver (`sdmm.c`) |

How they interact:

- Host loader and fast loader talk over the serial line, request and reply
  characters mixed with data; nothing frames the messages, so each end relies on
  knowing what the next byte means.
- Fast loader and helper share hub memory: three longs of mailbox and two
  buffers. The loader fills one buffer while the helper programs the other.
- The receiver of the loader is a smart pin that holds one byte. While the
  loader waits for the mailbox nobody polls it.
- After the download a script may talk to the program, and the terminal passes
  bytes on; messages behind the escape `ff 01` go to the 9P server, which answers
  them one at a time on the same line the keyboard uses.
- Other programs of the host change the directory that is served.
- `sdboot.c` calls FatFs, which calls the driver, which talks to the card.

What makes it hard: two cogs and a host process that share memory and a line;
timeouts of the host that run against a slow erase; acknowledgements that some
requests have and others do not; a flash that can only be programmed where it was
erased; power that goes between two pages or two sectors; a file server whose
handlers are several system calls long; a client that must put a transfer
together from partial replies; one sector buffer for everything.

## 2. The modules

```
SerialLink --> HimemFlash --> MainLoader --\
  |  \-------> HostLoader ------------------+--> LoadSystem --> LoadProofs
  |                                              |
  |   DownloadSpec <-- INSTANCE -- LoadRefinement --> MCLoadSystem
  |--> Handshake --> Script --\
  \--> Terminal --------------+--> Session --> MCSession

ByteSeq --> HostFS --> NinePServer --> NinePAny --> MCNinePAny
  |  NinePLink --/  \      |   \         \
  |     |            \     |   NinePServerProofs --> NinePAnyProofs
  |     |             \    |             \--> NinePSystemProofs
  |     |              \   |                /
  |     \--> Fs9pClient ----+--> NinePSystem --> MCNinePSystem
  |            NinePWire <-- INSTANCE ---/   |
  |            FileSpec <----- INSTANCE -----/
  \--> ElfImage --> FlashBoot --> MCFlashBoot
                        \--> FlashBootProofs
       FoldLemmas --> NinePServerProofs, FlashBootProofs

Sdmm --> MCSdmm
   \--> SdmmProofs
FatVolume --> FatFs --> SdBoot --> MCSdBoot
                 \--> FatClient --> MCFatClient
       PlainFiles <-- INSTANCE --/
Ymodem --> MCYmodem
   \--> YmodemProofs
```

| Module | What it is |
|---|---|
| `SerialLink` | the two directions of the line, encodings of longs and checksums, request and reply characters |
| `HimemFlash` | the helper cog, mailbox, hub memory and flash |
| `MainLoader` | the fast loader |
| `HostLoader` | loadp2's side of a download |
| `LoadSystem` | the three together, timeouts, faults of the line; the properties |
| `DownloadSpec`, `LoadRefinement` | what a download promises, and the mapping from `LoadSystem` to it |
| `LoadProofs` | theorems about `LoadSystem`: types, the two buffers, who may send when, the mailbox, the erased flash, and the start address |
| `Handshake` | ports and the P2 behind them, `Prop_Chk`, first stage, autobaud |
| `Script` | `RunScript`, its reader and its commands |
| `Terminal` | the terminal loops, and how 9P messages leave and enter them |
| `Session` | the three together, in the order of `main`, with a program on the chip; the properties |
| `ByteSeq`, `HostFS` | byte sequences; the host's file system (external), from how u9fs uses it |
| `NinePLink` | a request and its reply |
| `NinePWire` | the bytes of messages and directory entries, on both sides |
| `NinePServer` | u9fs, each handler cut where other programs can get in between |
| `Fs9pClient` | the client library, one action per reply it waits for |
| `NinePAny` | the server with any requests in any order; its properties |
| `FoldLemmas` | what the folds of the community modules compute; used by the proofs of 9P and of flash |
| `NinePServerProofs` | types of what the server computes by folds; an invariant of its handlers |
| `NinePAnyProofs`, `NinePSystemProofs` | theorems about the server with any client, and with the library |
| `NinePSystem` | a program using the library against the server; its properties, and the mapping to `FileSpec` |
| `FileSpec` | what the file calls promise |
| `ElfImage` | from a file to the bytes that are sent, in one piece or section by section |
| `FlashBoot` | both ways to make flash bootable, and booting; power cuts |
| `FlashBootProofs` | theorems about it, and about the images of a file |
| `Sdmm` | the card (external), and the driver |
| `SdmmProofs` | theorems about the driver |
| `FatVolume`, `FatFs` | the lower and the upper half of FatFs, as operators on a volume; at the end of `FatFs`, reading a card, for the properties |
| `SdBoot` | the updater, with failing accesses, a dying card and power cuts |
| `FatClient`, `PlainFiles` | any program using FatFs's calls; what these promise |
| `Ymodem`, `YmodemProofs` | the YMODEM sender, the line and a receiver (external); its theorem |
| `MC*` | instances for TLC |

An operator whose name is another's with a suffix (`chunkWhole`, `CreatedAnyhow`)
and which nothing uses is that definition with a plausible mistake in it: the
properties are known to notice each of them. `PROJECT.json` pairs them.

## 3. Downloads

### State and actions

`HostLoader` keeps the place in `downloadData` (`hpc`) and its caller (`stage`).
`HostMode` is the wait for the mode character, `HostSend` one byte sent,
`HostNextChunk` the wait for `k`, `HostVerify` the checksum, `HostTimeout` and
`HostShortRead` the ways a wait can fail, and `HostStart` ... `HostFinish` the
flow of `loadfile` and `loadElfSections`. `MainLoader` keeps the label the loader
is at (`dpc`) and its registers; `NextRequest`, `ReadHeader`, `StreamByte`,
`ChunkByte`, `SendMailbox`, `ChunksDone`, `HimemError`, `ReadFlashLength`, `PostFlashCopy`
and `DoneAndExec` are its code between two points where another party can act.
`HimemFlash` has the cog's polling, `Erase`, `WritePage` and the response.

The three run interleaved. Hub memory, mailbox and flash are shared variables;
the mailbox transfer is one block read or write (`setq` with `rdlong`/`wrlong`)
and so one step.

### Faults and timeouts

`LinkFault` loses or changes one byte of file data. Header bytes are not
faulted: they have no checksum, and a changed address defeats every property.
`Hasty` is the set of command lines during which a timeout of the host may run out at
any time and a read may see half a reply; during the others a timeout means that
nothing more would have come (`DeviceSilent`) and replies arrive whole. `Prompt` says that
no command line is hasty. In `core` those without ELF files are hasty. Those with ELF files
are not: `loadElfSections` goes on behind a section that timed out, with the loader still
in the middle of it (section 11).

### What is sent of a file

`LoadBinary` sends what `read_file` and `readBinaryFile` have put together: for `@ADDR+file` the
size of the file before it and then the file, and behind each raw file as many bytes as fill
its last long. These come from `malloc` and may be any of `HeapBytes`; no part of the promise is
made for the addresses they fall on (`LoadRefinement`). A file right below one that was
loaded before (`JobBelow`) overwrites the beginning of that.

### Properties

Safety: `TypeOK`; `PingPongSafe` (the loader never receives into a buffer the
helper is reading or has been asked to read); `NoOverrun` (nothing is on the line
while the loader waits for the mailbox); `MailboxIntact` (streamed data misses the
mailbox; `!` finds it empty); `ProgramErased` (no cell goes from one value to
another except through erased); `StartsFirstFile`. Liveness: `HostTerminates`,
`SuccessLaunches`. Refinement: `KeepsPromise`.

### Scaling

A long is 2 bytes, a flash page 2, a chunk and ping-pong buffer 4, a sector 8, hub
memory 24 bytes, flash 32. These keep the ratios that matter: several pages to a
chunk, several chunks to a sector, images that end inside a page, inside a chunk,
and beyond a sector, and the mailbox between the area for files and the buffers.
Data bytes differ, so a byte in the wrong place shows. The command lines
(`MCLoadSystem`) are chosen one for each path of `loadfile`: hub files, an empty
file, arguments, a file with a size in front (that of another file), a file right below
another, one and two flash files, `-FLASH` with images of several
lengths, a flash address the helper rejects at the end of a file and in its
middle, no helper where one is needed, ELF sections in hub and flash.
`MaxFaults = 1`: the checksum can hide two faults, and a second one after the
first has been noticed changes nothing, for the host has given up. ELF files are
loaded over a line that has had its fault already (`MCInit`): `loadElfSections`
goes on behind a section that failed, so what it then reports is no promise.

### Fairness

Weak fairness of the host, the loader, the helper and the timeout: two cogs run
independently in hardware, the host is a process the system schedules, and
`rx_timeout` returns after its time. A fault never has to happen. Runs of
downloads may stop: the program has started or the host has given up.

## 4. Sessions: handshake, script, terminal

`Session` is `main` from the search for the chip to the end of the terminal, with
the ROM, the loader's autobaud and the program on the chip at the other end of
the line. `mpc` is where `main` is.

`Handshake` has `findp2` and `checkp2_and_init` (`OpenPort`, `SendChk`, `ReadVersion`, `NoPort`: reset, query,
reading an answer in pieces, the next try and the next port), the first stage in
hex with or without the ROM's checksum, `loadfilesingle`, and `loadfile`'s loop that
repeats the autobaud character until the loader greets. The ROM (`ChipStep`) reads
characters one by one; `RomAsleep` is a chip that does not answer in time and
`HexDamage` a character of the program changed on the line. A read of the host that comes
before the answer does is a hiccup, at most `MaxHiccups`.

`Script` reads its text with `GetCmd` and `GetString`, character by character, since
brackets, comments and escapes are what can go wrong; each command is one step,
each character sent or received another. Time is counted where it matters, in
`recv`: `waited` in half seconds (`Second` = 2, `DefaultWait` = 4) from a `phase` within the
second. The clock of Linux counts whole seconds, so a timeout that is no number of whole
seconds may run out early, and a whole one runs out late (`osint_linux.c:519`).

`Terminal` reads up to `TermBuf` bytes at once, any number of those that are there:
escapes and messages are cut at every place. `Type` is the user, `Serve` hands a
message to the 9P server, `Spoil` is `readn` giving up after its second, or a length
that cannot be. The Windows loop differs in two places and is there as well.

Properties: `Agreement` (host and chip agree on where the download begins, and nothing
runs that was not checked when it should have been), `RunsAsWritten` (the commands run
are those a reader of the script would list, nested scripts at their places, but for the
escape `^(`, which `README.md:91` has and the code leaves out; the
matcher of `recv` always holds a prefix that has just been sent. That it need not hold the
longest is what `RecvHears` and the run `claim_hears` are about), `ReadsAsWritten` (what is
shown, served and understood is what the stream says, read as a text with escapes,
however it was cut), `GetsThrough` (the session gets to the terminal or an end, and
every message is answered or given up).

Bounds: `MCSession` has one command line for each part of a session (ports that are
dead, silent or have an FPGA; one or two stages; every kind of script; terminal
with and without files, `-PST` and Windows), each with the programs that exercise
it; at most two hiccups, four bytes per read against messages of three, one burst
of keys. Lengths of 9P messages take one byte instead of four.

Fairness: weak fairness of the host, of the chip and of the program; every wait of the
host has a timeout, the others run in hardware. The user need not type.

## 5. Files over 9P

### State and actions

`NinePServer` keeps the fid table, the message size, and what of a handler spans
system calls: `srv` (which step is due), `seen` (the kind of file `fidstat` saw),
`list` (names put in the reply so far). A handler that looks first and acts then
is two steps (`ropen`, `useropen`); a create is four (`rcreate`, `usercreate`,
`created`, `rcreated`), for the file is looked at twice after it was made. A
directory is read one `readdir` at a time, in any order of names. The host may
refuse a system call, and `pwrite` may write a part. `AnswerIn` is `putfcallnew`: a reply
that is larger than the messages agreed on (`SizesOf`), or that the line does not take
(`LineFails`), is not sent, and `lost` says why. `Outside` is another program
that makes or removes a file between any two steps.

`Fs9pClient` keeps the call under way and the reply it waits for. `GotRead` and
`GotWrite` are the loops of `fs_read` and `fs_write`, `GotWalk` that of
`do_fs_walk`, `GotCreate` the second attempt of `fs_create`.

A path is the sequence of its elements. Contents are short sequences of bytes.
An entry of a directory is its name, with a length (`EntrySize`).

### Properties

`NinePAny` (any requests): `HandleMatches` (a fid is open exactly if it has a
descriptor or a stream, and never both); `RefusalKeepsFids` (a refused request
leaves the fid table as it was when the request arrived; the exceptions are named
there, and one of them is a race in `rcreate`); `ListsEachOnce` (a listing read to
its end has every name once, unless names change, it is rewound with an entry
in the cache, or the directory no longer has the name it was opened by);
`AlwaysAnswers` (every request is dealt with, and the reply to it is sent whatever a walk or
a read puts into it; the exceptions are a line that fails and a client that has asked for
messages of less than `Smallest`, which `rversion` grants); `WireUnambiguous` (the bytes of a message are read as that
message and no other, damaged lengths are refused, directory entries put one after
the other are found again).

`NinePSystem` (library and server): `OpenMeansOpen`, `SpeaksOneLanguage` (what the
library lays out by hand the server reads as meant, and the library finds in a reply
what the server put there), `CallsReturn`, and
`KeepsFilePromise`, the refinement of `FileSpec`. In the mapping a step takes
effect when the server acts; the offset of a handle is the client's plus what a
reply on its way will add. `Given` is what a write has yet to put: each part that arrives
must be the next of the bytes the program handed over, at the next place.

### Scaling and fairness

The header sizes keep the code's difference: 23 bytes before the data of a write
in the client, 24 reserved by the server, here 2 and 3. `MAXLEN` is 5, and the
largest piece a client asks for (3) is then one more than the server grants (2),
as 1025 is to 1024. That is a difference (section 11), and the calls of `nine_calls`
stay below it; a transfer still takes several messages there, because `pwrite`
may be short and `pread` ends at the end of a file.

Three menus of requests keep the state space of `NinePAny` small: everything about
files with one fid to open them; listings read in all sizes from 1 to 5
with entries of 2 and 3 bytes, so that an entry fits, fits exactly, or has to
wait; and listings of a directory that is renamed through another fid. One change by another program is allowed; it may come between any two steps.

Fairness: the server answers what it is asked (it is called from the terminal loop
for each message), and the library goes on with a call it has begun. Whether the
program calls again is not assumed.

`NinePWire` is about the conversions alone. The three switches over the message type
(`sizeS2M`, `convS2M`, `convM2S`) are tables of fields, each written down from its own
place in the code so that they can disagree. A digit of a number is a byte, to the
base `Radix` = 8, so that numbers of eight digits stay within TLC's integers; fids
include one with the top bit of 32 set.

## 6. Booting from flash

`ElfImage` turns a file into what is sent of it, with every reason the code has to refuse. In one
piece: `readBinaryFile`, with the bytes that fill the last long, and `readElfFileToMem`. Section by
section: `loadElfSections`, which puts each at its address over what hub memory (`Hubs`) held, as
far as it gets, and up to the highest address of any.

`FlashBoot` has the two ways to a bootable flash. In the single way
(`-FLASH -SINGLE`) the host puts `flash_loader.spin2` in front of the application, patches a
checksum (`patchBinaryFileForFlash`) and loads both; `Check`, `Settings`, `Block`, `EraseDone`, `Page`,
`PageDone` and `Move` are the programmer from its checksum test to the start of the
application, `LoaderStart`, `LoaderRead` and `LoaderVerify` the loader that boots it later. In
the fast way the helper of section 3 writes `flash_stub.spin2` and what lies in hub memory;
`StubStart` is the stub. It is given the number of bytes where it takes longs, and so reads on
behind the application. An application is the file it comes from, the hub memory it was loaded
over, and its bytes (`Application`). `PowerOn` is the ROM, which boots what adds up to "Prop".
`PowerCut` may come at any moment: a block under erasure is then erased, as it was, or
`Garbage`; a page has its first longs.

Properties: `NoErrantApp` (single way: only an application in full ever runs),
`BootsWhatWasFlashed` (what was flashed is what is in the file: a raw file with less than a long
behind it, an ELF file with every segment at its place and between them zeros in the single way,
what was there in the fast one (`AsInFile`); and after an uninterrupted flash that is what runs: exactly
it in the single way, in the fast way followed by no more than the stub's count allows),
`AlwaysBoots`. `StubReadsApp`, that nothing follows it, is what `claim_stub` refutes.

Bounds: an application that fits the loader's first pages, one of one small block
made from an ELF file with a gap, one of a big block and more, and ELF files with an entry
that cannot be read, of an odd size, and with a segment that is cut off, where the two ways
differ in what they refuse. Hub memory holds all sections (the helper would not be reached
otherwise), and a file with nothing to load is left out. Two are flashed one after the other, with two power cuts. Checksums are
sums that are not cut to 32 bits, and `Garbage` is a number no file adds up with: a
collision of checksums, which the code cannot exclude, is left out. Fairness: the chip
goes on (`WF_vars(ChipStep)`); the host need not load, the power need not go.

## 7. The SD card

`Sdmm` is the driver with a card that is ready at once or late, of four kinds, one step per command or data block: `disk_initialize`, `disk_read`, `disk_write`,
`disk_ioctl`. Any wait may end without an answer, `MaxFaults` times; the answer may come after
the driver has given up (`late`), or, to CMD8, be of the wrong pattern (`WrongPattern`). The card programs what it was sent in its own time
(`Program`), and may be changed (`Swap`). Properties: `TellsTruth` (what returns `RES_OK` read what
was last written, counted right, from the card that was initialised), `SyncedMeansStored`,
`InStep`. Bounds: two sectors, four calls, two faults. No fairness: nothing live is
claimed.

`FatVolume` and `FatFs` are `ff.c` as `ffconf.h` configures it, for FAT32: a volume is a record
with the card's sectors and the one sector buffer (`FF_FS_TINY`), each function an operator from
a volume to the volume when it returns. This is how the code is written (sequential, nothing interrupts it) and it
lets every access of a function be the one that fails: `fault` and `left` say which,
and whether it is one (`"glitch"`) or all from there (`"dead"`). A sector is written whole or
not at all.

`FatClient` makes any calls in any order on one file object, with `PlainFiles` as the abstract
specification: a file is a sequence, a position, and nothing about clusters. `KeepsFiles` is the refinement;
`ObjectInChain` (the object's cluster and sector are where its position is), `ClosedIsTidy` (with
nothing open no cluster is lost and the free count is right) and `ShortOnlyWhenFull` are about what it
leaves out. A sector has 2 units, a cluster 2 sectors, a FAT sector 4 entries, a directory
sector 2; there are 6 clusters, so that chains fragment, the card fills up, and
positions are inside, at and past every boundary. Five calls reach all of these
from a card with a fragmented file and from one that is nearly full. (A directory that
has to grow is among the cards of `sdboot`.)

`SdBoot` is `main` of `sdboot.c`, one call of FatFs a step, twice: the second run comes after the
first has ended or after the power was cut on a card that had stopped answering, so that a cut is tried
at each access the first run makes. `MaxLeft` = 45 is more accesses than any run makes. `CardSound`
(readable whatever happens; other files untouched; nothing lost if nothing failed),
`BootFileOldOrNew`, `OKMeansThere`, `ComesToEnd`. A cluster that a full directory is given is linked
before it is cleared (`ff.c:1795`); cut in between, the card has whatever was in that cluster for
entries. `Uncleared` is those clusters, and the first two properties except their entries
and nothing else: a card whose next free cluster was once a directory's, with an old boot file in it,
is among the instances (`OldDirectory`). Two FATs and a partition table are in this
instance; `fat` has two FATs as well. Fairness is that of `main`, written out: while it has not ended it takes steps.

## 8. YMODEM

`Ymodem` is `sb.c`: wait for C, header, blocks, EOT, empty header, each with its wait for an
ACK. It repeats a packet when it hears NAK and never by itself. The receiver is not in
the repository; the one here does what the protocol allows and the sender needs: it
prompts again when nothing comes. `Fault` loses or garbles a packet or a character, `Cancel` is
the receiver's user. `AckMeansHeld`: nothing acknowledged is missing, and a transfer that
ended well was received whole, named and cut to its size. `ComesToAnEnd`: the two never wait
for each other, except that the sender waits for ever for a receiver that has left.
Bounds: a file of more blocks than there are block numbers (`Numbers` = 4, to wrap them), with a
short last one; three faults. Weak fairness of the sender, the receiver and
their clocks.

## 9. The runs

| Run | Shows | States |
|---|---|---|
| `core` | all properties of downloads, with a fault, against `DownloadSpec`; early timeouts for files that are not ELF | 122,414 |
| `session` | handshake, script and terminal | 24,828 |
| `nine_any` | the server, any requests, other programs at work; the bytes of its messages | 122,450 |
| `nine_calls` | library and server against `FileSpec`, and in bytes | 83,471 |
| `flashboot` | making flash bootable, and booting, with power cuts | 41,932 |
| `ymodem` | the YMODEM sender over a bad line | 1,367 |
| `sdcard` | the SD driver over a card that fails | 605,889 |
| `fat` | FatFs against `PlainFiles` | 55,438 |
| `sdboot` | the SD updater with failures and power cuts | 12,841 |
| `claim_hears`, `claim_errant`, `claim_stub` | statements of the documentation that the code does not keep (section 11) | |

Runs do not check for deadlock where the system may stop: a
download has ended, a user has left, the bound on calls is reached.

## 10. What is proved

With TLAPS, for every value of the constants that satisfies the assumptions named in the
modules. Each theorem is about a property that a run of section 9 checks on an instance,
and its inductive invariant was an invariant of that run before it was proved.

### The assumptions

- `HubAssumption`, `FlashAssumption`, `LoaderAssumption`, `SharedAssumption` and
  `JobAssumption` of the download modules: sizes are multiples of each other as in the code, buffers
  lie behind the mailbox, command lines have the right type, and what `malloc` leaves behind a file
  (`HeapBytes`) is bytes. `SizeAssumption`
  (`HostLoader`): what is sent at once, in whole longs, is shorter than a long can say, or the loader would
  wait for another number of bytes than the host sends.
- `RegisterAssumption` (`Sdmm`): the sizes in the card's register are what the fields of
  the register can hold.
- `ServerAssumption` (`NinePServer`), `RequestAssumption` (`NinePAny`): names, inodes and
  fids are sets, "nothing" is none of them, sizes of replies are numbers and the header of a
  read's is within what is reserved for it, requests have the fields of their type, other
  programs touch paths that are names and not the root, and a directory entry takes more
  bytes than its length (`convD2M` writes the length and then a stat). The
  theorems are about any file system of the right type; `ListingsWhole` wants the inodes that
  are not in use to have no entries (`UnusedEmpty`).
- `SystemAssumption` (`NinePSystem`): files and the root have fids, calls are of `CallType`
  (a file to be created has a name; a transfer of no bytes sends no message, so it is not a
  call), and "nothing" is no handle.
- `FlashAssumption`, `ProgrammerAssumption`, `FilesAssumption`, `FlashIsBigger` (`FlashBoot`):
  blocks are whole pages, the loader is whole pages and longer than its settings; the
  programmer is assembled with its checksum zero (`flash_loader.spin2`, `v long 0`); files
  are bytes, ELF headers have the fields of `loadelf.h` and no more of them can be read than there
  are, and the sections of a file fit the hub; a program that fits the hub
  memory (512 kB) fits the flash (16 MB).
- `YmodemAssumption` (`Ymodem`): a small block is smaller than a big one, there are more
  than two block numbers, and a file has a name (`sb.c:108` opens it by its name).

### Downloads (`LoadProofs`)

- `TypeCorrect`: `Spec => []TypeOK`. The invariant is `TypeInd == TypeOK /\ HostInd`:
  `HostInd` says what the host's counters are while a block is under way, without which
  `num` and `rest` need not stay in range. `CogType`, `DevType` and `HostType` show it for
  the steps of each party.
- `PingPongCorrect`: `Spec /\ []MailboxIntact => []PingPongSafe`. `PingPongSafe`
  alone is not inductive. `PingInd == MailboxInd /\ HelperInd` adds where the
  loader must be for the mailbox to hold a request, and which buffer the helper
  works on: always the one the loader is not filling.
- `PacedCorrect`: `Prompt => (Spec /\ []SectionsLoad => []NoOverrun)`. `NoOverrun` speaks
  of the loader and the line; what is inductive is `Pace`, the list of the conversations
  the two can be in the middle of (`Between`, `Asking`, `Heading`, `Declined`, `Streaming`,
  `Chunking`, `Posting`, `Summed`), each with what may lie on the line then. `Prompt`: no command line has early timeouts. With raw files `core` finds `NoOverrun` true with
  them too, because a host that has given up stays silent; with ELF files they would break it.
  `SectionsLoad`: no section of an ELF file has failed. It
  cannot be dropped: `loadElfSections` goes on with the next section (`loadp2.c:529`) while
  the loader still waits for the rest of the last. `RawPaced` shows that command lines
  without ELF files need no such hypothesis.
- `MailboxSafe`: `Prompt /\ JobsClear => (Spec /\ []SectionsLoad /\ []CallsIdle =>
  []MailboxIntact /\ []PingPongSafe)`, which frees `PingPongCorrect` of its hypothesis. The
  invariant `MailInd` follows the address of a block from the header the host sends to the
  loader's pointer. `JobsClear` is about the command line: no file and no ARGv lies over the
  mailbox of the helper. It is needed, for the code does not look (section 11); the
  command lines of `core` satisfy it. `CallsIdle`: when
  `!` comes the mailbox is empty. Over a line with faults that rests on the checksum of the
  helper's image having noticed them.
- `CleanLoad`: over a line without faults (`MaxFaults = 0`) `CallsIdle` is proved too,
  from `IdleImage` (the mailbox in the helper's image is empty: `himem_flash.spin2` has
  `long 0[4]` there) and `CallInd`: every byte of the helper on the line or yet to be sent
  is the one that belongs where it will be stored (`CleanCalls`).
- `ErasesFirst`: `Prompt /\ JobsClear /\ JobsOnSectors => (Spec /\ []SectionsLoad /\
  []CallsIdle => ProgramErased)`. The helper erases a sector when it comes to its first
  page and at no other time, so what must be inductive is that wherever it goes on inside a
  sector the rest of the sector is erased already (`Ready`). Three parts carry that around:
  `ReadyInd` with the helper (at a request not yet taken, between two pages, behind a
  request it has finished), `NextInd` with the loader (the next chunk goes where the last
  one ended), `StubInd` with the host (an address it sends begins a sector, and `F` comes
  only behind a stub that filled the chunk before the image). `ReadyNext` is the step from
  page to page, wrapping at the end of the flash; `Quotient` to `AddMod` are the facts about
  remainders it needs. `JobsOnSectors` is again about the command line: a file or ELF
  section for flash begins on a sector, or at an address the helper refuses. It is
  needed (section 11), and the command lines of `core` satisfy it.
- `CleanErases`: over a line without faults and without ELF files, `ProgramErased` has
  hypotheses about the command lines and the helper's image only, none about the behaviour.
- `StartCorrect`: `Prompt => (Spec /\ []SectionsLoad => []StartsFirstFile)`, and `RawStarts` for
  command lines without ELF files, without a condition on the behaviour. `StartInd` follows
  the address from the command line to the loader: until a section with bytes is announced
  the loader has none, and from then on it has that section's (`Started`, `Told`); a header
  on its way holds the address of the section the host is at (`HeaderTold`); `!`, which calls
  the helper through the same variable, leaves it as if nothing had been announced
  (`CallLast`). A section without bytes sends no header and is passed over. `StartOK`, which is
  inductive, adds that after the last file nothing changes the address any more: neither the
  request to program what is left, nor ARGv, nor the start itself. Files may lie anywhere.

### The SD driver (`SdmmProofs`)

- `NeverMidTransfer` (`InStep`), `SyncStores` (`SyncedMeansStored`), `CallsTellTruth`
  (`TellsTruth`, an action property): `Spec => ...`, with no further hypothesis, whichever
  commands and data blocks fail and whenever the card is swapped. `Outcome` says what one
  command can do to a card, answered or not, and `Settled` what a card holds when it has
  programmed what waits. The invariant has a part for each phase: which transfer the card
  is in (`TransferInd`), what initialisation has found out (`InitInd`), which sectors of a
  call are stored (`StoreInd`), what was read (`ReadInd`), that nothing waits after
  `CTRL_SYNC` (`SyncInd`), and what a call is (`CallInd`). The arithmetic of the card's size
  (`NewLayout`, `OldLayout`, `Shifts`) is that of both versions of the register.

### The 9P server (`NinePServerProofs`, `NinePAnyProofs`)

- `ServerTypes` (`TypeOK`), `FidsMatchHandles` (`HandleMatches`) and `RefusedFidsStay`
  (`RefusalKeepsFids`, an action property), for any menu of requests in any order, any
  file system, and other programs between any two system calls.
- `ServerInd` has a part for the host's files, one for the fid table, one that says which
  request a handler that is between two of its steps is about (`RequestInd`), and
  `HandleInd`. One lemma for each handler shows that it is kept. `BeforeInd` adds that the fid
  table is what it was when the request came, up to the moment a file has been created;
  what `rcreate` does when the second look fails undoes exactly that (`Undone`).
- `ListingsWhole` (`ListsEachOnce`): a directory read to its end has shown every name once,
  for any directories, entry lengths and counts, any order `readdir` may take, and any requests
  in between. `ListingInd` adds what is true in the middle of a listing. `Parts`: the names shown
  with those in the buffer (`Got`), the entry in the cache and what `readdir` has yet to return
  cut the listing into parts that have no name in common. That alone is not inductive, because
  `rread` looks each entry up by the path of its fid and drops one it does not find: as long as the
  history is `steady` the path leads to the directory of the stream, so that an entry of the
  listing is found (`StatAppend`: one name more is one step more), and nothing is dropped. The
  stream of a directory just created begins empty because an unused inode has no entries
  (`FreeIsEmpty`) and its path leads to it, for making something in a directory moves nothing on
  the way there (`MakeKeeps`). `diroffset` is 0 only when nothing has been shown (`FilledType`:
  entries take bytes), which is what the server starts a listing afresh by.
- Several definitions of the server are folds and other recursions over data (a walk over
  names, the listing of a directory). `FoldLemmas` shows the type of a fold by the
  least place at which it could fail.

### The file calls of a program (`NinePSystemProofs`)

- `HeldIsOpen`: `Behaviour(k, e, d) => []OpenMeansOpen`, for any file system `k, e, d`, any
  menu of calls of the types of `fs9p.h` (`CallType`), any message sizes, any failure of
  the host, and other programs that make and remove files. `OpenMeansOpen` alone is not
  inductive: whether a reply `Ropen` is true depends on which request it answers. `Ind`
  adds to `ServerInd` what the library believes: one request or one reply is on its way
  while a call waits (`TurnInd`), the request is the one the call has come to (`AskedInd`),
  a call that opens does not name a file that is held (`CallInd`), and a reply that says a
  file is open is true (`ReplyInd`, which is also where `rcreate`'s second look at the file
  matters). The lemma about the server (`HeldStaysOpen`) says that only the request for
  a fid changes it.
- `FilesKeepPromise`: `Behaviour(k, e, d) /\ []FilesOnly => KeepsFilePromise`, the refinement
  of `FileSpec`. Every step of the library, the server and the other programs is a step of
  `FileSpec` or changes nothing it sees. The step happens where the server acts; when the
  library takes the reply, `Place`, `Delivered` and `Given` stay what they were (`ReadTaken`,
  `WriteTaken`, `OpenTaken`). A write that is refused is `GiveUp`: what is left of it is not
  put anywhere. `FilesInd` adds to `Ind` the state of the store (names and
  descriptors lead to inodes in use, `StoreInd`), that no place is beyond the bound
  `MaxOff` (`PlaceInd`), and that a reply brings no more than was asked for and `buf` has
  bytes (`DataInd`). The hypotheses: `Tidy`, what a file system is (the root and every
  named inode are in use, free ones are empty, nothing is longer than the model's bound); and
  `FilesOnly`, that no fid is opened on a directory, because `FileSpec` is about files and the
  library reads a directory by the same calls. The run `nine_calls` meets both.

### Booting from flash (`FlashBootProofs`)

- `FlashBoots`: `Spec => []BootsWhatWasFlashed`, and `FlashStaysBootable`:
  `Spec => [][StaysBootable]_vars`, the safety half of `AlwaysBoots`, for both ways, all files,
  all sizes of pages, blocks and flash, any damage to what is sent, and power cuts at any moment. What runs is exactly what was flashed in the single way. In the fast
  way it comes first, and what follows it is no more than the stub's count of bytes, taken for longs,
  makes it read: that the application runs *alone* is false there (`claim_stub`).
- It comes in three parts. *The image*: `FoldPrefixes` of `FoldLemmas` takes
  `readElfFileToMem`'s loop apart entry by entry (`EntryLaid`, `LaidNext`, `LaidAll`), which
  gives `IsLaidOut`: every byte of the image comes from an entry that covers it, or is zero. The same
  lemmas, over hub memory in place of zeros, give `AreSectionsLaid` for `loadElfSections`. `RawBytes` is about the
  bytes behind a raw file. Together they are `AppIs` and `LastIs`, the first half of
  `BootsWhatWasFlashed`: what was flashed is what the file says.
  *The sums*: `SumReplaced` says what patching one long does to a checksum, so what
  the host sends adds up to what the line did to it (`SentIs`), the programmer goes on only if that
  was nothing, its settings make the loader's first longs add up to "Prop" (`SettingsIs`),
  and so do those of the host's stub (`StubProgram`). *The flash*: `FlashInv`. `Progress` is what is
  inductive about programming: pages before this one hold what they should, and the rest of
  the block this page is in is erased once the erasing is done. That needs a change
  from big to small blocks to fall on the start of a small one (`Multiples`), the next page to
  be in the same block unless its number is a multiple of the size (`SameBlock`), and earlier
  pages to be in other blocks when it is (`OtherBlock`). `Done`: what was programmed whole is all
  there until the next is begun; a power cut spoils only what is being written.
- Nothing is assumed of checksums: that the file flashed last boots does not
  rest on their telling files apart. `NoErrantApp` does (below).

### YMODEM (`YmodemProofs`)

- `AcksAreEarned`: `Spec => []AckMeansHeld`, for any file, any block sizes, any wrap of the
  block numbers and any number of faults. `UnderWay`: there is one packet on its way or
  one verdict on a packet, never both, because the sender repeats nothing by itself and the
  receiver prompts when nothing comes. `AtHeader`, `AtBlocks` and `AtEnd` say for each
  place the sender can be at what the receiver has: all that was put into blocks, or all but the
  block that is being sent, which then is the one it wants and is not acknowledged.
  `NextNumber` (two block numbers that follow each other differ) and `NextBlockFits` (cut
  to the size of the file, the padding of the last block is gone) are the facts behind it.

### What stays with TLC

- Liveness: it needs fairness and ENABLED.
- Modules with RECURSIVE operators and what uses them: `Session`, `FatVolume`, `FatFs`,
  `FatClient`, `SdBoot`. What these operators compute for every input
  is a matter of induction over data.
- `NoErrantApp` rests on checksums that do not collide, which the
  instance arranges by its choice of bytes and no assumption on the constants could state
  faithfully: half an application can add up to "Prop".
- `WireUnambiguous` and `SpeaksOneLanguage`, about all the bytes of a message: what is read back
  from a concatenation of encodings of any length is again induction over data.
- Not proved: the refinement of `DownloadSpec` (section 12).

## 11. Where the code differs from what is said of it

With a run:

- `claim_hears`: `recv(ab)` does not hear "ab" in "aab": a character that ends a match is not
  itself tried as the first of another (`loadp2.c:1537`). `README.md:77` says that `recv` waits
  until the string is received.
- `claim_stub`: loadp2 puts a number of bytes into the stub (`loadp2.c:913`) where
  `flash_stub.spin2:43` says "number of longs", and the stub reads that many longs.
- `claim_errant`: `flash_stub.spin2` verifies no checksum, which its comments (29 to 33) say it
  does, so a power cut between the stub and the application leaves a flash that
  boots into whatever is there.

Seen while modelling; the models do what the code does:

- Download: a section of an ELF file that fails to load adds -1 to the size and does not
  stop the download (`loadp2.c:529`). A file for flash that begins inside a sector is
  programmed without erase (`himem_flash.spin2:121`). With a helper loaded, ARGv is written
  over its mailbox (`loadp2.c:935`). A raw file is rounded up to whole longs and sent with
  what memory has behind it, up to three bytes that overwrite what was loaded there
  (`loadp2.c:571`, `889`). The size put before `@ADDR+file` is that of the
  file before (`loadp2.c:864`). `readElfFileToMem`'s image is as long as if it began at 0
  (`loadp2.c:287`). `-PATCH` with `-FLASH -SINGLE` changes the programmer after its
  checksum was computed.
- Handshake: the ROM's version is cut at 11 characters, where an FPGA's letter may be
  missing.
- Scripts: the default of `recvtimeout` is 2000 where `README.md:121` says 1000. `^(`, a left
  parenthesis in `README.md:91`, is reported and left out (`loadp2.c:1704`). `elapsedms` on Linux takes
  `gettimeofday`'s success for failure and counts whole seconds (`osint_linux.c:519`), so a `recv` whose
  timeout is no number of whole seconds may give up before it. A file is sent with a pause behind every character when
  `pauseafter` is 0, and the count of characters restarts with each command. An unknown
  command is reported and skipped. A changed baud rate flushes what the program has
  sent.
- Terminal: what was read behind a 9P message, from the same read, is lost
  (`osint_linux.c:455`). Typed characters may come between a request and its reply.
  An exit code is overwritten by later bytes of the same read. On Windows the
  character behind an `ff` that starts no sequence may start one. `sysfatal`
  returns, and handlers run on a message that was never read.
- 9P: a reply that is larger than the messages agreed on, or that cannot be written, is not sent, and
  the client waits for it (`u9fs.c:292`). `fs_read` and `fs_write` of 1025 bytes and more are refused by the server
  (`fs9p.cc:286`). `fs_create` does not set the offset (`fs9p.cc:244`). After a refused open the
  `fs_file` cannot be opened again (`fs9p.cc:203`). `strncmp` in `fs_init` lacks its length.
  `Tversion` keeps the fids of the last session (`u9fs.c:410`). A read too small for the
  next directory entry looks like the end (`u9fs.c:814`). A directory that was renamed while it is
  open is empty when it is read again, for entries are looked up by the old path
  (`u9fs.c:827`). `GBIT64` extends the sign of its low
  half (`fcall.h:51`).
- YMODEM: a receiver that leaves with CAN is waited for without end (`sb.c`).
- SD driver: the answer to CMD12 is ignored, data checksums are not looked at, a late
  answer leaves driver and card out of step until the next initialisation, and
  `CTRL_SYNC` succeeds without a card.
- FatFs: failures to write FSInfo or the second FAT are not seen. The free count of FSInfo
  is stale after a power cut, and 0 is believed (`ff.c:1562`). A directory's new cluster is linked
  before it is cleared (`ff.c:1795`), so a power cut there brings back entries of a directory that
  had the cluster before.
- Updater: it deletes the old boot file before it writes the new one, so a power cut can
  leave none; after an error that is not "not ready" it goes on to write.

## 12. What is not modelled, and the plan

The theorem to prove next is the refinement of `DownloadSpec`, one action of `HostLoader` and
`MainLoader` after the other.

Not modelled: option parsing, the names of ports and how they are opened, `-PATCH`,
console modes; user and group checks and times of u9fs (the host may refuse any call
instead); the debug printing of u9fs; `board/P2ES_flashloader.spin2`, an older programmer;
subdirectories, FAT12 and 16, exFAT, long names, `f_mkfs`, `f_rename`, `f_mkdir` and directory listing of
FatFs, most of which `ffconf.h` or `sdboot.c` leave out; SPI and SD bit timing; ELF symbol tables; the assembled `.h` forms of the Spin
programs, which are their sources translated.
