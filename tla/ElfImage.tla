------------------------------ MODULE ElfImage ------------------------------
(***************************************************************************)
(* How loadp2 turns a file into the bytes it sends.  A file that does not  *)
(* start with an ELF header is sent as it is, up to a whole number of      *)
(* longs (readBinaryFile).  One that does is sent in one piece, laid out   *)
(* by its program table over zeros (readElfFileToMem), or section by       *)
(* section, over what the hub memory holds (loadElfSections).              *)
(*                                                                         *)
(* A file is its bytes (data) and, for ELF, its program table (phdrs), of  *)
(* which `readable` entries lie within the file, and whether the header of *)
(* the string section does (strings).  What may come of it is a set, empty *)
(* when loadp2 gives up.                                                   *)
(***************************************************************************)
EXTENDS ByteSeq, FiniteSetsExt

CONSTANTS
  LongSize,  \* bytes of a long                        (4)
  MaxImage,  \* the largest image it will build        ($FFFFFF)
  HeapBytes  \* what memory from malloc may hold

Zeros(n)   == [i \in 1..n |-> 0]
RoundUp(n) == n + ((-n) % LongSize)

ReadAndCheckElfHdr(f) == f.elf

(* The symbol table is looked up as well, and never used. *)
OpenElfFile(f) == f.strings

LoadProgramTableEntry(f, i) == i <= f.readable

Loaded(p) == p.type = "PT_LOAD"
Loads(f)  == {p \in ToSet(f.phdrs) : Loaded(p)}
Base(f)   == Min({p.paddr : p \in Loads(f)})
Top(f)    == Max({p.paddr + p.memsz : p \in Loads(f)} \cup {0})
Whole(f, p) == p.offset + p.filesz <= Len(f.data)

(* size = top - size, where size is still 0: the image is as long as if it *)
(* began at 0, although it begins with the lowest segment.                 *)
ImageSize(f) == Top(f)

(* What the entries of the table do to a memory that begins at base.       *)
LoadEntry(f, base, mem, p) ==
  IF Loaded(p) /\ p.filesz # 0
  THEN Overlay(mem, p.paddr - base, Slice(f.data, p.offset, p.filesz))
  ELSE mem
Laid(f, phdrs, base, mem) ==
  FoldLeft(LAMBDA m, p : LoadEntry(f, base, m, p), mem, phdrs)

readElfFileToMem(f) ==
  IF /\ OpenElfFile(f)
     /\ \A i \in DOMAIN f.phdrs : LoadProgramTableEntry(f, i)
     /\ \A p \in Loads(f) : p.memsz >= p.filesz /\ Whole(f, p)
     /\ ImageSize(f) <= MaxImage
  THEN {Laid(f, f.phdrs, Base(f), Zeros(ImageSize(f)))}
  ELSE {}

(* What fills up the last long is whatever malloc returned.                *)
RoundedUp(s) == {s \o pad : pad \in [1..RoundUp(Len(s)) - Len(s) -> HeapBytes]}

readBinaryFile(f) ==
  CASE ReadAndCheckElfHdr(f)                    -> readElfFileToMem(f)
    [] ~ReadAndCheckElfHdr(f) /\ f.data = <<>>  -> {<<>>}
    [] OTHER                                    -> RoundedUp(f.data)

(* An entry that cannot be read is passed over.                            *)
Readable(f) == SubSeq(f.phdrs, 1, f.readable)
Sections(f) == {p \in ToSet(Readable(f)) : Loaded(p) /\ p.filesz # 0}
SectionsTop(f) == Max({p.paddr + p.filesz : p \in Sections(f)} \cup {0})

(* The hub memory after it; what was sent before a section that is cut off *)
(* stays there, and loadfile gives up.                                     *)
loadElfSections(f, hub) ==
  IF ReadAndCheckElfHdr(f) /\ OpenElfFile(f) /\ \A p \in Sections(f) : Whole(f, p)
  THEN {Laid(f, Readable(f), 0, hub)}
  ELSE {}

-----------------------------------------------------------------------------
(* An image that begins at base has each entry where the others expect it, *)
(* and where there is none what was there before.                          *)
Covers(base, p, i) == i - 1 + base \in p.paddr..p.paddr + p.filesz - 1
From(f, base, p, i) == f.data[p.offset + i + base - p.paddr]

LaidOver(f, entries, base, before, image) ==
  \A i \in 1..Len(image) :
    IF \E p \in entries : Covers(base, p, i)
    THEN \E p \in entries : Covers(base, p, i) /\ image[i] = From(f, base, p, i)
    ELSE image[i] = before[i]

LaidOut(f, image) ==
  Len(image) = Top(f) /\ LaidOver(f, Loads(f), Base(f), Zeros(Top(f)), image)

SectionsLaid(f, hub, image) ==
  Len(image) = RoundUp(SectionsTop(f)) /\ LaidOver(f, Sections(f), 0, hub, image)
=============================================================================
