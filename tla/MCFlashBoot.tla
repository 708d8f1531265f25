---------------------------- MODULE MCFlashBoot ----------------------------
(***************************************************************************)
(* A small application that fits the loader, one of a single small block   *)
(* that comes from an ELF file with a gap, one of a big block and more,    *)
(* and ELF files with a header that cannot be read, an odd size, and a     *)
(* segment that is cut off.                                                *)
(***************************************************************************)
EXTENDS FlashBoot

MCProgrammer == <<11, 0, 7>>

Binary(n, k) == [elf |-> FALSE, data |-> [i \in 1..n |-> ((i * i + k) % 47) + 1]]

Segment(type, paddr, memsz, filesz, offset) ==
  [type |-> type, paddr |-> paddr, memsz |-> memsz, filesz |-> filesz, offset |-> offset]
Elf(readable, phdrs) ==
  [elf |-> TRUE, strings |-> TRUE, readable |-> readable, phdrs |-> phdrs,
   data |-> [i \in 1..9 |-> 10 * i]]

MCFiles == <<
  Binary(3, 5),
  Elf(3, << Segment("PT_LOAD", 4, 2, 2, 0), Segment("PT_NOTE", 0, 4, 4, 0),
            Segment("PT_LOAD", 8, 4, 3, 3) >>),
  Binary(37, 9),
  Elf(1, << Segment("PT_LOAD", 0, 4, 4, 0), Segment("PT_LOAD", 4, 2, 2, 0) >>),
  Elf(1, << Segment("PT_LOAD", 0, 3, 3, 0) >>),
  Elf(2, << Segment("PT_LOAD", 0, 3, 3, 0), Segment("PT_LOAD", 2, 4, 3, 7) >>) >>

MCHubs == {[i \in 1..12 |-> 70 + i]}
=============================================================================
