---------------------------- MODULE MCLoadSystem ----------------------------
(***************************************************************************)
(* Small instances of LoadSystem.  Scaling: a long is 2 bytes, a flash     *)
(* page 2, a ping-pong buffer (the host's chunk) 4, a flash sector 8; hub  *)
(* memory is 0..7 for files, 8 on for the helper (code byte, the mailbox   *)
(* at 9..11), 13 on for the two buffers.                                   *)
(***************************************************************************)
EXTENDS LoadRefinement

MCHelperImage == <<7, 0, 0, 0>>
MCErrText     == <<97, 100>>

(* An erased chip, and one that holds an earlier program. *)
MCFlash == { [a \in FlashAddr |-> 255], [a \in FlashAddr |-> 9] }

NoSegs == <<>>
Bin(a, d)   == [kind |-> "bin", addr |-> a, data |-> d, segs |-> NoSegs]
Sized(a, d) == [kind |-> "sized", addr |-> a, data |-> d, segs |-> NoSegs]
Elf(d, s)   == [kind |-> "elf", addr |-> 0, data |-> d, segs |-> s]
Seg(a, d)   == [addr |-> a, data |-> d]
Hi(a)       == 32768 + a

CmdLine(h, fs, fl, av) == [helper |-> h, files |-> fs, flash |-> fl, argv |-> av]

(* The first n bytes of a file whose bytes all differ. *)
Data(n) == [i \in 1..n |-> i]

(* Downloads to hub memory only: two files, an empty file and arguments.   *)
JobHub  == CmdLine(FALSE, <<Bin(0, Data(5)), Bin(6, <<6>>)>>, FALSE, <<>>)
JobArgs == CmdLine(FALSE, <<Bin(2, <<>>), Bin(0, Data(2))>>, FALSE, <<65, 0>>)

(* @ADDR+file behind a file of another size, which is the size that is put *)
(* in front of it.                                                         *)
JobSized == CmdLine(FALSE, <<Bin(0, Data(4)), Sized(4, Data(1))>>, FALSE, <<>>)

(* A file right below one that was loaded before: the byte that fills its  *)
(* last long falls on the first byte of the other.                         *)
JobBelow == CmdLine(FALSE, <<Bin(3, <<9, 8>>), Bin(0, Data(3))>>, FALSE, <<>>)

(* A flash file of n bytes at the start of a sector: part of a page, part  *)
(* of a chunk, whole chunks, more than a sector.  The hub file ends, with  *)
(* what fills its last long, where the mailbox begins.                     *)
JobHigh(n) == CmdLine(TRUE, <<Bin(7, <<1>>), Bin(Hi(8), Data(n))>>, FALSE, <<>>)

(* Two flash files, sectors apart. *)
JobHigh2 == CmdLine(TRUE, <<Bin(0, <<1, 2>>), Bin(Hi(24), Data(3)), Bin(Hi(8), Data(6))>>,
                    FALSE, <<>>)

(* -FLASH with an image of n bytes, from one page to across a sector. *)
JobFlash(n) == CmdLine(TRUE, <<Bin(0, Data(n))>>, TRUE, <<>>)

(* -FLASH with nothing in hub memory: the copied image is empty. *)
JobFlashHigh == CmdLine(TRUE, <<Bin(Hi(16), Data(2))>>, TRUE, <<>>)

(* A flash address the helper rejects, with the error reported at the end  *)
(* of the file and in the middle of it; and no helper at all.              *)
JobBadEnd  == CmdLine(TRUE, <<Bin(0, <<1, 2>>), Bin(Hi(9), Data(3))>>, FALSE, <<>>)
JobBadMid  == CmdLine(TRUE, <<Bin(0, <<1, 2>>), Bin(Hi(9), Data(9))>>, FALSE, <<>>)
JobNoHelp  == CmdLine(FALSE, <<Bin(0, <<1, 2>>), Bin(Hi(0), <<1>>)>>, FALSE, <<>>)

BinJobs == {JobHub, JobArgs, JobSized, JobBelow, JobHigh2, JobFlashHigh, JobBadEnd, JobBadMid, JobNoHelp}
             \cup {JobHigh(n) : n \in {1, 2, 3, 4, 5, 8, 9}}
             \cup {JobFlash(n) : n \in {1, 4, 5, 7}}

(* ELF files: sections in hub and flash, one of them empty; and one that   *)
(* is in flash only.                                                       *)
JobElf     == CmdLine(TRUE, <<Elf(<<1>>, <<Seg(0, Data(2)), Seg(4, <<>>),
                                           Seg(Hi(16), Data(5))>>)>>, FALSE, <<>>)
JobElfHigh == CmdLine(TRUE, <<Elf(<<5, 6>>, <<Seg(Hi(16), Data(5))>>)>>, FALSE, <<>>)
ElfJobs == {JobElf, JobElfHigh}

AllJobs == BinJobs \cup ElfJobs

(* Raw files are loaded over a line that may still fail; ELF files over    *)
(* one that has had its fault, because loadElfSections goes on behind a    *)
(* section that failed.                                                    *)
MCInit == Init /\ faults = IF job \in ElfJobs THEN MaxFaults ELSE 0
MCSpec == MCInit /\ [][Next]_vars /\ Fairness
=============================================================================
