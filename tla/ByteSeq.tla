------------------------------ MODULE ByteSeq ------------------------------
(***************************************************************************)
(* What pread, pwrite and truncate do to the contents of a file.  A gap    *)
(* before the offset of a write reads as zeros.                            *)
(***************************************************************************)
EXTENDS Integers, Sequences, SequencesExt

Slice(s, offset, count) == SubSeq(s, offset + 1, Min({offset + count, Len(s)}))

Overlay(s, offset, bytes) ==
  [i \in 1..Max({Len(s), offset + Len(bytes)}) |->
     IF i \in offset + 1..offset + Len(bytes) THEN bytes[i - offset]
     ELSE IF i <= Len(s) THEN s[i] ELSE 0]

Resized(s, n) == [i \in 1..n |-> IF i <= Len(s) THEN s[i] ELSE 0]
=============================================================================
