------------------------------- MODULE MCYmodem -------------------------------
(***************************************************************************)
(* A file of five big blocks and a small one: the block numbers wrap.      *)
(***************************************************************************)
EXTENDS Ymodem

MCFile == [i \in 1..11 |-> i]
=============================================================================
