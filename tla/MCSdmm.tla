-------------------------------- MODULE MCSdmm --------------------------------
(***************************************************************************)
(* Two sectors, and the size fields of a 32 GB, an 8 GB and two old cards. *)
(***************************************************************************)
EXTENDS Sdmm

MCSizes == { <<2, 60874, 0, 0>>, <<2, 15159, 0, 0>>, <<1, 3751, 7, 10>>, <<1, 991, 4, 9>> }
=============================================================================
