------------------------------ MODULE MCFatClient ------------------------------
(***************************************************************************)
(* Two small cards, as in MCSdBoot: one with a file in two pieces, one     *)
(* that is nearly full.                                                    *)
(***************************************************************************)
EXTENDS FatClient

Data1(n) == [i \in 1..n |-> <<"a", i>>]
Data2(n) == [i \in 1..n |-> <<"b", i>>]
Fragmented ==
  Formatted({[chain |-> <<6, 3>>, data |-> Data1(6)]}, <<2>>,
            <<[name |-> "a", clust |-> 6, size |-> 6]>>,
            [is |-> "fsinfo", free |-> 3, last |-> 3], TRUE)
Crowded ==
  Formatted({[chain |-> <<3, 5, 4>>, data |-> Data2(9)]}, <<2>>,
            <<[name |-> "b", clust |-> 3, size |-> 9], [name |-> Deleted, clust |-> 6, size |-> 1]>>,
            [is |-> "fsinfo", free |-> 2, last |-> 5], TRUE)
MCCards == {Fragmented, Crowded}
MCBlocks == {<< <<"n", 1>> >>, [i \in 1..5 |-> <<"m", i>>]}
MCModes == { {"READ"}, {"READ", "WRITE"}, {"WRITE", "CREATE_ALWAYS"}, {"READ", "WRITE", "CREATE_NEW"},
             {"READ", "WRITE", "OPEN_ALWAYS", "SEEKEND"} }
=============================================================================
