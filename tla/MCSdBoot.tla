------------------------------- MODULE MCSdBoot -------------------------------
(***************************************************************************)
(* Small cards: sectors of two units, clusters of two sectors, four FAT    *)
(* entries to a sector, two directory entries to a sector; the volume is   *)
(* the second partition.                                                   *)
(***************************************************************************)
EXTENDS SdBoot

DataOf(f, n) == [i \in 1..n |-> <<f, i>>]
FileOn(f, chain, n) == [chain |-> chain, data |-> DataOf(f, n)]
EntryOf(f, chain, n) == [name |-> f, clust |-> IF chain = <<>> THEN 0 ELSE chain[1], size |-> n]
Info(free, last) == [is |-> "fsinfo", free |-> free, last |-> last]
NoInfo == [is |-> "none"]
Gone == [name |-> Deleted, clust |-> 4, size |-> 3]

Boot == "boot"
EmptyCard == Formatted({}, <<2>>, <<>>, Info(5, Unknown), TRUE)
(* The old boot file lies in two pieces around another file. *)
OldCard ==
  Formatted({FileOn(Boot, <<6, 3>>, 5), FileOn("x", <<4>>, 3)}, <<2>>,
            <<EntryOf("x", <<4>>, 3), EntryOf(Boot, <<6, 3>>, 5)>>, Info(2, 6), TRUE)
(* One cluster is free, and FSInfo counts two. *)
NearlyFull ==
  Formatted({FileOn("x", <<3, 5, 4, 6>>, 15)}, <<2>>, <<Gone, EntryOf("x", <<3, 5, 4, 6>>, 15)>>,
            Info(2, 2), TRUE)
(* Every slot of the directory is taken, and there is no FSInfo.  The next *)
(* free cluster, 4, was once a directory's: a boot file lay where x does.  *)
OldDirectory == [is |-> "old dir", at |-> [i \in 0..1 |-> IF i = 0 THEN EntryOf(Boot, <<3>>, 4) ELSE Gone]]
FullDirectory ==
  [Formatted({FileOn("x", <<3>>, 4), FileOn("y", <<5>>, 1)}, <<2>>,
             <<EntryOf("x", <<3>>, 4), EntryOf("y", <<5>>, 1), EntryOf("z", <<>>, 0), EntryOf("w", <<>>, 0)>>,
             NoInfo, TRUE)
   EXCEPT ![clst2sect(4)] = OldDirectory]
Unformatted == Formatted({}, <<2>>, <<>>, NoInfo, FALSE)

MCCards == {EmptyCard, OldCard, NearlyFull, FullDirectory, Unformatted}
Image(r, n) == DataOf(r, n)
MCJobs == { <<Image("1", 5), Image("2", 9)>>, <<Image("1", 11), <<>> >>, << <<>>, Image("2", 4)>>,
            <<Image("1", 1), Image("2", 1)>> }
=============================================================================
