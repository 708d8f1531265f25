---------------------------- MODULE MCNinePSystem ----------------------------
(***************************************************************************)
(* Two handles; a root directory with the file "a", and one file to come.  *)
(***************************************************************************)
EXTENDS NinePSystem

CONSTANTS f1, f2

MCKind == <<"dir", "file", "free">>
MCEnt == [i \in Inodes |-> [n \in Names |-> IF i = 1 /\ n = "a" THEN 2 ELSE Nothing]]
MCData == << <<>>, <<1, 0, 1>>, <<>> >>

MCInit == Init(MCKind, MCEnt, MCData)
MCSpec == MCInit /\ [][Next]_vars /\ Fairness

Opens(fs, path, mode, trunc) ==
  [op : {"open"}, f : fs, path : {path}, mode : {mode}, trunc : {trunc}]
Creates(fs, path) == [op : {"create"}, f : fs, path : {path}]
Closes(fs) == [op : {"close"}, f : fs]
Reads(fs, counts) == [op : {"read"}, f : fs, count : counts]
Writes(fs, pieces) == [op : {"write"}, f : fs, data : pieces]

(* f1 reads what f2 creates, truncates and writes. *)
FileCalls ==
  Opens({f1}, <<"a">>, "read", FALSE) \cup Creates({f2}, <<"a">>) \cup
  Closes(Files) \cup Reads({f1}, {2}) \cup Writes({f2}, { <<0, 1>> })

MCEntrySize == [n \in Names |-> 2]         \* no directory is read

MCReplySize == [t \in ReplyTypes |-> IF t = "Rread" THEN 2 ELSE 1]

MCFidNo == f1 :> 7 @@ f2 :> 2049 @@ RootDir :> 4094  \* addresses of 32 bits
MCSpelling == "a" :> <<97>> @@ "." :> <<46>>

HostA == { <<"a">> }
=============================================================================
