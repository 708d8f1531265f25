----------------------------- MODULE MCNinePAny -----------------------------
(***************************************************************************)
(* A small exported directory: a file "a" and a directory "d", two fids.   *)
(***************************************************************************)
EXTENDS NinePAny

CONSTANTS f1, f2

(* Inode 1 is the root, 2 the file "a", 3 the directory "d" with the file  *)
(* "a" (inode 4) in it; 5 is still free.                                   *)
MCKind == <<"dir", "file", "dir", "file", "free">>
MCEnt == [i \in Inodes |-> [n \in Names |->
            CASE i = 1 /\ n = "a" -> 2
              [] i = 1 /\ n = "d" -> 3
              [] i = 3 /\ n = "a" -> 4
              [] OTHER -> Nothing]]
MCData == << <<>>, <<1>>, <<>>, <<1>>, <<>> >>

MCInit == Init(MCKind, MCEnt, MCData)
MCSpec == MCInit /\ [][Next]_vars /\ WF_vars(ServerWithHistory)

Attach == [type : {"Tattach"}, fid : {f1}]
Clunks(fids) == [type : {"Tclunk"}, fid : fids]
Walks(fids, newfids, lists) ==
  [type : {"Twalk"}, fid : fids, newfid : newfids, wname : lists]
Opens(fids, modes, truncs, rcloses) ==
  [type : {"Topen"}, fid : fids, mode : modes, trunc : truncs, rclose : rcloses]
Creates(modes, isdirs) ==
  [type : {"Tcreate"}, fid : {f2}, name : {"b"}, mode : modes,
   trunc : {FALSE}, rclose : {FALSE}, isdir : isdirs]
Reads(fids, offsets, counts) ==
  [type : {"Tread"}, fid : fids, offset : offsets, count : counts]
Writes == [type : {"Twrite"}, fid : {f2}, offset : {0}, data : {<<1>>}]
Wstats == [type : {"Twstat"}, fid : {f2}, name : {"b", Nothing}, length : {0, Nothing}]
Others == [type : {"Tremove", "Tstat"}, fid : {f2}] \cup [type : {"Tauth", "Tflush"}]
            \cup [type : {"Tversion"}, msize : {3, 11}]

(* Everything about files: f1 stays a name, f2 is opened and closed. *)
FileRequests ==
  Attach \cup Clunks(FidIds) \cup
  Walks({f1}, {f2}, {<<>>, <<"a">>, <<"d", "b">>}) \cup Walks({f2}, {f2}, {<<"..">>}) \cup
  Opens({f2}, {"read"}, {FALSE}, {FALSE}) \cup Opens({f2}, {"rdwr"}, {TRUE}, {TRUE}) \cup
  Creates({"read"}, BOOLEAN) \cup Reads({f2}, {0}, {1, 7}) \cup Writes \cup Wstats \cup Others

(* Listings of the root directory, read in pieces of every size. *)
DirRequests ==
  Attach \cup Clunks({f2}) \cup Walks({f1}, {f2}, {<<>>, <<"d", "..">>}) \cup
  Opens({f2}, {"read"}, {FALSE}, {FALSE}) \cup Reads({f2}, {0, 2, 3, 5}, 1..5) \cup
  [type : {"Tremove"}, fid : {f2}] \cup Creates({"read"}, {TRUE})

(* The directory f2 reads is renamed, through the name f1 for it.          *)
MoveRequests ==
  Attach \cup Clunks({f2}) \cup Walks({f1}, {f1}, {<<"d">>}) \cup
  Walks({f1}, {f2}, {<<>>}) \cup Opens({f2}, {"read"}, {FALSE}, {FALSE}) \cup
  Reads({f2}, {0, 2}, {2, 5}) \cup
  [type : {"Twstat"}, fid : {f1}, name : {"b"}, length : {Nothing}]

MCEntrySize == [n \in Names |-> IF n = "a" THEN 2 ELSE 3]

(* A message of three bytes has no room for a long error, one of four has. *)
MCReplySize == [t \in ReplyTypes |-> IF t \in {"Rversion", "Rread"} THEN 3 ELSE 1]

MCFidNo == f1 :> 7 @@ f2 :> 2049          \* one with the top bit of 32 set
MCSpelling == "a" :> <<97>> @@ "b" :> <<98>> @@ "d" :> <<100>> @@ "." :> <<46>> @@ ".." :> <<46, 46>>

MCMenus == [files |-> [asks |-> FileRequests, touched |-> { <<"a">>, <<"b">> }],
            dirs  |-> [asks |-> DirRequests, touched |-> { <<"a">> }],
            moved |-> [asks |-> MoveRequests, touched |-> { <<"d">> }]]
=============================================================================
