----------------------------- MODULE NinePSystem -----------------------------
(***************************************************************************)
(* A program on the P2 that uses files of the host: the client library and *)
(* the 9P server, with other programs of the host making and removing      *)
(* files at the same time.                                                 *)
(***************************************************************************)
EXTENDS NinePServer, Fs9pClient

CONSTANTS
  HostPaths,  \* what other programs make and remove
  MaxOutside, \* bound on how often they do
  Radix, FidNo, Spelling   \* the bytes of messages, see NinePWire

Wire == INSTANCE NinePWire WITH Absent <- Nothing

(* What a program calls: a file it creates has a name, and a transfer of   *)
(* no bytes sends nothing.                                                 *)
Elements == Names \cup {Dot, DotDot}
CallType ==
  [op : {"open"}, f : Files, path : Seq(Elements), mode : Modes, trunc : BOOLEAN] \cup
  {c \in [op : {"create"}, f : Files, path : Seq(Elements)] : c.path # <<>> /\ Last(c.path) \in Names} \cup
  [op : {"close"}, f : Files] \cup
  [op : {"read"}, f : Files, count : Nat \ {0}] \cup
  [op : {"write"}, f : Files, data : Seq(Byte) \ {<<>>}]

ASSUME SystemAssumption ==
  /\ Files \cup {RootDir} \subseteq FidIds /\ Calls \subseteq CallType
  /\ Nothing \notin [file : Inodes, off : Nat]

VARIABLE outs  \* how often they have done so

vars == <<fsVars, srvVars, clientVars, link, outs>>

Init(k, e, d) ==
  /\ kind = k /\ ent = e /\ data = d
  /\ ServerInit /\ ClientInit /\ LinkInit
  /\ outs = 0

Program == ClientStep /\ UNCHANGED <<fsVars, srvVars, outs>>
Server  == ServerStep /\ UNCHANGED <<clientVars, outs>>
Outside ==
  /\ outs < MaxOutside
  /\ outs' = outs + 1
  /\ \E path \in HostPaths :
       \/ CanUnlink(path) /\ Unlink(path)
       \/ CanMake(Front(path), Last(path)) /\ Make(Front(path), Last(path), "file")
  /\ UNCHANGED <<srvVars, clientVars, link>>

Next == Program \/ Server \/ Outside

(* The library goes on with a call it has begun; whether the program calls *)
(* again is its own affair.                                                *)
Fairness == WF_vars(Server) /\ WF_vars(cpc \in Waits /\ Program)

-----------------------------------------------------------------------------
(* What the program holds open, the server holds open under the same       *)
(* number, until the request to close it has been handled: no failure of   *)
(* another call in between takes it away (fs_create's second attempt,      *)
(* rclunk).                                                                *)
OpenMeansOpen ==
  \A f \in inuse :
    \/ Known(f) /\ fidtab[f].omode # Closed
    \/ cpc = "clunk" /\ call.f = f /\ rep # Idle

(* The library puts the bytes of a request together by hand and looks for  *)
(* the parts of a reply at fixed places: the server reads what was meant,  *)
(* and the library sees what the server answered (fs9p.cc, convM2S.c,      *)
(* convS2M.c).                                                             *)
Wanted == [Tversion |-> "Rversion", Tattach |-> "Rattach", Twalk |-> "Rwalk", Topen |-> "Ropen",
           Tcreate |-> "Rcreate", Tclunk |-> "Rclunk", Tread |-> "Rread", Twrite |-> "Rwrite"]
SpeaksOneLanguage ==
  /\ req # Idle => Wire!convM2S(Wire!ClientBytes(req)) = Wire!FcallOf(req)
  /\ rep # Idle =>
       LET bytes == Wire!convS2M(Wire!FcallOf(rep), Wire!NOFID)
       IN \A type \in DOMAIN Wanted :
            Wire!ClientSees(bytes, Wanted[type]) =
              CASE rep.type # Wanted[type]                          -> "failure"
                [] rep.type = Wanted[type] /\ type = "Tversion"     -> rep.msize
                [] rep.type = Wanted[type] /\ type = "Tread"        -> rep.data
                [] rep.type = Wanted[type] /\ type = "Twrite"       -> rep.count
                [] OTHER                                            -> "ok"

(* Every call returns (the loops of fs_read and fs_write stop at a reply   *)
(* of no bytes, do_fs_walk at the end of the path).                        *)
CallsReturn == cpc \in Waits ~> cpc \notin Waits

-----------------------------------------------------------------------------
(* The client and the server together do what FileSpec promises, although  *)
(* a transfer is many messages, replies are shorter than asked for, and    *)
(* the file's name may change hands meanwhile.                             *)
(*                                                                         *)
(* A step happens where the server acts: a reply on its way is counted as  *)
(* taken.                                                                  *)

OnItsWay(f) == rep # Idle /\ cpc \in {"read", "write", "open"} /\ call.f = f

Place(f) ==
  CASE OnItsWay(f) /\ rep.type \in {"Rread", "Rwrite"} -> off[f] + rep.count
    [] OnItsWay(f) /\ rep.type = "Ropen" -> 0
    [] OTHER -> off[f]

Handle(f) ==
  IF Known(f) /\ fidtab[f].fd # Nothing
  THEN [file |-> fidtab[f].fd, off |-> Place(f)]
  ELSE Nothing

Delivered ==
  IF cpc = "read" /\ rep # Idle /\ rep.type = "Rread" THEN buf \o rep.data ELSE buf

Given ==
  CASE cpc = "write" /\ rep # Idle /\ rep.type = "Rwrite" -> SubSeq(left, rep.count + 1, Len(left))
    [] cpc = "write" /\ ~(rep # Idle /\ rep.type = "Rwrite") -> left
    [] OTHER -> <<>>

Promise == INSTANCE FileSpec WITH
  Handles <- Files, FileIds <- Inodes, Bytes <- Byte, NoFile <- Nothing, MaxLen <- MaxOff,
  content <- data, handle <- [f \in Files |-> Handle(f)], delivered <- Delivered, given <- Given

(* Every behaviour of the program and the server, seen through the         *)
(* mapping, is one of FileSpec (fs_open, fs_create, fs_read, fs_write and  *)
(* fs_close against u9fs's useropen, usercreate, rread, rwrite, rclunk).   *)
KeepsFilePromise == Promise!Spec
=============================================================================
