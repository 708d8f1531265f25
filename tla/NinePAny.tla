------------------------------ MODULE NinePAny ------------------------------
(***************************************************************************)
(* The 9P server with a program that may send any request, in any order,   *)
(* while other programs of the host make and remove files next to it.      *)
(***************************************************************************)
EXTENDS NinePServer

CONSTANTS
  Menus,      \* what is asked for: each menu has the messages (asks) the program
              \* may send and the paths (touched) other programs make and remove
  MaxOutside, \* bound on how often they do
  MaxWalk,    \* the longest walk in a message                      (16)
  Radix, FidNo, Spelling   \* the bytes of messages, see NinePWire

(* A request is one that convM2S can have read from a message; what other  *)
(* programs touch has a name.                                              *)
ASSUME RequestAssumption ==
  \A m \in DOMAIN Menus :
    /\ Menus[m].asks \subseteq Requests
    /\ \A ask \in Menus[m].asks : ask.type = "Twalk" => Len(ask.wname) <= MaxWalk
    /\ Menus[m].touched \subseteq Seq(Names) \ { <<>> }

Wire == INSTANCE NinePWire WITH Absent <- Nothing

VARIABLES
  menu,    \* the one of this behaviour
  outs,    \* how often other programs have changed something
  shown,   \* history: names each fid has read since it last began at 0
  steady,  \* history: the listing under way was begun afresh and no name
           \* has come or gone since
  before   \* history: the fid table when the request under way arrived

histVars == <<shown, steady, before>>
vars == <<fsVars, srvVars, link, menu, outs, histVars>>

Init(k, e, d) ==
  /\ kind = k /\ ent = e /\ data = d
  /\ ServerInit /\ LinkInit
  /\ menu \in DOMAIN Menus /\ outs = 0
  /\ shown = [f \in FidIds |-> <<>>]
  /\ steady = [f \in FidIds |-> TRUE]
  /\ before = <<>>

Ask == /\ srv = "idle" /\ req = Idle
       /\ req' \in Menus[menu].asks /\ rep' = Idle /\ lost' = "no"
       /\ before' = fidtab
       /\ UNCHANGED <<fsVars, srvVars, menu, outs, shown, steady>>

(* The histories: a reply to a directory read adds its names; a change of  *)
(* names ends the peace, and so does a reply that is lost, a rewind while  *)
(* an entry waits in the cache or when the path no longer leads to the     *)
(* stream's directory.                                                     *)
ReadAnswered == srv = "dir" /\ srv' = "idle"
Rewinding == srv = "idle" /\ srv' = "dir" /\ req.offset # fidtab[req.fid].diroffset

HasStream(f) == Known(f) /\ fidtab[f].dir # Nothing

ServerWithHistory ==
  /\ ServerStep
  /\ shown' = [f \in FidIds |->
        CASE ~HasStream(f)' -> <<>>
          [] HasStream(f)' /\ ReadAnswered /\ f = req.fid ->
               IF lost' # "no" THEN <<>>
               ELSE IF fidtab[f].diroffset = 0 THEN list ELSE shown[f] \o list
          [] OTHER -> shown[f]]
  /\ steady' = [f \in FidIds |->
        CASE ~HasStream(f)' \/ ~HasStream(f) -> TRUE
          [] HasStream(f) /\ HasStream(f)' /\ ent' # ent -> FALSE
          [] /\ HasStream(f) /\ HasStream(f)' /\ ent' = ent
             /\ ReadAnswered /\ f = req.fid /\ lost' # "no" -> FALSE
          [] HasStream(f) /\ HasStream(f)' /\ ent' = ent /\ Rewinding /\ f = req.fid ->
               fidtab[f].dirent = Nothing /\ Stat(Path(f)) = fidtab[f].dir
          [] OTHER -> steady[f]]
  /\ before' = IF req' = Idle THEN <<>> ELSE before
  /\ UNCHANGED <<menu, outs>>

Outside ==
  /\ outs < MaxOutside
  /\ outs' = outs + 1
  /\ \E path \in Menus[menu].touched :
       \/ CanUnlink(path) /\ Unlink(path)
       \/ \E k \in {"dir", "file"} :
            CanMake(Front(path), Last(path)) /\ Make(Front(path), Last(path), k)
  /\ steady' = [f \in FidIds |-> ~HasStream(f)]
  /\ UNCHANGED <<srvVars, link, menu, shown, before>>

Next == Ask \/ ServerWithHistory \/ Outside

-----------------------------------------------------------------------------
(* Type invariant of the file system and the server (u9fs.c's struct Fid). *)
TypeOK == HostTypeOK /\ ServerTypeOK

(* A fid is open exactly when it has a descriptor or a directory stream,   *)
(* and never both, whatever failed on the way (useropen, usercreate); only *)
(* while usercreate is at work does it have one before it is open.         *)
HandleMatches ==
  \A f \in FidIds : Known(f) =>
    /\ fidtab[f].fd = Nothing \/ fidtab[f].dir = Nothing
    /\ (fidtab[f].omode # Closed \/ (srv = "created" /\ req.fid = f)) <=>
         (fidtab[f].fd # Nothing \/ fidtab[f].dir # Nothing)

(* A request that is refused leaves the fid table as it found it, although *)
(* files come and go between its system calls (the early returns of every  *)
(* handler).  Tremove always frees its fid, a Twstat may have renamed when *)
(* it fails to truncate, and a Tcreate whose file vanishes before the last *)
(* fidstat has opened the fid it refuses.                                  *)
RefusalKeepsFids ==
  [][rep' = Rerror /\ rep # Rerror /\ req.type \notin {"Tremove", "Twstat"} /\ srv # "qid"
       => fidtab' = before]_vars

(* A directory read to its end shows every name once, however the counts   *)
(* cut it up and although an entry that did not fit waits in the cache,    *)
(* unless names come and go meanwhile or the directory itself was renamed  *)
(* or moved away (rread's directory loop, which looks entries up by path). *)
ListsEachOnce ==
  \A f \in FidIds :
    Known(f) /\ fidtab[f].direof /\ steady[f] =>
      /\ ToSet(shown[f]) = Listing(fidtab[f].dir)
      /\ Len(shown[f]) = Cardinality(Listing(fidtab[f].dir))

(* The bytes of every message that is sent are read as that message and as *)
(* no other: its entries and its stat are what they stand for, so that the *)
(* three switches of sizeS2M, convS2M and convM2S, and convD2M and convM2D,*)
(* agree; a message that lost or gained bytes is refused, with the size it *)
(* came with and with one that fits its length; and one that does not fit  *)
(* the buffer is not sent in part.                                         *)
WireUnambiguous ==
  /\ srv = "idle" => \A m \in {req, rep} \ {Idle} : Wire!ReadsBack(m) /\ Wire!OnlyWhole(m)
  /\ \A i \in DOMAIN list : Wire!EntryReadsBack(list[i])
  /\ srv = "idle" /\ req.type = "Twstat" => Wire!WstatReadsBack(req)

(* Every request is answered: no handler loops for ever (u9fs_process; the *)
(* for loop of rread), and the reply to it is sent: it is never too large  *)
(* for a message, whatever a read or a walk puts into it and whatever size *)
(* was agreed.  The exceptions, in which putfcallnew says so and sends     *)
(* nothing: a line that fails, and a client that asked for messages so     *)
(* small that a reply without data does not fit.                           *)
Smallest ==
  Max({ReplySize[t] : t \in ReplyTypes} \cup ErrorSizes \cup
      {IOHDRSZ, ReplySize["Rwalk"] + MaxWalk * QidSize, ReplySize["Rstat"] + StatSize})
AlwaysAnswers ==
  req # Idle ~> req = Idle /\ (lost = "room" => msize < Smallest)
=============================================================================
