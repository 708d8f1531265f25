---------------------------- MODULE NinePServer ----------------------------
(***************************************************************************)
(* The 9P file server inside loadp2 (u9fs/u9fs.c).  u9fs_process takes one *)
(* message at a time.  Other programs of the host share the file system    *)
(* and may run between the system calls of a handler, so a handler that    *)
(* first looks at the file (fidstat) and then acts on it is two steps: srv *)
(* says which second step is due, seen what fidstat saw.                   *)
(*                                                                         *)
(* A fid is a name (path) until it is opened, and keeps that name          *)
(* afterwards next to its descriptor (fd) or directory stream (dir).       *)
(***************************************************************************)
EXTENDS HostFS, NinePLink, FiniteSets

CONSTANTS
  FidIds,     \* the fid numbers clients use
  NoFid,      \* an unused entry of the fid table
  EntrySize,  \* bytes of the directory entry made for each name
  LENSZ,      \* bytes of a length (BIT16SZ), the least an entry takes
  IOHDRSZ,    \* what the server keeps for a header in a message    (24)
  ServerMsize, \* the largest message it takes
  ReplySize,  \* bytes of a reply of each type, without what it carries:
  QidSize,    \* a qid for every element walked                     (13)
  StatSize,   \* a stat
  ErrorSizes, \* bytes of an Rerror, which has a text
  LineFails   \* whether a write to the serial line may fail

VARIABLES
  fidtab,  \* the fid table
  msize,   \* the message size agreed on
  srv, seen,
  list     \* the names rread has put in its buffer

srvVars == <<fidtab, msize, srv, seen, list>>

Closed == "closed"
Modes  == {"read", "write", "rdwr", "exec"}

FidRec == [path : Seq(Names \cup {Dot}), omode : Modes \cup {Closed},
           rclose : BOOLEAN,
           fd : Inodes \cup {Nothing}, dir : Inodes \cup {Nothing},
           todo : SUBSET Names,                  \* readdir has yet to return
           dirent : Names \cup {Nothing},        \* one entry cache
           diroffset : Nat, direof : BOOLEAN]

ReplyTypes == {"Rversion", "Rflush", "Rattach", "Rwalk", "Ropen", "Rcreate", "Rread", "Rwrite",
               "Rclunk", "Rremove", "Rstat", "Rwstat"}

ASSUME ServerAssumption ==
  /\ EntrySize \in [Names -> Nat]
  /\ \A n \in Names : EntrySize[n] > LENSZ        \* convD2M never writes less
  /\ {LENSZ, IOHDRSZ, ServerMsize, QidSize, StatSize} \subseteq Nat
  /\ ReplySize \in [ReplyTypes -> Nat] /\ ReplySize["Rread"] <= IOHDRSZ
  /\ ErrorSizes \subseteq Nat /\ ErrorSizes # {} /\ IsFiniteSet(ErrorSizes) /\ LineFails \in BOOLEAN
  /\ NoFid \notin FidRec

NewFid(path) ==
  [path |-> path, omode |-> Closed, rclose |-> FALSE, fd |-> Nothing, dir |-> Nothing,
   todo |-> {}, dirent |-> Nothing, diroffset |-> 0, direof |-> FALSE]

(* The requests there are, as convM2S reads them from a message.           *)
Requests ==
  [type : {"Tversion"}, msize : Nat] \cup [type : {"Tauth", "Tflush"}] \cup
  [type : {"Tattach", "Tclunk", "Tremove", "Tstat"}, fid : FidIds] \cup
  [type : {"Twalk"}, fid : FidIds, newfid : FidIds, wname : Seq(Names \cup {Dot, DotDot})] \cup
  [type : {"Topen"}, fid : FidIds, mode : Modes, trunc : BOOLEAN, rclose : BOOLEAN] \cup
  [type : {"Tcreate"}, fid : FidIds, name : Names, mode : Modes,
   trunc : BOOLEAN, rclose : BOOLEAN, isdir : BOOLEAN] \cup
  [type : {"Tread"}, fid : FidIds, offset : Nat, count : Nat] \cup
  [type : {"Twrite"}, fid : FidIds, offset : Nat, data : Seq(Byte)] \cup
  [type : {"Twstat"}, fid : FidIds, name : Names \cup {Nothing}, length : Nat \cup {Nothing}]

(* sizeS2M *)
SizesOf(reply) ==
  CASE reply.type = "Rerror" -> ErrorSizes
    [] reply.type = "Rwalk"  -> {ReplySize["Rwalk"] + reply.nwqid * QidSize}
    [] reply.type = "Rread"  -> {ReplySize["Rread"] + reply.count}
    [] reply.type = "Rstat"  -> {ReplySize["Rstat"] + StatSize}
    [] OTHER                 -> {ReplySize[reply.type]}

(* putfcallnew: a reply that convS2M does not get into a message of limit  *)
(* bytes is not sent, nor one that writen fails to write: sysfatal only    *)
(* says so and returns.  The handler's locals are gone.                    *)
AnswerIn(reply, limit) ==
  /\ rep' = reply /\ req' = Idle
  /\ \E size \in SizesOf(reply) :
       \/ size > limit /\ lost' = "room"
       \/ size <= limit /\ lost' = "no"
       \/ size <= limit /\ LineFails /\ lost' = "line"
  /\ srv' = "idle" /\ seen' = "free" /\ list' = <<>>
Answer(reply) == AnswerIn(reply, msize)
Refuse == Answer(Rerror) /\ UNCHANGED fidtab

Asked(type) == srv = "idle" /\ req.type = type

(* oldfid; then the test the name operations share *)
Known(f) == fidtab[f] # NoFid
OldFidOpen(f) == Known(f)
OldFid(f) == Known(f) /\ fidtab[f].omode = Closed
Path(f)  == fidtab[f].path

(* fidstat before the second step `next`. *)
Look(f, next) ==
  /\ seen' = kind[Stat(Path(f))]
  /\ srv' = next
  /\ UNCHANGED <<fidtab, link, list>>

-----------------------------------------------------------------------------

(* The size only ever shrinks, and no fid is forgotten. *)
AgreedAny(offer) == offer
Agreed(offer) == Min({msize, offer})

rversion ==
  /\ Asked("Tversion")
  /\ msize' = Agreed(req.msize)
  /\ AnswerIn([type |-> "Rversion", msize |-> msize'], msize')
  /\ UNCHANGED <<fsVars, fidtab>>

(* Tauth is always refused, Tflush always answered. *)
rauth ==
  /\ \/ Asked("Tauth") /\ Answer(Rerror)
     \/ Asked("Tflush") /\ Answer([type |-> "Rflush"])
  /\ UNCHANGED <<fsVars, fidtab, msize>>

rattach ==
  /\ Asked("Tattach")
  /\ \/ Known(req.fid) /\ Refuse
     \/ /\ ~Known(req.fid)
        /\ fidtab' = [fidtab EXCEPT ![req.fid] = NewFid(<<>>)]
        /\ Answer([type |-> "Rattach"])
  /\ UNCHANGED <<fsVars, msize>>

(* estrpath: ".." takes the last element away, as text. *)
Extend(path, elem) ==
  CASE elem # DotDot                -> Append(path, elem)
    [] elem = DotDot /\ path # <<>> -> Front(path)
    [] OTHER                        -> path

(* The walk as far as it goes: the path reached and the elements used. *)
WalkFrom(path, wname) ==
  FoldLeft(LAMBDA w, elem :
             IF w.ok /\ Exists(Extend(w.path, elem))
             THEN [path |-> Extend(w.path, elem), n |-> w.n + 1, ok |-> TRUE]
             ELSE [w EXCEPT !.ok = FALSE],
           [path |-> path, n |-> 0, ok |-> TRUE], wname)

FidFree(f) == fidtab[f] = NoFid

CanWalk(f, newfid, wname) ==
  /\ OldFid(f)
  /\ Exists(Path(f))
  /\ IsDir(Path(f)) \/ wname = <<>>
  /\ newfid = f \/ FidFree(newfid)

rwalk ==
  /\ Asked("Twalk")
  /\ \/ CanWalk(req.fid, req.newfid, req.wname) /\ Look(req.fid, "walk")
     \/ ~CanWalk(req.fid, req.newfid, req.wname) /\ Refuse
  /\ UNCHANGED <<fsVars, msize>>

userwalk ==
  /\ srv = "walk"
  /\ LET w == WalkFrom(Path(req.fid), req.wname)
     IN \/ /\ w.n = Len(req.wname)
           /\ fidtab' = [fidtab EXCEPT ![req.newfid] =
                           IF req.newfid = req.fid THEN [@ EXCEPT !.path = w.path]
                           ELSE NewFid(w.path)]
           /\ Answer([type |-> "Rwalk", nwqid |-> w.n])
        \/ /\ w.n \in 1..Len(req.wname) - 1      \* partial walk
           /\ Answer([type |-> "Rwalk", nwqid |-> w.n])
           /\ UNCHANGED fidtab
        \/ /\ w.n = 0 /\ req.wname # <<>>
           /\ Answer(Rerror)
           /\ UNCHANGED fidtab
  /\ UNCHANGED <<fsVars, msize>>

-----------------------------------------------------------------------------
(* Opening and creating.  The host may refuse any system call. *)

ropen ==
  /\ Asked("Topen")
  /\ \/ OldFid(req.fid) /\ Exists(Path(req.fid)) /\ Look(req.fid, "open")
     \/ ~(OldFid(req.fid) /\ Exists(Path(req.fid))) /\ Refuse
  /\ UNCHANGED <<fsVars, msize>>

Opened(f, p) == [p EXCEPT !.omode = req.mode, !.rclose = req.rclose]

OpenDir(f) ==
  /\ seen = "dir"
  /\ req.mode = "read" /\ ~req.trunc
  /\ IsDir(Path(f))
  /\ fidtab' = [fidtab EXCEPT ![f] =
                  [Opened(f, @) EXCEPT !.dir = Stat(Path(f)),
                                       !.todo = Listing(Stat(Path(f)))]]
  /\ UNCHANGED fsVars

OpenFile(f) ==
  /\ seen = "file"
  /\ Exists(Path(f))
  /\ IsDir(Path(f)) => req.mode \in {"read", "exec"} /\ ~req.trunc
  /\ fidtab' = [fidtab EXCEPT ![f] = [Opened(f, @) EXCEPT !.fd = Stat(Path(f))]]
  /\ IF req.trunc THEN Write(Stat(Path(f)), <<>>) ELSE UNCHANGED fsVars

(* A bug to find: the mode is set before the open has succeeded. *)
useropenEarly ==
  /\ srv = "open"
  /\ \/ (OpenDir(req.fid) \/ OpenFile(req.fid)) /\ Answer([type |-> "Ropen"])
     \/ /\ fidtab' = [fidtab EXCEPT ![req.fid].omode = req.mode]
        /\ Answer(Rerror) /\ UNCHANGED fsVars
  /\ UNCHANGED msize

useropen ==
  /\ srv = "open"
  /\ \/ (OpenDir(req.fid) \/ OpenFile(req.fid)) /\ Answer([type |-> "Ropen"])
     \/ Answer(Rerror) /\ UNCHANGED <<fsVars, fidtab>>
  /\ UNCHANGED msize

rcreate ==
  /\ Asked("Tcreate")
  /\ \/ OldFid(req.fid) /\ IsDir(Path(req.fid)) /\ Look(req.fid, "create")
     \/ ~(OldFid(req.fid) /\ IsDir(Path(req.fid))) /\ Refuse
  /\ UNCHANGED <<fsVars, msize>>

(* mkdir and opendir, or open with O_CREAT|O_EXCL. *)
Made(p) == [p EXCEPT !.path = Append(@, req.name),
                     !.dir = IF req.isdir THEN NextInode ELSE Nothing,
                     !.fd = IF req.isdir THEN Nothing ELSE NextInode]

usercreate ==
  /\ srv = "create"
  /\ \/ LET f == req.fid
        IN /\ CanMake(Path(f), req.name)
           /\ req.isdir => req.mode = "read" /\ ~req.trunc
           /\ Make(Path(f), req.name, IF req.isdir THEN "dir" ELSE "file")
           /\ fidtab' = [fidtab EXCEPT ![f] = Made(@)]
           /\ srv' = "created"
           /\ UNCHANGED <<link, seen, list>>
     \/ Answer(Rerror) /\ UNCHANGED <<fsVars, fidtab>>
  /\ UNCHANGED msize

(* The fidstat that follows.  When the new file is gone already, all of it *)
(* is undone; there is nothing left to remove.                             *)
Undone(p) == [p EXCEPT !.path = Front(@), !.fd = Nothing, !.dir = Nothing]

created ==
  /\ srv = "created"
  /\ LET f == req.fid
     IN \/ /\ Exists(Path(f))
           /\ fidtab' = [fidtab EXCEPT ![f] = Opened(f, @)]
           /\ srv' = "qid"
           /\ UNCHANGED <<link, seen, list>>
        \/ /\ ~Exists(Path(f))
           /\ fidtab' = [fidtab EXCEPT ![f] = Undone(@)]
           /\ Answer(Rerror)
  /\ UNCHANGED <<fsVars, msize>>

(* And one more, for the reply, after which nothing is undone. *)
rcreated ==
  /\ srv = "qid"
  /\ Answer(IF Exists(Path(req.fid)) THEN [type |-> "Rcreate"] ELSE Rerror)
  /\ UNCHANGED <<fsVars, fidtab, msize>>

-----------------------------------------------------------------------------
(* Reading and writing *)

(* An unsigned difference: a size below the header lets everything pass. *)
TooLarge(count) == msize >= IOHDRSZ /\ count > msize - IOHDRSZ

Readable(f) == Known(f) /\ fidtab[f].omode \notin {Closed, "write"}
Writable(f) == Known(f) /\ fidtab[f].omode \in {"write", "rdwr"}

ReadFile(f) ==
  /\ fidtab[f].dir = Nothing /\ kind[fidtab[f].fd] = "file"
  /\ Answer([type |-> "Rread", count |-> Len(Slice(data[fidtab[f].fd], req.offset, req.count)),
             data |-> Slice(data[fidtab[f].fd], req.offset, req.count)])
  /\ UNCHANGED fidtab

(* At another offset than the stream's only 0 is good: rewinddir. *)
Rewound(p) == [p EXCEPT !.todo = Listing(p.dir), !.diroffset = 0, !.direof = FALSE]

ReadDir(f) ==
  /\ fidtab[f].dir # Nothing
  /\ req.offset \in {0, fidtab[f].diroffset}
  /\ LET p == IF req.offset = fidtab[f].diroffset THEN fidtab[f] ELSE Rewound(fidtab[f])
     IN /\ fidtab' = [fidtab EXCEPT ![f] = p]
        /\ \/ /\ p.direof
              /\ Answer([type |-> "Rread", count |-> 0, names |-> <<>>])
           \/ /\ ~p.direof
              /\ srv' = "dir"
              /\ UNCHANGED <<link, seen, list>>

CanRead(f) ==
  /\ ~TooLarge(req.count)
  /\ Readable(f)
  /\ IF fidtab[f].dir # Nothing THEN req.offset \in {0, fidtab[f].diroffset}
     ELSE kind[fidtab[f].fd] = "file"

rread ==
  /\ Asked("Tread")
  /\ \/ CanRead(req.fid) /\ (ReadFile(req.fid) \/ ReadDir(req.fid))
     \/ ~CanRead(req.fid) /\ Refuse
  /\ UNCHANGED <<fsVars, msize>>

Filled == MapThenSumSet(LAMBDA i : EntrySize[list[i]], DOMAIN list)

(* The buffer is full, the next entry does not fit, or there is none. *)
DirDone(f, p) ==
  /\ fidtab' = [fidtab EXCEPT ![f] = [p EXCEPT !.diroffset = @ + Filled]]
  /\ Answer([type |-> "Rread", count |-> Filled, names |-> list])

(* An entry that is gone is passed over. *)
PassOverKept(p) == p
PassOver(p) == [p EXCEPT !.dirent = Nothing]

(* One that does not fit waits for the next read. *)
KeepWaitingNot(p) == [p EXCEPT !.dirent = Nothing]
KeepWaiting(p) == p

(* One turn of the loop over readdir; the entry is looked up by name. *)
DirTurn(f, name, rest) ==
  LET p == [fidtab[f] EXCEPT !.dirent = name, !.todo = rest]
  IN CASE ~Exists(Append(p.path, name)) ->
            /\ fidtab' = [fidtab EXCEPT ![f] = PassOver(p)]
            /\ UNCHANGED <<link, srv, seen, list>>
       [] Exists(Append(p.path, name)) /\ Filled + EntrySize[name] > req.count ->
            DirDone(f, KeepWaiting(p))
       [] OTHER ->
            /\ fidtab' = [fidtab EXCEPT ![f] = [p EXCEPT !.dirent = Nothing]]
            /\ list' = Append(list, name)
            /\ UNCHANGED <<link, srv, seen>>

readdir ==
  /\ srv = "dir"
  /\ LET f == req.fid
         p == fidtab[f]
     IN \/ /\ Filled + LENSZ >= req.count
           /\ DirDone(f, p)
        \/ /\ Filled + LENSZ < req.count /\ p.dirent # Nothing
           /\ DirTurn(f, p.dirent, p.todo)
        \/ /\ Filled + LENSZ < req.count /\ p.dirent = Nothing /\ p.todo # {}
           /\ \E name \in p.todo : DirTurn(f, name, p.todo \ {name})
        \/ /\ Filled + LENSZ < req.count /\ p.dirent = Nothing /\ p.todo = {}
           /\ DirDone(f, [p EXCEPT !.direof = TRUE])
  /\ UNCHANGED <<fsVars, msize>>

rwrite ==
  /\ Asked("Twrite")
  /\ \/ /\ ~TooLarge(Len(req.data))
        /\ Writable(req.fid)
        /\ \E n \in 1..Len(req.data) :          \* pwrite may be cut short
             /\ Write(fidtab[req.fid].fd,
                      Overlay(data[fidtab[req.fid].fd], req.offset, SubSeq(req.data, 1, n)))
             /\ Answer([type |-> "Rwrite", count |-> n])
        /\ UNCHANGED fidtab
     \/ Refuse /\ UNCHANGED fsVars
  /\ UNCHANGED msize

-----------------------------------------------------------------------------
(* Closing, removing and changing *)

Free(f) == fidtab' = [fidtab EXCEPT ![f] = NoFid]

(* A fid opened to be removed removes whatever its path now names. *)
rclunk ==
  /\ Asked("Tclunk")
  /\ \/ /\ Known(req.fid)
        /\ IF fidtab[req.fid].rclose /\ CanUnlink(Path(req.fid))
           THEN Unlink(Path(req.fid)) ELSE UNCHANGED fsVars
        /\ Free(req.fid)
        /\ Answer([type |-> "Rclunk"])
     \/ ~Known(req.fid) /\ Refuse /\ UNCHANGED fsVars
  /\ UNCHANGED msize

(* The fid goes away even when the remove fails. *)
rremove ==
  /\ Asked("Tremove")
  /\ \/ /\ Known(req.fid)
        /\ Free(req.fid)
        /\ \/ /\ CanUnlink(Path(req.fid))
              /\ Unlink(Path(req.fid))
              /\ Answer([type |-> "Rremove"])
           \/ Answer(Rerror) /\ UNCHANGED fsVars
     \/ ~Known(req.fid) /\ Refuse /\ UNCHANGED fsVars
  /\ UNCHANGED msize

rstat ==
  /\ Asked("Tstat")
  /\ IF Known(req.fid) /\ Exists(Path(req.fid)) /\ StatSize <= msize
     THEN /\ Answer([type |-> "Rstat", kind |-> kind[Stat(Path(req.fid))],
                     length |-> Len(data[Stat(Path(req.fid))])])
          /\ UNCHANGED fidtab
     ELSE Refuse
  /\ UNCHANGED <<fsVars, msize>>

rwstat ==
  /\ Asked("Twstat")
  /\ LET ok == Known(req.fid) /\ Exists(Path(req.fid)) /\ Path(req.fid) # <<>>
     IN (ok /\ Look(req.fid, "wstat")) \/ (~ok /\ Refuse)
  /\ UNCHANGED <<fsVars, msize>>

WstatRename(f) ==
  /\ req.name # Nothing
  /\ fidtab' = [fidtab EXCEPT ![f].path = Front(@) \o <<req.name>>]
  /\ IF req.name = Last(Path(f)) THEN UNCHANGED fsVars
     ELSE CanRename(Path(f), req.name) /\ Rename(Path(f), req.name)

(* The file truncated is the one the old path names. *)
WstatTruncate(f) ==
  /\ Exists(Path(f)) /\ ~IsDir(Path(f))
  /\ Write(Stat(Path(f)), Resized(data[Stat(Path(f))], req.length))

(* Rename, then truncate through the old path: its memory has been freed   *)
(* by then, so that it names the same file or nothing.  Either call may    *)
(* fail with the other one done.                                           *)
wstat ==
  /\ srv = "wstat"
  /\ LET f == req.fid
     IN \/ /\ req.name = Last(Path(f)) /\ req.length # Nothing
           /\ WstatTruncate(f)
           /\ Answer([type |-> "Rwstat"])
           /\ UNCHANGED fidtab
        \/ /\ req.name # Nothing
           /\ WstatRename(f)
           /\ Answer(IF req.length = Nothing THEN [type |-> "Rwstat"] ELSE Rerror)
        \/ /\ req.name = Nothing /\ req.length # Nothing
           /\ WstatTruncate(f)
           /\ Answer([type |-> "Rwstat"])
           /\ UNCHANGED fidtab
        \/ /\ req.name = Nothing /\ req.length = Nothing
           /\ Answer([type |-> "Rwstat"])
           /\ UNCHANGED <<fsVars, fidtab>>
        \/ Answer(Rerror) /\ UNCHANGED <<fsVars, fidtab>>
  /\ UNCHANGED msize

ServerStep ==
  \/ rversion \/ rauth \/ rattach \/ rwalk \/ userwalk
  \/ ropen \/ useropen \/ rcreate \/ usercreate \/ created \/ rcreated
  \/ rread \/ readdir \/ rwrite \/ rclunk \/ rremove
  \/ rstat \/ rwstat \/ wstat

ServerInit ==
  /\ fidtab = [f \in FidIds |-> NoFid]
  /\ msize = ServerMsize
  /\ srv = "idle" /\ seen = "free" /\ list = <<>>

(* The fid table and the registers of a handler. *)
ServerTypeOK ==
  /\ fidtab \in [FidIds -> FidRec \cup {NoFid}]
  /\ msize \in 0..ServerMsize
  /\ srv \in {"idle", "walk", "open", "create", "created", "qid", "dir", "wstat"}
  /\ seen \in {"free", "dir", "file"} /\ list \in Seq(Names)
=============================================================================
