-------------------------- MODULE NinePSystemProofs --------------------------
(***************************************************************************)
(* Theorems about the program and the server together, for every set of    *)
(* files, calls and message sizes, and every file system they find.        *)
(***************************************************************************)
EXTENDS NinePSystem, NinePServerProofs

-----------------------------------------------------------------------------
(* What is always so of the conversation: one request or one reply is on   *)
(* its way while a call waits, the request the call has come to; and the   *)
(* reply that says a file is open is true.                                 *)

IsOpen(f) == Known(f) /\ fidtab[f].omode # Closed

ClientTypes ==
  /\ cpc \in {"start", "ready", "dead"} \cup Waits
  /\ maxlen \in MINLEN..MAXLEN /\ off \in [Files -> Nat] /\ inuse \in SUBSET Files

TurnInd == IF cpc \in Waits THEN req = Idle <=> rep # Idle ELSE req = Idle /\ rep = Idle

CallInd ==
  /\ cpc \in {"walk", "create", "open"} => call \in CallType /\ call.f \notin inuse
  /\ cpc = "walk" => call.op \in {"open", "create"} /\ rest \in Seq(Elements)
  /\ cpc = "create" => call.op = "create"
  /\ cpc = "open" => call.op = "open"
  /\ cpc \in {"read", "write", "clunk"} => call.f \in inuse
  /\ cpc = "read" => left \in Seq(Nat) \ {<<>>}
  /\ cpc = "write" => left \in Seq(Byte) \ {<<>>}

AskedInd ==
  req # Idle =>
    /\ cpc = "version" => req = [type |-> "Tversion", msize |-> MAXLEN]
    /\ cpc = "attach" => req = [type |-> "Tattach", fid |-> RootDir]
    /\ cpc = "walk" => req.type = "Twalk" /\ req.newfid = call.f /\ req.fid \in {RootDir, call.f}
    /\ cpc = "create" => req = CreateMessage
    /\ cpc = "open" => req = OpenMessage
    /\ cpc = "read" => req = ReadMessage(call.f, off[call.f], Len(left))
    /\ cpc = "write" => req = WriteMessage(call.f, off[call.f], left)
    /\ cpc = "clunk" => req = [type |-> "Tclunk", fid |-> call.f]

ReplyInd ==
  /\ srv = "qid" => fidtab[req.fid].omode # Closed
  /\ cpc = "create" /\ rep.type = "Rcreate" => IsOpen(call.f)
  /\ cpc = "open" /\ rep.type = "Ropen" => IsOpen(call.f)
  /\ cpc = "read" /\ rep.type = "Rread" => rep.count \in Nat
  /\ cpc = "write" /\ rep.type = "Rwrite" => rep.count \in Nat

Ind == ServerInd /\ ClientTypes /\ TurnInd /\ CallInd /\ AskedInd /\ ReplyInd /\ OpenMeansOpen

(* What is so besides when the program opens files and no directories:     *)
(* names and descriptors lead to inodes in use, the others are empty;      *)
(* nothing is further than MaxOff; and a reply brings no more than was     *)
(* asked for.                                                              *)
FilesOnly == \A f \in FidIds : Known(f) => fidtab[f].dir = Nothing

Used == {i \in Inodes : kind[i] # "free"}
StoreInd ==
  /\ Root \in Used
  /\ \A i \in Inodes, n \in Names : ent[i][n] \in Used \cup {Nothing}
  /\ \A f \in FidIds : Known(f) => fidtab[f].fd \in Used \cup {Nothing}
  /\ \A i \in Inodes \ Used : data[i] = <<>>

PlaceInd ==
  /\ \A i \in Inodes : Len(data[i]) <= MaxOff
  /\ \A f \in Files : off[f] <= MaxOff
  /\ cpc = "write" => off[call.f] + Len(left) <= MaxOff

DataInd ==
  /\ buf \in Seq(Byte)
  /\ srv # "dir"
  /\ rep # Idle /\ cpc = "open" => rep.type \in {"Ropen", "Rerror"}
  /\ rep # Idle /\ cpc = "read" =>
       \/ rep.type = "Rerror"
       \/ /\ rep.type = "Rread"
          /\ rep.data \in Seq(Byte) /\ rep.count = Len(rep.data) /\ rep.count <= Piece(Len(left))
          /\ off[call.f] + rep.count <= MaxOff
  /\ rep # Idle /\ cpc = "write" =>
       \/ rep.type = "Rerror"
       \/ rep.type = "Rwrite" /\ rep.count \in 1..Piece(Len(left))

FilesInd == Ind /\ StoreInd /\ PlaceInd /\ DataInd

-----------------------------------------------------------------------------
(* The calls and the requests they send. *)

(* A call says what it needs.                                              *)
LEMMA CallFields ==
  ASSUME NEW c \in CallType
  PROVE  /\ c.f \in Files
         /\ c.op = "open" => c.path \in Seq(Elements) /\ c.mode \in Modes /\ c.trunc \in BOOLEAN
         /\ c.op = "create" => c.path \in Seq(Elements) /\ c.path # <<>> /\ Last(c.path) \in Names
         /\ c.op = "read" => c.count \in Nat \ {0}
         /\ c.op = "write" => c.data \in Seq(Byte) \ {<<>>}
BY DEF CallType

(* A piece of a transfer has at least a byte, and fits in a message.       *)
LEMMA PieceType ==
  ASSUME ClientTypes, NEW n \in Nat \ {0}
  PROVE  Piece(n) \in 1..n
<1> DEFINE m == maxlen - HDR
<1>1. m \in Nat /\ m > 0
  BY ClientAssumption DEF ClientTypes
<1> HIDE DEF m
<1>2. \E x \in {n, m} : \A y \in {n, m} : x =< y
  BY <1>1
<1>3. Min({n, m}) \in {n, m} /\ Min({n, m}) <= n
  BY <1>2 DEF Min
<1> QED
  BY <1>1, <1>3 DEF Piece, m

(* There is something left of a sequence when not all of it is taken.      *)
LEMMA LeftOver ==
  ASSUME NEW S, NEW s \in Seq(S), NEW r \in Nat, r < Len(s)
  PROVE  /\ SubSeq(s, r + 1, Len(s)) \in Seq(S) \ {<<>>}
         /\ Len(SubSeq(s, r + 1, Len(s))) = Len(s) - r
<1> DEFINE t == SubSeq(s, r + 1, Len(s))
<1>1. t \in Seq(S) /\ Len(t) = Len(s) - r
  OBVIOUS
<1>2. t # <<>>
  <2> HIDE DEF t
  <2>1. Len(t) # Len(<<>>)
    BY <1>1
  <2> QED
    BY <2>1
<1> QED
  BY <1>1, <1>2

(* What WalkOne sends is a request to walk to file, and what remains are   *)
(* elements of the path.                                                   *)
LEMMA WalkOneType ==
  ASSUME NEW dir \in Files \cup {RootDir}, NEW file \in Files, NEW path \in Seq(Elements), NEW c,
         WalkOne(dir, file, path, c)
  PROVE  /\ req' \in Requests /\ req'.type = "Twalk" /\ req'.fid = dir /\ req'.newfid = file
         /\ rep' = Idle /\ rest' \in Seq(Elements)
<1> DEFINE wname == CASE path = <<>> -> <<>>
                      [] c.op = "create" /\ Len(path) = 1 -> << "." >>
                      [] OTHER -> << Head(path) >>
<1>1. wname \in Seq(Elements)
  <2>1. << "." >> \in Seq(Elements)
    BY DEF Elements, Dot
  <2>2. path # <<>> => << Head(path) >> \in Seq(Elements)
    OBVIOUS
  <2> QED
    BY <2>1, <2>2
<1>2. req' = [type |-> "Twalk", fid |-> dir, newfid |-> file, wname |-> wname] /\ rep' = Idle
  BY DEF WalkOne, Send, link
<1>3. rest' \in Seq(Elements)
  BY DEF WalkOne
<1> HIDE DEF wname
<1>4. dir \in FidIds /\ file \in FidIds
  BY SystemAssumption
<1> QED
  BY <1>1, <1>2, <1>3, <1>4 DEF Requests, Elements

(* The other messages are requests.                                        *)
LEMMA MessageTypes ==
  ASSUME ClientTypes
  PROVE  /\ [type |-> "Tversion", msize |-> MAXLEN] \in Requests
         /\ [type |-> "Tattach", fid |-> RootDir] \in Requests
         /\ \A f \in Files : [type |-> "Tclunk", fid |-> f] \in Requests
         /\ \A f \in Files, o \in Nat, n \in Nat \ {0} : ReadMessage(f, o, n) \in Requests
         /\ \A f \in Files, o \in Nat, s \in Seq(Byte) \ {<<>>} : WriteMessage(f, o, s) \in Requests
<1>1. MAXLEN \in Nat /\ RootDir \in FidIds /\ Files \subseteq FidIds
  BY ClientAssumption, SystemAssumption
<1>2. ASSUME NEW f \in Files, NEW o \in Nat, NEW n \in Nat \ {0} PROVE ReadMessage(f, o, n) \in Requests
  <2>1. Piece(n) \in Nat
    BY PieceType
  <2> QED
    BY <1>1, <2>1 DEF ReadMessage, Requests
<1>3. ASSUME NEW f \in Files, NEW o \in Nat, NEW s \in Seq(Byte) \ {<<>>}
      PROVE  WriteMessage(f, o, s) \in Requests
  <2>1. Piece(Len(s)) \in 1..Len(s)
    BY PieceType
  <2>2. SubSeq(s, 1, Piece(Len(s))) \in Seq(Byte)
    BY <2>1
  <2> QED
    BY <1>1, <2>1, <2>2 DEF WriteMessage, Requests
<1> QED
  BY <1>1, <1>2, <1>3 DEF Requests

(* And so are the ones that open and create.                               *)
LEMMA OpenTypes ==
  ASSUME call \in CallType
  PROVE  /\ call.op = "open" => OpenMessage \in Requests
         /\ call.op = "create" => CreateMessage \in Requests
<1>1. call.f \in FidIds
  BY CallFields, SystemAssumption
<1>2. call.op = "open" => call.mode \in Modes /\ call.trunc \in BOOLEAN
  BY CallFields
<1>3. call.op = "create" => Last(call.path) \in Names
  BY CallFields
<1>4. "write" \in Modes
  BY DEF Modes
<1>5. ASSUME call.op = "open" PROVE OpenMessage \in Requests
  BY <1>1, <1>2, <1>5 DEF OpenMessage, Requests
<1>6. ASSUME call.op = "create" PROVE CreateMessage \in Requests
  <2> DEFINE name == Last(call.path)
  <2> HIDE DEF name
  <2> QED
    BY <1>1, <1>3, <1>4, <1>6 DEF CreateMessage, Requests, name
<1> QED
  BY <1>5, <1>6

-----------------------------------------------------------------------------
(* The steps of the program. *)

(* The server waits while the program is at work: what it sends is the     *)
(* next request.                                                           *)
LEMMA SentInd ==
  ASSUME ServerInd, req = Idle, UNCHANGED <<fsVars, srvVars>>, req' = Idle \/ req' \in Requests
  PROVE  ServerInd' /\ srv = "idle" /\ srv' = "idle" /\ UNCHANGED fidtab
<1>1. srv = "idle"
  BY DEF ServerInd, RequestInd
<1>2. HostTypeOK' /\ ServerTypeOK'
  BY DEF ServerInd, HostTypeOK, ServerTypeOK, fsVars, srvVars
<1>3. RequestInd'
  BY <1>1 DEF RequestInd, At, srvVars, Requests, Idle
<1>4. HandleInd'
  BY <1>1 DEF ServerInd, HandleInd, Known, srvVars
<1> QED
  BY <1>1, <1>2, <1>3, <1>4 DEF ServerInd, srvVars

(* The program has taken the reply, and what it holds open stays so.       *)
LEMMA TakenReply ==
  ASSUME rep' = Idle, srv' = "idle"
  PROVE  ReplyInd'
BY DEF ReplyInd, Idle

(* While no descriptor changes, a program that holds no more files than    *)
(* before holds open ones.                                                 *)
LEMMA StaysOpen ==
  ASSUME OpenMeansOpen, UNCHANGED fidtab, inuse' \subseteq inuse,
         cpc = "clunk" /\ rep # Idle => call.f \notin inuse'
  PROVE  OpenMeansOpen'
BY DEF OpenMeansOpen, Known

(* fs_init                                                                 *)
LEMMA StartInd ==
  ASSUME Ind, fs_init \/ GotVersion \/ GotAttach, UNCHANGED <<fsVars, srvVars>>
  PROVE  Ind'
<1>1. req = Idle /\ rep' = Idle /\ UNCHANGED <<off, inuse>> /\ cpc \in {"start", "version", "attach"}
  BY DEF Ind, TurnInd, fs_init, GotVersion, GotAttach, Answered, Send, Take, Waits, link
<1>2. /\ cpc' = "version" => req' = [type |-> "Tversion", msize |-> MAXLEN]
      /\ cpc' = "attach" => req' = [type |-> "Tattach", fid |-> RootDir]
      /\ cpc' \in {"version", "attach", "ready", "dead"}
      /\ cpc' \in {"ready", "dead"} => req' = Idle
      /\ maxlen' \in MINLEN..MAXLEN
  BY <1>1 DEF fs_init, GotVersion, GotAttach, Answered, Send, Take, Ind, ClientTypes, link
<1>3. req' = Idle \/ req' \in Requests
  BY <1>2, MessageTypes DEF Ind
<1>4. ServerInd' /\ srv' = "idle" /\ UNCHANGED fidtab
  BY <1>1, <1>3, SentInd DEF Ind
<1>5. ReplyInd' /\ OpenMeansOpen'
  BY <1>1, <1>4, TakenReply, StaysOpen DEF Ind
<1>6. ClientTypes'
  BY <1>1, <1>2 DEF Ind, ClientTypes, Waits
<1>7. TurnInd' /\ CallInd' /\ AskedInd'
  BY <1>1, <1>2 DEF TurnInd, CallInd, AskedInd, Waits, Idle
<1> QED
  BY <1>4, <1>5, <1>6, <1>7 DEF Ind

(* Opening: a walk to a handle that is not open. *)
LEMMA BeginWalkInd ==
  ASSUME Ind, NEW c \in Calls, fs_open(c) \/ fs_create(c), UNCHANGED <<fsVars, srvVars>>
  PROVE  Ind'
<1>1. /\ c \in CallType /\ c.op \in {"open", "create"} /\ c.f \in Files /\ c.f \notin inuse
      /\ c.path \in Seq(Elements) /\ cpc = "ready" /\ cpc' = "walk" /\ call' = c
      /\ WalkOne(RootDir, c.f, c.path, c) /\ UNCHANGED <<maxlen, off, inuse, left>>
  <2>1. c \in CallType
    BY SystemAssumption
  <2> QED
    BY <2>1, CallFields DEF fs_open, fs_create, Begin
<1>2. req = Idle
  BY <1>1 DEF Ind, TurnInd, Waits
<1>3. /\ req' \in Requests /\ req'.type = "Twalk" /\ req'.fid = RootDir /\ req'.newfid = c.f
      /\ rep' = Idle /\ rest' \in Seq(Elements)
  BY <1>1, WalkOneType
<1>4. ServerInd' /\ srv' = "idle" /\ UNCHANGED fidtab
  BY <1>2, <1>3, SentInd DEF Ind
<1>5. ReplyInd' /\ OpenMeansOpen'
  BY <1>1, <1>3, <1>4, TakenReply, StaysOpen DEF Ind
<1>6. ClientTypes'
  BY <1>1 DEF Ind, ClientTypes, Waits
<1>7. TurnInd' /\ CallInd' /\ AskedInd'
  BY <1>1, <1>3, RequestFields DEF TurnInd, CallInd, AskedInd, Waits, Requests, Idle
<1> QED
  BY <1>4, <1>5, <1>6, <1>7 DEF Ind

(* The next step of a walk, or what comes after it.                        *)
LEMMA GotWalkInd ==
  ASSUME Ind, GotWalk, UNCHANGED <<fsVars, srvVars>>
  PROVE  Ind'
<1>1. /\ cpc = "walk" /\ rep # Idle /\ req = Idle /\ call \in CallType /\ call.f \notin inuse
      /\ call.f \in Files /\ call.op \in {"open", "create"} /\ rest \in Seq(Elements)
      /\ UNCHANGED <<maxlen, off, inuse>>
  BY CallFields DEF GotWalk, Answered, Ind, TurnInd, CallInd, Waits
<1>2. CASE Return("fail") /\ Take
  <2>1. cpc' = "ready" /\ req' = Idle /\ rep' = Idle
    BY <1>1, <1>2 DEF Return, Take, link
  <2>2. ServerInd' /\ srv' = "idle" /\ UNCHANGED fidtab
    BY <1>1, <2>1, SentInd DEF Ind
  <2>3. ReplyInd' /\ OpenMeansOpen'
    BY <1>1, <2>1, <2>2, TakenReply, StaysOpen DEF Ind
  <2>4. ClientTypes'
    BY <1>1, <2>1 DEF Ind, ClientTypes
  <2>5. TurnInd' /\ CallInd' /\ AskedInd'
    BY <2>1 DEF TurnInd, CallInd, AskedInd, Waits
  <2> QED
    BY <2>2, <2>3, <2>4, <2>5 DEF Ind
<1>3. CASE WalkOne(call.f, call.f, rest, call) /\ UNCHANGED <<cpc, call, ret, left>>
  <2>1. /\ req' \in Requests /\ req'.type = "Twalk" /\ req'.fid = call.f /\ req'.newfid = call.f
        /\ rep' = Idle /\ rest' \in Seq(Elements)
    BY <1>1, <1>3, WalkOneType
  <2>2. ServerInd' /\ srv' = "idle" /\ UNCHANGED fidtab
    BY <1>1, <2>1, SentInd DEF Ind
  <2>3. ReplyInd' /\ OpenMeansOpen'
    BY <1>1, <2>1, <2>2, TakenReply, StaysOpen DEF Ind
  <2>4. ClientTypes'
    BY <1>1, <1>3 DEF Ind, ClientTypes
  <2>5. TurnInd' /\ CallInd' /\ AskedInd'
    BY <1>1, <1>3, <2>1 DEF TurnInd, CallInd, AskedInd, Waits, Requests, Idle
  <2> QED
    BY <2>2, <2>3, <2>4, <2>5 DEF Ind
<1>4. CASE /\ cpc' = (IF SkipLast THEN "create" ELSE "open")
           /\ Send(IF SkipLast THEN CreateMessage ELSE OpenMessage)
           /\ UNCHANGED <<call, ret, left>>
  <2>1. req' \in Requests /\ rep' = Idle
    BY <1>1, <1>4, OpenTypes DEF Send, SkipLast, link
  <2>2. ServerInd' /\ srv' = "idle" /\ UNCHANGED fidtab
    BY <1>1, <2>1, SentInd DEF Ind
  <2>3. ReplyInd' /\ OpenMeansOpen'
    BY <1>1, <2>1, <2>2, TakenReply, StaysOpen DEF Ind
  <2>4. ClientTypes'
    BY <1>1, <1>4 DEF Ind, ClientTypes, Waits
  <2>5. TurnInd'
    BY <1>1, <1>4, <2>1, RequestFields DEF TurnInd, Waits, Requests, Idle
  <2>6. CallInd'
    BY <1>1, <1>4 DEF CallInd, SkipLast
  <2>7. AskedInd'
    BY <1>1, <1>4 DEF AskedInd, Send, SkipLast, CreateMessage, OpenMessage, link
  <2> QED
    BY <2>2, <2>3, <2>4, <2>5, <2>6, <2>7 DEF Ind
<1> QED
  BY <1>2, <1>3, <1>4 DEF GotWalk

(* A call comes to an end and holds what it has opened.                    *)
LEMMA OpenedInd ==
  ASSUME Ind, UNCHANGED <<fsVars, srvVars, maxlen>>, req = Idle, req' = Idle, rep' = Idle,
         cpc' = "ready", cpc # "clunk", off' \in [Files -> Nat],
         inuse' = inuse \/ (call.f \in Files /\ IsOpen(call.f) /\ inuse' = inuse \cup {call.f})
  PROVE  Ind'
<1>1. ServerInd' /\ srv' = "idle" /\ UNCHANGED fidtab
  BY SentInd DEF Ind
<1>2. ReplyInd'
  BY <1>1, TakenReply
<1>3. OpenMeansOpen'
  BY <1>1 DEF Ind, OpenMeansOpen, IsOpen, Known
<1>4. ClientTypes'
  BY DEF Ind, ClientTypes
<1>5. TurnInd' /\ CallInd' /\ AskedInd'
  BY DEF TurnInd, CallInd, AskedInd, Waits
<1> QED
  BY <1>1, <1>2, <1>3, <1>4, <1>5 DEF Ind

(* The file is open when the server says so.                               *)
LEMMA GotOpenInd ==
  ASSUME Ind, GotOpen, UNCHANGED <<fsVars, srvVars>>
  PROVE  Ind'
<1>1. /\ cpc = "open" /\ req = Idle /\ call.f \in Files /\ UNCHANGED maxlen
      /\ req' = Idle /\ rep' = Idle /\ cpc' = "ready"
  BY CallFields DEF GotOpen, Answered, Ind, TurnInd, CallInd, Waits, Return, Take, link
<1>2. off' \in [Files -> Nat]
  BY DEF GotOpen, ResetOffset, Ind, ClientTypes
<1>3. inuse' = inuse \/ (IsOpen(call.f) /\ inuse' = inuse \cup {call.f})
  BY <1>1 DEF GotOpen, Ind, ReplyInd
<1> QED
  BY <1>1, <1>2, <1>3, OpenedInd

(* So is one that has been created; or else the file is opened instead.    *)
LEMMA GotCreateInd ==
  ASSUME Ind, GotCreate, UNCHANGED <<fsVars, srvVars>>
  PROVE  Ind'
<1>1. /\ cpc = "create" /\ req = Idle /\ call.f \in Files /\ call.f \notin inuse
      /\ Last(call.path) \in Names /\ UNCHANGED <<maxlen, off>> /\ off \in [Files -> Nat]
  BY CallFields DEF GotCreate, Answered, Ind, TurnInd, CallInd, ClientTypes, Waits
<1>2. CASE Created(rep) /\ inuse' = inuse \cup {call.f} /\ Return("ok") /\ Take
  <2>1. IsOpen(call.f)
    BY <1>1, <1>2 DEF Created, Ind, ReplyInd
  <2>2. req' = Idle /\ rep' = Idle /\ cpc' = "ready"
    BY <1>1, <1>2 DEF Return, Take, link
  <2> QED
    BY <1>1, <1>2, <2>1, <2>2, OpenedInd
<1>3. CASE /\ cpc' = "walk" /\ call' = Reopen /\ WalkOne(call.f, call.f, Reopen.path, Reopen)
           /\ UNCHANGED <<inuse, ret, left>>
  <2> DEFINE name == Last(call.path)
  <2>1. /\ Reopen.path \in Seq(Elements) /\ Reopen \in CallType
        /\ Reopen.f = call.f /\ Reopen.op = "open"
    <3> DEFINE path == <<name>>
    <3>1. path \in Seq(Elements)
      BY <1>1 DEF Elements
    <3>2. Reopen = [op |-> "open", f |-> call.f, path |-> path, mode |-> "write", trunc |-> TRUE]
      BY DEF Reopen
    <3> HIDE DEF path
    <3> QED
      BY <1>1, <3>1, <3>2 DEF CallType, Modes
  <2>2. /\ req' \in Requests /\ req'.type = "Twalk" /\ req'.fid = call.f /\ req'.newfid = call.f
        /\ rep' = Idle /\ rest' \in Seq(Elements)
    BY <1>1, <1>3, <2>1, WalkOneType
  <2>3. ServerInd' /\ srv' = "idle" /\ UNCHANGED fidtab
    BY <1>1, <2>2, SentInd DEF Ind
  <2>4. ReplyInd' /\ OpenMeansOpen'
    BY <1>1, <1>3, <2>2, <2>3, TakenReply, StaysOpen DEF Ind
  <2>5. ClientTypes'
    BY <1>1, <1>3 DEF Ind, ClientTypes, Waits
  <2>6. req' # Idle
    BY <2>2 DEF Idle
  <2>7. TurnInd' /\ CallInd' /\ AskedInd'
    BY <1>1, <1>3, <2>1, <2>2, <2>6 DEF TurnInd, CallInd, AskedInd, Waits
  <2> QED
    BY <2>3, <2>4, <2>5, <2>7 DEF Ind
<1> QED
  BY <1>2, <1>3 DEF GotCreate

(* Closing.                                                                *)
LEMMA CloseInd ==
  ASSUME Ind, NEW c \in Calls, fs_close(c), UNCHANGED <<fsVars, srvVars>>
  PROVE  Ind'
<1>1. /\ c.f \in inuse /\ c.f \in Files /\ cpc = "ready" /\ cpc' = "clunk" /\ call' = c
      /\ req' = [type |-> "Tclunk", fid |-> c.f] /\ rep' = Idle /\ UNCHANGED <<maxlen, off, inuse>>
  BY DEF fs_close, Begin, Send, Ind, ClientTypes, link
<1>2. req = Idle /\ req' \in Requests /\ req' # Idle
  BY <1>1, MessageTypes DEF Ind, TurnInd, Waits, Idle
<1>3. ServerInd' /\ srv' = "idle" /\ UNCHANGED fidtab
  BY <1>2, SentInd DEF Ind
<1>4. ReplyInd' /\ OpenMeansOpen'
  BY <1>1, <1>3, TakenReply, StaysOpen DEF Ind
<1>5. ClientTypes'
  BY <1>1 DEF Ind, ClientTypes, Waits
<1>6. TurnInd' /\ CallInd' /\ AskedInd'
  BY <1>1, <1>2 DEF TurnInd, CallInd, AskedInd, Waits
<1> QED
  BY <1>3, <1>4, <1>5, <1>6 DEF Ind

(* fs_close, when the reply is there                                       *)
LEMMA GotClunkInd ==
  ASSUME Ind, GotClunk, UNCHANGED <<fsVars, srvVars>>
  PROVE  Ind'
<1>1. /\ cpc = "clunk" /\ req = Idle /\ req' = Idle /\ rep' = Idle /\ cpc' = "ready"
      /\ inuse' = inuse \ {call.f} /\ UNCHANGED <<maxlen, off>>
  BY DEF GotClunk, Answered, Ind, TurnInd, Waits, Return, Take, link
<1>2. ServerInd' /\ srv' = "idle" /\ UNCHANGED fidtab
  BY <1>1, SentInd DEF Ind
<1>3. ReplyInd' /\ OpenMeansOpen'
  BY <1>1, <1>2, TakenReply, StaysOpen DEF Ind
<1>4. ClientTypes'
  BY <1>1 DEF Ind, ClientTypes
<1>5. TurnInd' /\ CallInd' /\ AskedInd'
  BY <1>1 DEF TurnInd, CallInd, AskedInd, Waits
<1> QED
  BY <1>2, <1>3, <1>4, <1>5 DEF Ind

(* A transfer goes on with what is left of it.                             *)
LEMMA TransferInd ==
  ASSUME Ind, UNCHANGED <<fsVars, srvVars, maxlen, inuse>>, req = Idle, rep' = Idle, cpc # "clunk",
         off' \in [Files -> Nat], call'.f \in inuse,
         \/ /\ cpc' = "read" /\ left' \in Seq(Nat) \ {<<>>}
            /\ req' = ReadMessage(call'.f, off'[call'.f], Len(left'))
         \/ /\ cpc' = "write" /\ left' \in Seq(Byte) \ {<<>>}
            /\ req' = WriteMessage(call'.f, off'[call'.f], left')
  PROVE  Ind'
<1> DEFINE f == call'.f
           o == off'[f]
<1>1. ClientTypes'
  BY DEF Ind, ClientTypes, Waits
<1>2. f \in Files /\ o \in Nat
  BY DEF Ind, ClientTypes
<1>3. req' \in Requests
  <2> HIDE DEF f, o
  <2>1. /\ \A n \in Nat \ {0} : ReadMessage(f, o, n) \in Requests
        /\ \A s \in Seq(Byte) \ {<<>>} : WriteMessage(f, o, s) \in Requests
    BY <1>2, MessageTypes DEF Ind
  <2>2. \A s \in Seq(Nat) \ {<<>>} : Len(s) \in Nat \ {0}
    OBVIOUS
  <2> QED
    BY <2>1, <2>2 DEF f, o
<1>4. req' # Idle
  BY DEF ReadMessage, WriteMessage, Idle
<1>5. ServerInd' /\ srv' = "idle" /\ UNCHANGED fidtab
  BY <1>3, SentInd DEF Ind
<1>6. ReplyInd' /\ OpenMeansOpen'
  BY <1>5, TakenReply, StaysOpen DEF Ind
<1>7. TurnInd' /\ CallInd'
  BY <1>4 DEF TurnInd, CallInd, Waits
<1>8. AskedInd'
  BY DEF AskedInd, ReadMessage, WriteMessage, Piece
<1> QED
  BY <1>1, <1>5, <1>6, <1>7, <1>8 DEF Ind

(* Reading and writing begin.                                              *)
LEMMA BeginTransferInd ==
  ASSUME Ind, NEW c \in Calls, fs_read(c) \/ fs_write(c), UNCHANGED <<fsVars, srvVars>>
  PROVE  Ind'
<1>1. /\ cpc = "ready" /\ req = Idle /\ rep' = Idle /\ call' = c /\ c.f \in inuse
      /\ UNCHANGED <<maxlen, off, inuse>> /\ off \in [Files -> Nat]
  BY DEF fs_read, fs_write, Begin, Send, Ind, TurnInd, ClientTypes, Waits, link
<1>2. CASE fs_read(c)
  <2>1. c.count \in Nat \ {0}
    BY <1>2, CallFields, SystemAssumption DEF fs_read
  <2>2. left' = [i \in 1..c.count |-> 0] /\ cpc' = "read" /\ req' = ReadMessage(c.f, off[c.f], c.count)
    BY <1>2 DEF fs_read, Begin, Send, link
  <2>3. left' \in Seq(Nat) \ {<<>>} /\ Len(left') = c.count
    BY <2>1, <2>2
  <2> QED
    BY <1>1, <2>2, <2>3, TransferInd
<1>3. CASE fs_write(c)
  <2>1. c.data \in Seq(Byte) \ {<<>>}
    BY <1>3, CallFields, SystemAssumption DEF fs_write
  <2>2. left' = c.data /\ cpc' = "write" /\ req' = WriteMessage(c.f, off[c.f], c.data)
    BY <1>3 DEF fs_write, Begin, Send, link
  <2> QED
    BY <1>1, <2>1, <2>2, TransferInd
<1> QED
  BY <1>2, <1>3

(* They go on, or come to an end.                                          *)
LEMMA GotReadInd ==
  ASSUME Ind, GotRead, UNCHANGED <<fsVars, srvVars>>
  PROVE  Ind'
<1>1. /\ cpc = "read" /\ req = Idle /\ rep' = Idle /\ call.f \in inuse /\ call.f \in Files
      /\ left \in Seq(Nat) \ {<<>>} /\ off \in [Files -> Nat] /\ UNCHANGED <<maxlen, inuse>>
  BY DEF GotRead, Answered, Ind, TurnInd, CallInd, ClientTypes, Waits, Take, Send, link
<1>2. CASE cpc' = "ready" /\ req' = Idle /\ off' \in [Files -> Nat]
  BY <1>1, <1>2, OpenedInd
<1>3. CASE Return("fail") /\ Take /\ UNCHANGED off
  BY <1>1, <1>2, <1>3 DEF Return, Take, link
<1>4. CASE Return("ok") /\ Take /\ UNCHANGED off
  BY <1>1, <1>2, <1>4 DEF Return, Take, link
<1>5. CASE /\ rep.type = "Rread" /\ Advance(call.f, rep.count)
           /\ IF rep.count < Len(left)
              THEN /\ Send(ReadMessage(call.f, off'[call.f], Len(left) - rep.count))
                   /\ left' = Remaining(rep.count)
                   /\ UNCHANGED <<cpc, call, rest, ret>>
              ELSE Return("ok") /\ Take
  <2>1. rep.count \in Nat
    BY <1>1, <1>5 DEF Ind, ReplyInd
  <2>2. off' \in [Files -> Nat]
    BY <1>1, <1>5, <2>1 DEF Advance
  <2>3. CASE rep.count < Len(left)
    <3>1. /\ Remaining(rep.count) \in Seq(Nat) \ {<<>>}
          /\ Len(Remaining(rep.count)) = Len(left) - rep.count
      BY <1>1, <2>1, <2>3, LeftOver DEF Remaining
    <3>2. /\ cpc' = "read" /\ call' = call /\ left' = Remaining(rep.count)
          /\ req' = ReadMessage(call.f, off'[call.f], Len(left) - rep.count)
      BY <1>1, <1>5, <2>3 DEF Send, link
    <3> QED
      BY <1>1, <2>2, <3>1, <3>2, TransferInd
  <2>4. CASE ~(rep.count < Len(left))
    BY <1>1, <1>2, <1>5, <2>2, <2>4 DEF Return, Take, link
  <2> QED
    BY <2>3, <2>4
<1> QED
  BY <1>3, <1>4, <1>5 DEF GotRead

(* fs_write, one round of its loop                                         *)
LEMMA GotWriteInd ==
  ASSUME Ind, GotWrite, UNCHANGED <<fsVars, srvVars>>
  PROVE  Ind'
<1>1. /\ cpc = "write" /\ req = Idle /\ rep' = Idle /\ call.f \in inuse /\ call.f \in Files
      /\ left \in Seq(Byte) \ {<<>>} /\ off \in [Files -> Nat] /\ UNCHANGED <<maxlen, inuse>>
  BY DEF GotWrite, Answered, Ind, TurnInd, CallInd, ClientTypes, Waits, Take, Send, link
<1>2. CASE cpc' = "ready" /\ req' = Idle /\ off' \in [Files -> Nat]
  BY <1>1, <1>2, OpenedInd
<1>3. CASE Return("fail") /\ Take /\ UNCHANGED off
  BY <1>1, <1>2, <1>3 DEF Return, Take, link
<1>4. CASE Return("ok") /\ Take /\ UNCHANGED off
  BY <1>1, <1>2, <1>4 DEF Return, Take, link
<1>5. CASE /\ rep.type = "Rwrite" /\ Advance(call.f, rep.count)
           /\ IF rep.count < Len(left)
              THEN /\ Send(WriteMessage(call.f, off'[call.f], Remaining(rep.count)))
                   /\ left' = Remaining(rep.count)
                   /\ UNCHANGED <<cpc, call, rest, ret>>
              ELSE Return("ok") /\ Take
  <2>1. rep.count \in Nat
    BY <1>1, <1>5 DEF Ind, ReplyInd
  <2>2. off' \in [Files -> Nat]
    BY <1>1, <1>5, <2>1 DEF Advance
  <2>3. CASE rep.count < Len(left)
    <3>1. Remaining(rep.count) \in Seq(Byte) \ {<<>>}
      BY <1>1, <2>1, <2>3, LeftOver DEF Remaining
    <3>2. /\ cpc' = "write" /\ call' = call /\ left' = Remaining(rep.count)
          /\ req' = WriteMessage(call.f, off'[call.f], Remaining(rep.count))
      BY <1>1, <1>5, <2>3 DEF Send, link
    <3> QED
      BY <1>1, <2>2, <3>1, <3>2, TransferInd
  <2>4. CASE ~(rep.count < Len(left))
    BY <1>1, <1>2, <1>5, <2>2, <2>4 DEF Return, Take, link
  <2> QED
    BY <2>3, <2>4
<1> QED
  BY <1>3, <1>4, <1>5 DEF GotWrite

(* Every step of the program keeps Ind.                                    *)
LEMMA ProgramInd ==
  ASSUME Ind, Program
  PROVE  Ind'
<1>1. UNCHANGED <<fsVars, srvVars>>
  BY DEF Program
<1> QED
  BY <1>1, StartInd, BeginWalkInd, CloseInd, BeginTransferInd, GotWalkInd, GotOpenInd, GotCreateInd,
     GotClunkInd, GotReadInd, GotWriteInd DEF Program, ClientStep
-----------------------------------------------------------------------------
(* The steps of the server, and of other programs. *)

(* Which handler is at work.                                               *)
LEMMA HandlerOf ==
  ASSUME ServerInd, ServerStep
  PROVE  /\ req # Idle
         /\ req.type = "Tversion" => rversion
         /\ req.type = "Tattach" => rattach
         /\ req.type = "Twalk" => rwalk \/ userwalk
         /\ req.type = "Topen" => ropen \/ useropen
         /\ req.type = "Tcreate" => rcreate \/ usercreate \/ created \/ rcreated
         /\ req.type = "Tread" => rread \/ readdir
         /\ req.type = "Twrite" => rwrite
         /\ req.type = "Tclunk" => rclunk
<1>1. /\ srv = "walk" => req.type = "Twalk"
      /\ srv = "open" => req.type = "Topen"
      /\ srv \in {"create", "created", "qid"} => req.type = "Tcreate"
      /\ srv = "dir" => req.type = "Tread"
      /\ srv = "wstat" => req.type = "Twstat"
      /\ srv # "idle" => req # Idle
  BY DEF ServerInd, RequestInd, At
<1>2. CASE rversion \/ rauth \/ rattach \/ rwalk \/ ropen \/ rcreate \/ rread
  BY <1>2 DEF rversion, rauth, rattach, rwalk, ropen, rcreate, rread, Asked, Idle
<1>3. CASE rwrite \/ rclunk \/ rremove \/ rstat \/ rwstat
  BY <1>3 DEF rwrite, rclunk, rremove, rstat, rwstat, Asked, Idle
<1>4. CASE userwalk \/ useropen \/ usercreate \/ created \/ rcreated \/ readdir \/ wstat
  BY <1>1, <1>4 DEF userwalk, useropen, usercreate, created, rcreated, readdir, wstat, link
<1> QED
  BY <1>2, <1>3, <1>4 DEF ServerStep

(* Reading leaves an open fid open, with the descriptor or directory       *)
(* stream it has, and delivers a number of bytes if it answers.            *)
Alike(p, q) == q \in FidRec /\ q.omode = p.omode /\ q.fd = p.fd /\ q.dir = p.dir
ReadAnswer ==
  \/ UNCHANGED <<req, rep>>
  \/ req' = Idle /\ rep' = Rerror
  \/ req' = Idle /\ rep'.type = "Rread" /\ rep'.count \in Nat
Reads == /\ \E q : Alike(fidtab[req.fid], q) /\ fidtab' = [fidtab EXCEPT ![req.fid] = q]
         /\ ReadAnswer

(* The end of rread on a directory answers, and moves the place in it.     *)
LEMMA DirDoneReads ==
  ASSUME ServerInd, NEW p, Alike(fidtab[req.fid], p), DirDone(req.fid, p)
  PROVE  Reads
<1>1. Filled \in Nat
  BY FilledType DEF ServerInd, ServerTypeOK
<1> DEFINE n == p.diroffset + Filled
           q == [p EXCEPT !.diroffset = n]
<1>2. fidtab' = [fidtab EXCEPT ![req.fid] = q]
  BY DEF DirDone
<1>3. n \in Nat
  BY <1>1 DEF Alike, FidRec
<1> HIDE DEF n
<1>4. Alike(fidtab[req.fid], q)
  BY <1>3 DEF Alike, FidRec
<1>5. ReadAnswer
  BY <1>1 DEF DirDone, Answer, AnswerIn, ReadAnswer
<1> QED
  BY <1>2, <1>4, <1>5 DEF Reads

(* One entry of the directory: on to the next, or the answer.              *)
LEMMA DirTurnReads ==
  ASSUME ServerInd, fidtab[req.fid] \in FidRec, NEW name \in Names, NEW todo \in SUBSET Names,
         DirTurn(req.fid, name, todo)
  PROVE  Reads
<1> DEFINE p == fidtab[req.fid]
           t == [p EXCEPT !.dirent = name, !.todo = todo]
           u == [t EXCEPT !.dirent = Nothing]
<1>1. t \in FidRec /\ t.fd = p.fd /\ t.dir = p.dir /\ t.omode = p.omode
  <2> HIDE DEF p
  <2>1. p \in FidRec
    BY DEF p
  <2> QED
    BY <2>1 DEF FidRec
<1>2. u \in FidRec /\ u.fd = p.fd /\ u.dir = p.dir /\ u.omode = p.omode
  <2> HIDE DEF t
  <2> QED
    BY <1>1 DEF FidRec
<1>3. Alike(p, t) /\ Alike(p, u)
  BY <1>1, <1>2 DEF Alike
<1>4. CASE ~Exists(Append(t.path, name))
  <2>1. fidtab' = [fidtab EXCEPT ![req.fid] = u] /\ UNCHANGED <<req, rep>>
    BY <1>4 DEF DirTurn, PassOver, link
  <2> HIDE DEF u
  <2> QED
    BY <1>3, <2>1 DEF Reads, ReadAnswer
<1>5. CASE Exists(Append(t.path, name)) /\ Filled + EntrySize[name] > req.count
  <2>1. DirDone(req.fid, t)
    BY <1>5 DEF DirTurn, KeepWaiting, link
  <2> HIDE DEF t
  <2> QED
    BY <1>3, <2>1, DirDoneReads
<1>6. CASE Exists(Append(t.path, name)) /\ ~(Filled + EntrySize[name] > req.count)
  <2>1. fidtab' = [fidtab EXCEPT ![req.fid] = u] /\ UNCHANGED <<req, rep>>
    BY <1>6 DEF DirTurn, link
  <2> HIDE DEF u
  <2> QED
    BY <1>3, <2>1 DEF Reads, ReadAnswer
<1> QED
  BY <1>4, <1>5, <1>6

(* A read of a file has a descriptor to read from.                         *)
LEMMA ReadsAFile ==
  ASSUME ServerInd, rread, ReadFile(req.fid), CanRead(req.fid)
  PROVE  fidtab[req.fid].fd \in Inodes
<1> DEFINE p == fidtab[req.fid]
<1>1. req.type = "Tread" /\ srv = "idle" /\ Known(req.fid) /\ p.omode # Closed /\ p.dir = Nothing
  BY DEF rread, Asked, CanRead, Readable, ReadFile
<1>2. req.fid \in FidIds
  BY <1>1, AskedFields, RequestFields
<1>3. p \in FidRec /\ Matches(p)
  BY <1>1, <1>2, KnownFid DEF ServerInd, HandleInd
<1>4. p.fd # Nothing
  BY <1>1, <1>3 DEF Matches, Held
<1> QED
  BY <1>3, <1>4, FidFields

(* A piece of a sequence.                                                  *)
LEMMA PieceOf ==
  ASSUME NEW S, NEW s \in Seq(S), NEW o \in Nat, NEW e \in Nat, e <= Len(s)
  PROVE  /\ SubSeq(s, o + 1, e) \in Seq(S)
         /\ Len(SubSeq(s, o + 1, e)) = IF e > o THEN e - o ELSE 0
<1>1. CASE e > o
  <2>1. o + 1 \in 1..Len(s) /\ e \in 1..Len(s)
    BY <1>1
  <2>2. SubSeq(s, o + 1, e) \in Seq(S) /\ Len(SubSeq(s, o + 1, e)) = e - (o + 1) + 1
    BY <1>1, <2>1
  <2> QED
    BY <1>1, <2>2
<1>2. CASE ~(e > o)
  <2>1. SubSeq(s, o + 1, e) = <<>>
    BY <1>2
  <2> QED
    BY <1>2, <2>1
<1> QED
  BY <1>1, <1>2

(* What pread delivers: the bytes at that place, as many as there are.     *)
LEMMA SliceType ==
  ASSUME NEW S, NEW s \in Seq(S), NEW o \in Nat, NEW n \in Nat
  PROVE  LET t == Slice(s, o, n)
         IN  /\ t \in Seq(S) /\ Len(t) \in 0..n
             /\ Len(t) > 0 => o + Len(t) <= Len(s)
             /\ Slice(s, o, Len(t)) = t
<1> DEFINE m(k) == Min({o + k, Len(s)})
           t == Slice(s, o, n)
<1> USE DEF Slice
<1>1. ASSUME NEW k \in Nat PROVE m(k) \in {o + k, Len(s)} /\ m(k) <= o + k /\ m(k) <= Len(s)
  <2> DEFINE a == o + k
             b == Len(s)
  <2>1. a \in Nat /\ b \in Nat
    OBVIOUS
  <2> HIDE DEF a, b
  <2>2. \E x \in {a, b} : \A y \in {a, b} : x =< y
    BY <2>1
  <2>3. Min({a, b}) \in {a, b} /\ Min({a, b}) <= a /\ Min({a, b}) <= b
    BY <2>2 DEF Min
  <2> QED
    BY <2>3 DEF a, b
<1>2. \A k \in Nat : Slice(s, o, k) = SubSeq(s, o + 1, m(k))
  BY DEF m
<1> HIDE DEF m, Slice
<1>3. PICK e \in Nat : e = m(n) /\ e \in {o + n, Len(s)} /\ e <= Len(s) /\ e <= o + n
  <2>1. m(n) \in {o + n, Len(s)} /\ m(n) <= Len(s) /\ m(n) <= o + n
    BY <1>1
  <2>2. o + n \in Nat /\ Len(s) \in Nat
    OBVIOUS
  <2> QED
    BY <2>1, <2>2
<1>4. t = SubSeq(s, o + 1, e)
  BY <1>2, <1>3
<1> HIDE DEF t
<1> DEFINE k == Len(t)
<1>5. t \in Seq(S) /\ k = IF e > o THEN e - o ELSE 0
  BY <1>3, <1>4, PieceOf
<1> HIDE DEF k
<1>6. k \in 0..n /\ (k > 0 => o + k = e)
  BY <1>3, <1>5
<1>7. Slice(s, o, k) = t
  <2>1. CASE k > 0
    <3>1. k \in Nat /\ o + k = e /\ e <= Len(s)
      BY <1>3, <1>6, <2>1
    <3>2. m(k) = e
      <4>1. m(k) \in {o + k, Len(s)} /\ m(k) <= o + k
        BY <1>1, <3>1
      <4>2. CASE m(k) = o + k
        BY <3>1, <4>2
      <4>3. CASE m(k) = Len(s)
        <5>1. e <= Len(s) /\ Len(s) <= e
          BY <3>1, <4>1, <4>3
        <5>2. Len(s) \in Nat
          OBVIOUS
        <5> QED
          BY <1>3, <4>3, <5>1, <5>2
      <4> QED
        BY <4>1, <4>2, <4>3
    <3> QED
      BY <1>2, <1>4, <3>1, <3>2
  <2>2. CASE k = 0
    <3>1. PICK z \in Nat : z = m(0) /\ z <= o /\ z <= Len(s)
      <4>1. m(0) \in {o + 0, Len(s)} /\ m(0) <= o + 0 /\ m(0) <= Len(s)
        BY <1>1
      <4> QED
        BY <4>1
    <3>2. Len(SubSeq(s, o + 1, z)) = 0 /\ SubSeq(s, o + 1, z) \in Seq(S)
      BY <3>1, PieceOf
    <3>3. \A u \in Seq(S) : Len(u) = 0 => u = <<>>
      OBVIOUS
    <3>4. t = <<>> /\ SubSeq(s, o + 1, z) = <<>>
      BY <1>5, <2>2, <3>2, <3>3 DEF k
    <3> QED
      BY <1>2, <2>2, <3>1, <3>4
  <2> QED
    BY <1>6, <2>1, <2>2
<1> QED
  BY <1>3, <1>5, <1>6, <1>7 DEF t, k

(* All of rread, on a file or on a directory.                              *)
LEMMA ReadReads ==
  ASSUME ServerInd, rread \/ readdir, Known(req.fid)
  PROVE  Reads
<1> DEFINE p == fidtab[req.fid]
<1>1. req \in Requests /\ req.type = "Tread" /\ req.fid \in FidIds /\ p \in FidRec
  <2>1. req.type = "Tread"
    BY DEF ServerInd, RequestInd, At, rread, readdir, Asked
  <2> QED
    BY <2>1, AskedFields, RequestFields, KnownFid DEF ServerInd
<1>2. Alike(p, p) /\ [fidtab EXCEPT ![req.fid] = p] = fidtab
  <2>1. fidtab \in Table
    BY DEF ServerInd, ServerTypeOK, Table
  <2> QED
    BY <1>1, <2>1 DEF Alike, Table
<1>3. ASSUME fidtab' = fidtab, ReadAnswer PROVE Reads
  BY <1>2, <1>3 DEF Reads
<1>4. CASE rread
  <2>1. CASE Refuse
    BY <1>3, <2>1 DEF Refuse, Answer, AnswerIn, ReadAnswer
  <2>2. CASE CanRead(req.fid) /\ ReadFile(req.fid)
    <3> DEFINE s == Slice(data[fidtab[req.fid].fd], req.offset, req.count)
    <3>1. Len(s) \in Nat
      <4>1. fidtab[req.fid].fd \in Inodes
        BY <1>4, <2>2, ReadsAFile
      <4>2. data[fidtab[req.fid].fd] \in Seq(Byte)
        BY <4>1 DEF ServerInd, HostTypeOK
      <4> QED
        BY <1>1, <4>2, RequestFields, SliceType
    <3>2. req' = Idle /\ rep' = [type |-> "Rread", count |-> Len(s), data |-> s] /\ fidtab' = fidtab
      BY <2>2 DEF ReadFile, Answer, AnswerIn
    <3> HIDE DEF s
    <3>3. ReadAnswer
      BY <3>1, <3>2 DEF ReadAnswer
    <3> QED
      BY <1>3, <3>2, <3>3
  <2>3. CASE ReadDir(req.fid)
    <3> DEFINE q == IF req.offset = p.diroffset THEN p ELSE Rewound(p)
    <3>1. fidtab' = [fidtab EXCEPT ![req.fid] = q]
      BY <2>3 DEF ReadDir, link
    <3>2. Alike(p, q)
      <4>1. Listing(p.dir) \in SUBSET Names
        BY DEF Listing
      <4>2. Alike(p, Rewound(p))
        <5> DEFINE todo == Listing(p.dir)
        <5> HIDE DEF todo, p
        <5> QED
          BY <1>1, <4>1 DEF Alike, Rewound, FidRec, todo
      <4> QED
        BY <1>2, <4>2
    <3>3. ReadAnswer
      BY <2>3 DEF ReadDir, Answer, AnswerIn, ReadAnswer, link
    <3> HIDE DEF q
    <3> QED
      BY <3>1, <3>2, <3>3 DEF Reads
  <2> QED
    BY <1>4, <2>1, <2>2, <2>3 DEF rread
<1>5. CASE readdir
  <2>1. CASE DirDone(req.fid, p)
    BY <1>2, <2>1, DirDoneReads
  <2>2. CASE DirDone(req.fid, [p EXCEPT !.direof = TRUE])
    <3> DEFINE q == [p EXCEPT !.direof = TRUE]
    <3>1. Alike(p, q)
      <4> HIDE DEF p
      <4> QED
        BY <1>1 DEF Alike, FidRec
    <3> HIDE DEF q
    <3> QED
      BY <2>2, <3>1, DirDoneReads DEF q
  <2>3. CASE p.dirent # Nothing /\ DirTurn(req.fid, p.dirent, p.todo)
    <3>1. p.dirent \in Names /\ p.todo \in SUBSET Names
      BY <1>1, <2>3, FidFields
    <3> QED
      BY <1>1, <2>3, <3>1, DirTurnReads
  <2>4. CASE \E name \in p.todo : DirTurn(req.fid, name, p.todo \ {name})
    <3>1. p.todo \in SUBSET Names
      BY <1>1, FidFields
    <3> QED
      BY <1>1, <2>4, <3>1, DirTurnReads
  <2> QED
    BY <1>5, <2>1, <2>2, <2>3, <2>4 DEF readdir
<1> QED
  BY <1>4, <1>5

(* A reply is counted as given when it is lost, too.                       *)
LEMMA Replied ==
  ASSUME NEW reply, NEW limit, AnswerIn(reply, limit)
  PROVE  rep' = reply /\ req' = Idle
BY DEF AnswerIn

LEMMA WriteReplied ==
  ASSUME rwrite
  PROVE  /\ req' = Idle
         /\ rep' = Rerror \/ \E n \in 1..Len(req.data) : rep' = [type |-> "Rwrite", count |-> n]
         /\ rep' # Rerror \/ UNCHANGED <<fsVars, fidtab>>
<1>1. CASE Answer(Rerror) /\ UNCHANGED <<fsVars, fidtab>>
  BY <1>1, Replied DEF Answer
<1>2. CASE \E n \in 1..Len(req.data) : Answer([type |-> "Rwrite", count |-> n])
  BY <1>2, Replied DEF Answer, Rerror
<1> QED
  BY <1>1, <1>2 DEF rwrite, Refuse

(* A handler goes on, or answers.                                          *)
LEMMA AnswersOnce ==
  ASSUME ServerInd, ServerStep,
         req.type \in {"Tversion", "Tattach", "Twalk", "Topen", "Tcreate", "Tread", "Twrite", "Tclunk"}
  PROVE  UNCHANGED <<req, rep>> \/ (req' = Idle /\ rep' # Idle)
<1> USE DEF Answer, AnswerIn, Refuse, Rerror, Idle
<1>0. CASE rwrite
  BY <1>0, WriteReplied
<1>1. CASE rversion \/ rattach \/ userwalk \/ useropen \/ rcreated \/ rclunk
  BY <1>1 DEF rversion, rattach, userwalk, useropen, rcreated, rclunk
<1>2. CASE rwalk \/ ropen \/ rcreate
  BY <1>2 DEF rwalk, ropen, rcreate, Look, link
<1>3. CASE usercreate \/ created
  BY <1>3 DEF usercreate, created, link
<1>4. CASE rread /\ ~Known(req.fid)
  BY <1>4 DEF rread, CanRead, Readable
<1>5. CASE (rread \/ readdir) /\ Known(req.fid)
  BY <1>5, ReadReads DEF Reads, ReadAnswer
<1>6. readdir => Known(req.fid)
  BY DEF readdir, ServerInd, RequestInd, At
<1> QED
  BY <1>0, <1>1, <1>2, <1>3, <1>4, <1>5, <1>6, HandlerOf

(* It changes no fid but the one it works for.                             *)
LEMMA OthersStay ==
  ASSUME ServerInd, ServerStep, NEW f \in FidIds, f # req.fid, req.type = "Twalk" => f # req.newfid,
         req.type \in {"Tversion", "Tattach", "Twalk", "Topen", "Tcreate", "Tread", "Twrite", "Tclunk"}
  PROVE  fidtab'[f] = fidtab[f]
<1>1. fidtab \in Table
  BY DEF ServerInd, ServerTypeOK, Table
<1>2. CASE req.type \in {"Tversion", "Tattach", "Twalk", "Twrite", "Tclunk"}
  BY <1>1, <1>2, HandlerOf DEF rversion, rattach, rwalk, userwalk, rwrite, rclunk, Look, Refuse, Free, Table, link
<1>3. CASE req.type \in {"Topen", "Tcreate"}
  BY <1>1, <1>3, HandlerOf DEF ropen, useropen, OpenDir, OpenFile, rcreate, usercreate, created, rcreated, link,
                               Look, Refuse, Table
<1>4. CASE req.type = "Tread" /\ Known(req.fid)
  BY <1>1, <1>4, HandlerOf, ReadReads DEF Reads, Table
<1>5. CASE req.type = "Tread" /\ ~Known(req.fid)
  BY <1>5, HandlerOf DEF rread, readdir, CanRead, Readable, Refuse, ServerInd, RequestInd, At
<1> QED
  BY <1>2, <1>3, <1>4, <1>5

(* What the server is asked while a call waits.                            *)
LEMMA AskedFor ==
  ASSUME Ind, req # Idle
  PROVE  /\ cpc \in Waits /\ rep = Idle
         /\ cpc = "version" => req.type = "Tversion"
         /\ cpc = "attach" => req.type = "Tattach" /\ req.fid = RootDir
         /\ cpc = "walk" => req.type = "Twalk" /\ req.newfid = call.f /\ req.fid \in {RootDir, call.f}
         /\ cpc = "create" => req.type = "Tcreate" /\ req.fid = call.f /\ ~req.isdir
         /\ cpc = "open" => req.type = "Topen" /\ req.fid = call.f
         /\ cpc = "read" => /\ req.type = "Tread" /\ req.fid = call.f
                            /\ req.offset = off[call.f] /\ req.count = Piece(Len(left))
         /\ cpc = "write" => /\ req.type = "Twrite" /\ req.fid = call.f
                             /\ req.offset = off[call.f] /\ req.data = SubSeq(left, 1, Piece(Len(left)))
         /\ cpc = "clunk" => req.type = "Tclunk" /\ req.fid = call.f
BY DEF Ind, TurnInd, AskedInd, OpenMessage, CreateMessage, ReadMessage, WriteMessage

(* The fid rcreate replies about has been opened.                          *)
LEMMA QidOpen ==
  ASSUME Ind, ServerStep, srv' = "qid"
  PROVE  fidtab'[req'.fid].omode # Closed
<1>1. req # Idle
  BY HandlerOf DEF Ind
<1>2. CASE created
  <2> DEFINE f == req.fid
             p == fidtab[f]
  <2>1. /\ f \in FidIds /\ p \in FidRec /\ req.mode \in Modes /\ req.rclose \in BOOLEAN
    BY <1>2, StepFields, RequestFields, KnownFid DEF created, Ind, ServerInd, RequestInd, At, link
  <2>2. fidtab' = [fidtab EXCEPT ![f] = Opened(f, @)] /\ req' = req
    BY <1>2 DEF created, Answer, AnswerIn, link
  <2>3. fidtab \in Table
    BY DEF Ind, ServerInd, ServerTypeOK, Table
  <2>4. Opened(f, p).omode # Closed
    BY <2>1, OpenedFid DEF Opened
  <2> QED
    BY <2>1, <2>2, <2>3, <2>4 DEF Table
<1>3. CASE rversion \/ rauth \/ rattach \/ userwalk \/ useropen \/ usercreate \/ rcreated \/ rwrite \/ rclunk
  BY <1>3 DEF rversion, rauth, rattach, userwalk, useropen, usercreate, rcreated, rwrite, rclunk, link,
              Answer, AnswerIn, Refuse
<1>4. CASE rwalk \/ ropen \/ rcreate \/ rremove \/ rstat \/ rwstat \/ wstat
  BY <1>4 DEF rwalk, ropen, rcreate, rremove, rstat, rwstat, wstat, Look, Answer, AnswerIn, Refuse, link
<1>5. CASE rread \/ readdir
  BY <1>5 DEF rread, ReadFile, ReadDir, readdir, DirTurn, DirDone, Answer, AnswerIn, Refuse, link
<1> QED
  BY <1>2, <1>3, <1>4, <1>5 DEF ServerStep

(* A fid the program holds open stays open while the server works.         *)
LEMMA HeldStaysOpen ==
  ASSUME Ind, ServerStep, UNCHANGED clientVars
  PROVE  OpenMeansOpen'
<1>1. req # Idle /\ cpc \in Waits /\ rep = Idle
  BY HandlerOf, AskedFor DEF Ind
<1>2. UNCHANGED <<cpc, call, inuse>> /\ inuse \in SUBSET Files /\ Files \subseteq FidIds
  BY SystemAssumption DEF clientVars, Ind, ClientTypes
<1> SUFFICES ASSUME NEW f \in inuse
             PROVE  IsOpen(f)' \/ (cpc = "clunk" /\ call.f = f /\ rep' # Idle)
  BY <1>2 DEF OpenMeansOpen, IsOpen, Known
<1>3. IsOpen(f) /\ f \in FidIds /\ f # RootDir
  BY <1>1, <1>2, ClientAssumption DEF Ind, OpenMeansOpen, IsOpen
<1>4. ASSUME fidtab'[f] = fidtab[f] PROVE IsOpen(f)'
  BY <1>3, <1>4 DEF IsOpen, Known
<1>5. CASE cpc = "version"
  BY <1>1, <1>4, <1>5, AskedFor, HandlerOf DEF Ind, rversion
<1>6. CASE cpc \in {"attach", "walk", "create", "open"}
  <2>1. f # req.fid /\ (req.type = "Twalk" => f # req.newfid)
    BY <1>1, <1>3, <1>6, AskedFor DEF Ind, CallInd
  <2>2. req.type \in {"Tattach", "Twalk", "Topen", "Tcreate"}
    BY <1>1, <1>6, AskedFor
  <2> QED
    BY <1>3, <1>4, <2>1, <2>2, OthersStay DEF Ind
<1>7. CASE cpc \in {"read", "write", "clunk"} /\ call.f # f
  <2>1. f # req.fid /\ req.type \in {"Tread", "Twrite", "Tclunk"}
    BY <1>1, <1>7, AskedFor
  <2> QED
    BY <1>3, <1>4, <2>1, OthersStay DEF Ind
<1>8. CASE cpc = "read" /\ call.f = f
  <2>1. req.type = "Tread" /\ req.fid = f /\ Known(f)
    BY <1>1, <1>3, <1>8, AskedFor DEF IsOpen
  <2>2. Reads
    BY <2>1, HandlerOf, ReadReads DEF Ind
  <2>3. fidtab \in Table /\ NoFid \notin FidRec
    BY ServerAssumption DEF Ind, ServerInd, ServerTypeOK, Table
  <2> QED
    BY <1>3, <2>1, <2>2, <2>3 DEF Reads, Alike, IsOpen, Known, Table
<1>9. CASE cpc = "write" /\ call.f = f
  <2>1. rwrite
    BY <1>1, <1>9, AskedFor, HandlerOf DEF Ind
  <2> QED
    BY <1>4, <2>1 DEF rwrite, Refuse
<1>10. CASE cpc = "clunk" /\ call.f = f
  <2>1. rclunk
    BY <1>1, <1>10, AskedFor, HandlerOf DEF Ind
  <2> QED
    BY <1>10, <2>1 DEF rclunk, Refuse, Answer, AnswerIn, Rerror, Idle
<1> QED
  BY <1>1, <1>5, <1>6, <1>7, <1>8, <1>9, <1>10 DEF Waits

(* What useropen opens.                                                    *)
LEMMA OpenedHow ==
  ASSUME ServerInd, useropen, rep' # Rerror
  PROVE  /\ req.fid \in FidIds /\ Stat(Path(req.fid)) \in Inodes
         /\ fidtab[req.fid].fd = Nothing /\ fidtab[req.fid].dir = Nothing
         /\ fidtab' \in Table /\ \A g \in FidIds \ {req.fid} : fidtab'[g] = fidtab[g]
         /\ fidtab'[req.fid] \in FidRec /\ fidtab'[req.fid].omode # Closed
         /\ \/ OpenDir(req.fid) /\ fidtab'[req.fid].dir = Stat(Path(req.fid))
            \/ OpenFile(req.fid) /\ fidtab'[req.fid].fd = Stat(Path(req.fid))
<1> DEFINE f == req.fid
           p == fidtab[f]
           o == Opened(f, p)
           i == Stat(Path(f))
<1>1. /\ f \in FidIds /\ Known(f) /\ p.omode = Closed /\ (OpenDir(f) \/ OpenFile(f))
      /\ req \in Requests /\ req.type = "Topen"
  BY StepFields DEF useropen, ServerInd, RequestInd, At, Answer, AnswerIn
<1>2. p \in FidRec /\ p.fd = Nothing /\ p.dir = Nothing /\ i \in Inodes \cup {Nothing}
  <2>1. Matches(p)
    BY StepFields DEF useropen, ServerInd, RequestInd, At, HandleInd
  <2> QED
    BY <1>1, <2>1, KnownFid, StatType DEF ServerInd, Matches, Held
<1>3. i \in Inodes
  BY <1>1, <1>2 DEF OpenDir, OpenFile, IsDir, Exists
<1>4. o \in FidRec /\ o.omode # Closed /\ o.fd = Nothing /\ o.dir = Nothing
  BY <1>1, <1>2, RequestFields, OpenedFid DEF Opened
<1>5. CASE OpenDir(f)
  <2> DEFINE todo == Listing(i)
             q == [o EXCEPT !.dir = i, !.todo = todo]
  <2>1. todo \in SUBSET Names
    BY DEF Listing
  <2>2. fidtab' = [fidtab EXCEPT ![f] = q]
    BY <1>5 DEF OpenDir
  <2> HIDE DEF o, i, todo, p
  <2>3. q \in FidRec /\ q.dir = i /\ q.omode = o.omode
    BY <1>3, <1>4, <2>1 DEF FidRec
  <2> HIDE DEF q, f
  <2>4. fidtab' \in Table /\ fidtab'[f] = q /\ \A g \in FidIds \ {f} : fidtab'[g] = fidtab[g]
    BY <1>1, <2>2, <2>3, UpdatedTable DEF ServerInd
  <2> QED
    BY <1>1, <1>2, <1>3, <1>4, <1>5, <2>3, <2>4 DEF f, p, i
<1>6. CASE OpenFile(f)
  <2> DEFINE q == [o EXCEPT !.fd = i]
  <2>1. fidtab' = [fidtab EXCEPT ![f] = q]
    BY <1>6 DEF OpenFile
  <2> HIDE DEF o, i, p
  <2>2. q \in FidRec /\ q.fd = i /\ q.omode = o.omode
    BY <1>3, <1>4, FileFid
  <2> HIDE DEF q, f
  <2>3. fidtab' \in Table /\ fidtab'[f] = q /\ \A g \in FidIds \ {f} : fidtab'[g] = fidtab[g]
    BY <1>1, <2>1, <2>2, UpdatedTable DEF ServerInd
  <2> QED
    BY <1>1, <1>2, <1>3, <1>4, <1>6, <2>2, <2>3 DEF f, p, i
<1> QED
  BY <1>1, <1>5, <1>6

(* What a reply says of the file is so.                                    *)
LEMMA AnswerTrue ==
  ASSUME Ind, ServerStep, UNCHANGED clientVars
  PROVE  ReplyInd'
<1>1. req # Idle /\ cpc \in Waits /\ rep = Idle
  BY HandlerOf, AskedFor DEF Ind
<1>2. UNCHANGED <<cpc, call>>
  BY DEF clientVars
<1>3. CASE cpc \in {"version", "attach", "walk", "clunk"}
  BY <1>2, <1>3, QidOpen DEF ReplyInd
<1>4. CASE cpc = "create"
  <2>1. req.type = "Tcreate" /\ req.fid = call.f
    BY <1>1, <1>4, AskedFor
  <2>2. CASE rcreate \/ usercreate \/ created
    BY <1>1, <1>2, <1>4, <2>2, QidOpen
       DEF rcreate, usercreate, created, Look, Answer, AnswerIn, Refuse, Rerror, Idle, ReplyInd, link
  <2>3. CASE rcreated
    <3>1. IsOpen(call.f) /\ UNCHANGED fidtab
      BY <2>1, <2>3 DEF rcreated, Ind, ReplyInd, ServerInd, RequestInd, At, IsOpen
    <3> QED
      BY <1>2, <1>4, <3>1, QidOpen DEF ReplyInd, IsOpen, Known
  <2> QED
    BY <2>1, <2>2, <2>3, HandlerOf DEF Ind
<1>5. CASE cpc = "open"
  <2> DEFINE f == call.f
  <2>1. req.type = "Topen" /\ req.fid = f
    BY <1>1, <1>5, AskedFor
  <2>2. CASE ropen
    BY <1>1, <1>2, <1>5, <2>2, QidOpen DEF ropen, Look, Answer, AnswerIn, Refuse, Rerror, Idle, ReplyInd, link
  <2>3. CASE useropen /\ rep' = Rerror
    BY <1>2, <1>5, <2>3, QidOpen DEF Rerror, ReplyInd
  <2>4. CASE useropen /\ rep' # Rerror
    <3>1. fidtab'[f] \in FidRec /\ fidtab'[f].omode # Closed
      BY <2>1, <2>4, OpenedHow DEF Ind
    <3>2. IsOpen(f)'
      BY <1>2, <3>1, ServerAssumption DEF IsOpen, Known
    <3> QED
      BY <1>2, <1>5, <3>2, QidOpen DEF ReplyInd
  <2> QED
    BY <2>1, <2>2, <2>3, <2>4, HandlerOf DEF Ind
<1>6. CASE cpc = "read"
  <2>1. req.type = "Tread" /\ req.fid = call.f /\ Known(req.fid)
    BY <1>1, <1>6, AskedFor DEF Ind, CallInd, OpenMeansOpen
  <2>2. ReadAnswer
    BY <2>1, HandlerOf, ReadReads DEF Ind, Reads
  <2> QED
    BY <1>1, <1>2, <1>6, <2>2, QidOpen DEF ReplyInd, ReadAnswer, Rerror, Idle
<1>7. CASE cpc = "write"
  <2>1. rwrite /\ req \in Requests /\ req.type = "Twrite"
    BY <1>1, <1>7, AskedFor, HandlerOf, AskedFields DEF Ind
  <2>2. Len(req.data) \in Nat
    BY <2>1, RequestFields
  <2>3. rep' = Rerror \/ rep'.count \in Nat
    BY <2>1, <2>2, WriteReplied
  <2> QED
    BY <1>2, <1>7, <2>3, QidOpen DEF ReplyInd, Rerror
<1> QED
  BY <1>1, <1>3, <1>4, <1>5, <1>6, <1>7 DEF Waits

(* Every step of the server keeps Ind.                                     *)
LEMMA ServerKeepsInd ==
  ASSUME Ind, Server
  PROVE  Ind'
<1>1. ServerStep /\ UNCHANGED clientVars
  BY DEF Server
<1>2. ServerInd' /\ OpenMeansOpen' /\ ReplyInd'
  BY <1>1, ServerStepInd, HeldStaysOpen, AnswerTrue DEF Ind
<1>3. req # Idle /\ cpc \in Waits /\ rep = Idle
  BY <1>1, HandlerOf, AskedFor DEF Ind
<1>4. UNCHANGED <<req, rep>> \/ (req' = Idle /\ rep' # Idle)
  BY <1>1, <1>3, AskedFor, AnswersOnce DEF Ind, Waits
<1>5. UNCHANGED <<cpc, call, rest, maxlen, off, inuse, left>>
  BY <1>1 DEF clientVars
<1>6. ClientTypes'
  BY <1>5 DEF Ind, ClientTypes
<1>7. TurnInd' /\ CallInd'
  BY <1>3, <1>4, <1>5 DEF Ind, TurnInd, CallInd
<1>8. AskedInd'
  BY <1>4, <1>5 DEF Ind, AskedInd, CreateMessage, OpenMessage, ReadMessage, WriteMessage, Piece
<1> QED
  BY <1>2, <1>6, <1>7, <1>8 DEF Ind

(* Other programs change names and no fid.                                 *)
LEMMA OutsideInd ==
  ASSUME Ind, Outside
  PROVE  Ind'
<1>1. UNCHANGED <<srvVars, clientVars, req, rep>>
  BY DEF Outside, link
<1>2. HostTypeOK'
  <2>1. PICK path : \/ CanUnlink(path) /\ Unlink(path)
                    \/ CanMake(Front(path), Last(path)) /\ Make(Front(path), Last(path), "file")
    BY DEF Outside, link
  <2> QED
    BY <2>1, UnlinkType, MakeType DEF Ind, ServerInd, CanMake
<1>3. ServerTypeOK'
  BY <1>1 DEF Ind, ServerInd, ServerTypeOK, srvVars
<1>4. RequestInd' /\ HandleInd'
  BY <1>1 DEF Ind, ServerInd, RequestInd, HandleInd, At, Known, Path, srvVars
<1>5. ClientTypes' /\ TurnInd' /\ CallInd'
  BY <1>1 DEF Ind, ClientTypes, TurnInd, CallInd, clientVars
<1>6. AskedInd'
  BY <1>1 DEF Ind, AskedInd, CreateMessage, OpenMessage, ReadMessage, WriteMessage, Piece, clientVars
<1>7. ReplyInd' /\ OpenMeansOpen'
  BY <1>1 DEF Ind, ReplyInd, OpenMeansOpen, IsOpen, Known, clientVars, srvVars
<1> QED
  BY <1>2, <1>3, <1>4, <1>5, <1>6, <1>7 DEF Ind, ServerInd

(* The file system the program and the server find.                        *)
FileSystem(k, e, d) ==
  /\ k \in [Inodes -> {"free", "dir", "file"}]
  /\ e \in [Inodes -> [Names -> Inodes \cup {Nothing}]]
  /\ d \in [Inodes -> Seq(Byte)]
Behaviour(k, e, d) == Init(k, e, d) /\ [][Next]_vars

(* The invariant holds at the start.                                       *)
LEMMA InitInd ==
  ASSUME NEW k, NEW e, NEW d, FileSystem(k, e, d), Init(k, e, d)
  PROVE  Ind
<1>1. HostTypeOK
  BY DEF FileSystem, Init, HostTypeOK
<1>2. ServerTypeOK
  BY ServerAssumption DEF Init, ServerInit, ServerTypeOK
<1>3. RequestInd /\ HandleInd
  BY DEF Init, ServerInit, LinkInit, RequestInd, HandleInd, At, Known
<1>4. ClientTypes /\ TurnInd /\ CallInd /\ AskedInd
  BY ClientAssumption DEF Init, ClientInit, LinkInit, ClientTypes, TurnInd, CallInd, AskedInd, Waits
<1>5. ReplyInd /\ OpenMeansOpen
  BY DEF Init, ServerInit, ClientInit, LinkInit, ReplyInd, OpenMeansOpen
<1> QED
  BY <1>1, <1>2, <1>3, <1>4, <1>5 DEF Ind, ServerInd

(* Every step keeps it.                                                    *)
LEMMA NextInd ==
  ASSUME Ind, [Next]_vars
  PROVE  Ind'
<1>1. CASE Next
  BY <1>1, ProgramInd, ServerKeepsInd, OutsideInd DEF Next
<1>2. CASE UNCHANGED vars
  <2>1. UNCHANGED <<kind, ent, data, fidtab, msize, srv, seen, list, req, rep,
                    cpc, call, rest, maxlen, off, inuse, left>>
    BY <1>2 DEF vars, fsVars, srvVars, clientVars, link
  <2>2. HostTypeOK' /\ ServerTypeOK'
    BY <2>1 DEF Ind, ServerInd, HostTypeOK, ServerTypeOK
  <2>3. RequestInd' /\ HandleInd'
    BY <2>1 DEF Ind, ServerInd, RequestInd, HandleInd, At, Known, Path
  <2>4. ClientTypes' /\ TurnInd' /\ CallInd'
    BY <2>1 DEF Ind, ClientTypes, TurnInd, CallInd
  <2>5. AskedInd'
    BY <2>1 DEF Ind, AskedInd, CreateMessage, OpenMessage, ReadMessage, WriteMessage, Piece
  <2>6. ReplyInd' /\ OpenMeansOpen'
    BY <2>1 DEF Ind, ReplyInd, OpenMeansOpen, IsOpen, Known
  <2> QED
    BY <2>2, <2>3, <2>4, <2>5, <2>6 DEF Ind, ServerInd
<1> QED
  BY <1>1, <1>2

(* And so it holds always.                                                 *)
LEMMA AlwaysInd ==
  ASSUME NEW k, NEW e, NEW d, FileSystem(k, e, d)
  PROVE  Behaviour(k, e, d) => []Ind
<1>1. Init(k, e, d) => Ind
  BY InitInd
<1>2. Ind /\ [Next]_vars => Ind'
  BY NextInd
<1> QED
  BY <1>1, <1>2, PTL DEF Behaviour

(* A file the program holds open is open in the server, until the request  *)
(* to close it has been handled: whatever the program calls in whatever    *)
(* order, however small the messages, whatever fails, and whatever other   *)
(* programs do to the file's name.                                         *)
THEOREM HeldIsOpen ==
  ASSUME NEW k, NEW e, NEW d, FileSystem(k, e, d)
  PROVE  Behaviour(k, e, d) => []OpenMeansOpen
<1>1. Ind => OpenMeansOpen
  BY DEF Ind
<1> QED
  BY <1>1, AlwaysInd, PTL

-----------------------------------------------------------------------------
(* Programs that open files and no directories: FilesInd. *)

(* A path leads to an inode in use.                                        *)
LEMMA StatUsed ==
  ASSUME HostTypeOK, StoreInd, NEW path \in Paths
  PROVE  Stat(path) \in Used \cup {Nothing}
<1> DEFINE X == Used \cup {Nothing}
<1>1. Root \in X
  BY DEF StoreInd
<1>2. \A i \in X : \A name \in Names \cup {Dot} : Enter(i, name) \in X
  BY DEF Enter, StoreInd, HostTypeOK, Used
<1> HIDE DEF X
<1>3. Stat(path) \in X
  BY <1>1, <1>2, StatIn
<1> QED
  BY <1>3 DEF X

(* Every fid has the descriptor it had, or none.                           *)
Drops == \A f \in FidIds : Known(f)' =>
           fidtab'[f].fd = Nothing \/ (Known(f) /\ fidtab'[f].fd = fidtab[f].fd)

(* Descriptors and names come from the file system.                        *)
LEMMA DropsStore ==
  ASSUME HostTypeOK, StoreInd, Drops, UNCHANGED kind, UNCHANGED ent \/ \E path : Unlink(path),
         \A i \in Inodes \ Used : data'[i] = data[i]
  PROVE  StoreInd'
<1>1. Used' = Used
  BY DEF Used
<1>2. \A i \in Inodes, n \in Names : ent'[i][n] \in {ent[i][n], Nothing}
  <2>1. CASE UNCHANGED ent
    BY <2>1
  <2>2. ASSUME NEW path, Unlink(path)
        PROVE  \A i \in Inodes, n \in Names : ent'[i][n] \in {ent[i][n], Nothing}
    <3> DEFINE d == Stat(Front(path))
               l == Last(path)
    <3>1. ent' = [ent EXCEPT ![d][l] = Nothing]
      BY <2>2 DEF Unlink
    <3> HIDE DEF d, l
    <3> QED
      BY <3>1 DEF HostTypeOK
  <2> QED
    BY <2>1, <2>2
<1> QED
  BY <1>1, <1>2 DEF StoreInd, Drops, Known

(* A file just made is in use.                                             *)
LEMMA MakeStore ==
  ASSUME HostTypeOK, StoreInd, NEW dir, NEW name, Fresh # {}, Make(dir, name, "file"),
         \A f \in FidIds : Known(f)' =>
           fidtab'[f].fd = NextInode \/ (Known(f) /\ fidtab'[f].fd = fidtab[f].fd)
  PROVE  StoreInd' /\ data[NextInode] = <<>>
<1> DEFINE i == NextInode
           d == Stat(dir)
<1>1. i \in Inodes /\ kind[i] = "free"
  BY DEF NextInode, Fresh
<1>2. kind' = [kind EXCEPT ![i] = "file"] /\ ent' = [ent EXCEPT ![d][name] = i] /\ UNCHANGED data
  BY DEF Make
<1> HIDE DEF i, d
<1>3. Used' = Used \cup {i}
  BY <1>1, <1>2 DEF Used, HostTypeOK
<1>4. \A j \in Inodes, n \in Names : ent'[j][n] \in {ent[j][n], i}
  BY <1>2 DEF HostTypeOK
<1>5. data[i] = <<>>
  BY <1>1 DEF StoreInd, Used
<1>6. \A f \in FidIds : Known(f)' => fidtab'[f].fd \in Used' \cup {Nothing}
  BY <1>3 DEF StoreInd, i
<1> QED
  BY <1>2, <1>3, <1>4, <1>5, <1>6 DEF StoreInd, i

(* A read is refused or delivers the bytes of the file.                    *)
LEMMA FilesRead ==
  ASSUME Ind, FilesOnly, rread
  PROVE  /\ UNCHANGED <<fsVars, fidtab>> /\ srv' = "idle"
         /\ \/ rep' = Rerror
            \/ ReadFile(req.fid) /\ CanRead(req.fid) /\ fidtab[req.fid].fd \in Inodes
<1>1. req.fid \in FidIds
  BY AskedFields, RequestFields DEF rread, Asked, Ind
<1>2. CASE Refuse
  BY <1>2 DEF rread, Refuse, Answer, AnswerIn
<1>3. CASE CanRead(req.fid) /\ ReadFile(req.fid)
  BY <1>3, ReadsAFile DEF rread, ReadFile, Answer, AnswerIn, Ind
<1>4. ~(CanRead(req.fid) /\ ReadDir(req.fid))
  BY <1>1 DEF ReadDir, FilesOnly, CanRead, Readable, link
<1> QED
  BY <1>2, <1>3, <1>4 DEF rread

(* What most steps of the server do to fids and files.                     *)
Plain == /\ Drops
         /\ UNCHANGED <<kind, data>>
         /\ UNCHANGED ent \/ \E path : Unlink(path)

(* All but a file opened, made or written.                                 *)
LEMMA PlainStep ==
  ASSUME Ind, ServerStep, srv # "dir", FilesOnly
  PROVE  \/ Plain
         \/ useropen /\ rep' # Rerror
         \/ usercreate /\ srv' = "created"
         \/ rwrite /\ rep' # Rerror
<1> USE DEF Plain
<1>1. req # Idle /\ cpc \in Waits /\ fidtab \in Table
  BY HandlerOf, AskedFor DEF Ind, ServerInd, ServerTypeOK, Table
<1>2. ASSUME UNCHANGED <<fsVars, fidtab>> PROVE Plain
  BY <1>2 DEF Drops, Known, fsVars
<1>3. ASSUME UNCHANGED fsVars, NEW f \in FidIds, NEW q \in FidRec \cup {NoFid},
             q # NoFid => q.fd = Nothing \/ (Known(f) /\ q.fd = fidtab[f].fd),
             fidtab' = [fidtab EXCEPT ![f] = q]
      PROVE  Plain
  BY <1>1, <1>3 DEF Drops, Known, fsVars, Table
<1>4. CASE rversion \/ rwalk \/ ropen \/ rcreate \/ rcreated
  BY <1>2, <1>4 DEF rversion, rwalk, ropen, rcreate, rcreated, Look, Refuse, link
<1>5. CASE rattach
  <2>1. CASE Refuse
    BY <1>2, <1>5, <2>1 DEF rattach, Refuse
  <2>2. CASE fidtab' = [fidtab EXCEPT ![req.fid] = NewFid(<<>>)]
    <3>1. req.fid \in FidIds
      BY <1>5, AskedFields, RequestFields DEF rattach, Asked, Ind
    <3>2. <<>> \in Paths
      BY DEF Paths
    <3>3. NewFid(<<>>) \in FidRec /\ NewFid(<<>>).fd = Nothing
      BY <3>2, NewFidType DEF NewFid
    <3> QED
      BY <1>3, <1>5, <2>2, <3>1, <3>3 DEF rattach
  <2> QED
    BY <1>5, <2>1, <2>2 DEF rattach
<1>6. CASE userwalk
  <2> DEFINE w == WalkFrom(Path(req.fid), req.wname)
             f == req.newfid
             p == fidtab[req.fid]
             q == IF f = req.fid THEN [p EXCEPT !.path = w.path] ELSE NewFid(w.path)
  <2>1. /\ req.type = "Twalk" /\ req.fid \in FidIds /\ f \in FidIds /\ Known(req.fid) /\ p \in FidRec
        /\ w.path \in Paths /\ UNCHANGED fsVars
    <3>1. req.type = "Twalk" /\ Known(req.fid)
      BY <1>6 DEF userwalk, Ind, ServerInd, RequestInd, At
    <3>2. /\ req.fid \in FidIds /\ f \in FidIds
          /\ req.wname \in Seq(Names \cup {Dot, DotDot})
      BY <3>1, AskedFields, RequestFields DEF Ind
    <3>3. p \in FidRec /\ Path(req.fid) \in Paths
      BY <3>1, <3>2, KnownFid DEF Ind, ServerInd
    <3>4. w \in Walked
      BY <3>2, <3>3, WalkType
    <3> HIDE DEF w
    <3> QED
      BY <1>6, <3>1, <3>2, <3>3, <3>4 DEF userwalk, Walked
  <2>2. UNCHANGED fidtab \/ fidtab' = [fidtab EXCEPT ![f] = q]
    BY <1>6 DEF userwalk
  <2>3. q \in FidRec /\ (q.fd = Nothing \/ (Known(f) /\ q.fd = fidtab[f].fd))
    <3> HIDE DEF w
    <3>1. NewFid(w.path) \in FidRec /\ NewFid(w.path).fd = Nothing
      BY <2>1, NewFidType DEF NewFid
    <3>2. [p EXCEPT !.path = w.path] \in FidRec /\ [p EXCEPT !.path = w.path].fd = p.fd
      <4> HIDE DEF p
      <4> QED
        BY <2>1 DEF FidRec, Paths
    <3> QED
      BY <2>1, <3>1, <3>2
  <2> HIDE DEF q
  <2> QED
    BY <1>2, <1>3, <2>1, <2>2, <2>3
<1>7. CASE useropen
  BY <1>2, <1>7 DEF useropen, Answer, AnswerIn, Rerror
<1>8. CASE usercreate
  BY <1>2, <1>8 DEF usercreate, link
<1>9. CASE created
  <2> DEFINE f == req.fid
             p == fidtab[f]
  <2>1. /\ f \in FidIds /\ Known(f) /\ p \in FidRec /\ p.path \in Paths /\ p.path # <<>>
        /\ req.mode \in Modes /\ req.rclose \in BOOLEAN /\ UNCHANGED fsVars
    BY <1>9, StepFields, RequestFields, KnownFid DEF created, Ind, ServerInd, RequestInd, At, Path, link
  <2>2. CASE fidtab' = [fidtab EXCEPT ![f] = Opened(f, @)]
    <3> DEFINE q == Opened(f, p)
    <3>1. q \in FidRec /\ q.fd = p.fd
      BY <2>1, OpenedFid DEF Opened
    <3>2. fidtab' = [fidtab EXCEPT ![f] = q]
      BY <2>2
    <3> HIDE DEF q
    <3> QED
      BY <1>3, <2>1, <3>1, <3>2
  <2>3. CASE fidtab' = [fidtab EXCEPT ![f] = Undone(@)]
    <3> DEFINE q == Undone(p)
    <3>1. Front(p.path) \in Paths
      BY <2>1, FrontType
    <3>2. fidtab' = [fidtab EXCEPT ![f] = q]
      BY <2>3
    <3>3. q \in FidRec /\ q.fd = Nothing
      <4> HIDE DEF p
      <4> QED
        BY <2>1, <3>1 DEF Undone, FidRec, Paths
    <3> HIDE DEF q
    <3> QED
      BY <1>3, <2>1, <3>2, <3>3
  <2> QED
    BY <1>9, <2>2, <2>3 DEF created, link
<1>10. CASE rread
  BY <1>2, <1>10, FilesRead
<1>11. CASE rwrite
  BY <1>2, <1>11, WriteReplied
<1>12. CASE rclunk
  <2>1. CASE Refuse /\ UNCHANGED fsVars
    BY <1>2, <2>1 DEF Refuse
  <2>2. CASE Free(req.fid) /\ (UNCHANGED fsVars \/ Unlink(Path(req.fid)))
    BY <1>1, <2>2 DEF Free, Drops, Known, fsVars, Unlink, Table
  <2> QED
    BY <1>12, <2>1, <2>2 DEF rclunk
<1>13. req.type \in {"Tversion", "Tattach", "Twalk", "Topen", "Tcreate", "Tread", "Twrite", "Tclunk"}
  BY <1>1, AskedFor DEF Waits
<1> QED
  BY <1>4, <1>5, <1>6, <1>7, <1>8, <1>9, <1>10, <1>11, <1>12, <1>13, HandlerOf DEF Ind, readdir

-----------------------------------------------------------------------------
(* The steps of the program, through the mapping: it takes what has been   *)
(* counted as taken, or begins a call.                                     *)
PromiseVars == <<data, [f \in Files |-> Handle(f)], Delivered, Given>>

(* With no fid and no file changed, all depends on the places.             *)
LEMMA SameView ==
  ASSUME UNCHANGED <<fidtab, data>>, \A f \in Files : Place(f)' = Place(f)
  PROVE  [f \in Files |-> Handle(f)]' = [f \in Files |-> Handle(f)]
<1>1. ASSUME NEW f \in Files PROVE Handle(f)' = Handle(f)
  BY <1>1 DEF Handle, Known
<1> QED
  BY <1>1

(* A reply that says nothing of a place.                                   *)
LEMMA NoNews ==
  ASSUME rep = Idle \/ rep = Rerror \/ cpc \notin {"read", "write", "open"}
  PROVE  /\ (\A f \in Files : Place(f) = off[f]) /\ Delivered = buf
         /\ Given = IF cpc = "write" THEN left ELSE <<>>
BY DEF Place, OnItsWay, Delivered, Given, Rerror, Idle

(* The same of the next state.                                             *)
LEMMA NoNewsNext ==
  ASSUME rep' = Idle \/ rep' = Rerror \/ cpc' \notin {"read", "write", "open"}
  PROVE  /\ (\A f \in Files : Place(f)' = off'[f]) /\ Delivered' = buf'
         /\ Given' = IF cpc' = "write" THEN left' ELSE <<>>
BY DEF Place, OnItsWay, Delivered, Given, Rerror, Idle

(* What is left to show of a step of the program.                          *)
LEMMA ProgramRest ==
  ASSUME FilesInd, UNCHANGED <<fsVars, srvVars>>, rep' = Idle,
         \A f \in Files : off'[f] <= MaxOff,
         cpc' = "write" => off'[call'.f] + Len(left') <= MaxOff, buf' \in Seq(Byte)
  PROVE  StoreInd' /\ PlaceInd' /\ DataInd' /\ UNCHANGED <<fidtab, data>>
<1>1. UNCHANGED <<kind, ent, data, fidtab, srv>>
  BY DEF fsVars, srvVars
<1>2. StoreInd'
  BY <1>1 DEF FilesInd, StoreInd, Used, Known
<1>3. PlaceInd'
  BY <1>1 DEF FilesInd, PlaceInd
<1>4. DataInd'
  BY <1>1 DEF FilesInd, DataInd
<1> QED
  BY <1>1, <1>2, <1>3, <1>4

(* Messages that move no place.                                            *)
LEMMA QuietProgram ==
  ASSUME FilesInd, UNCHANGED <<fsVars, srvVars, off, buf>>, rep' = Idle, cpc' # "write",
         cpc \notin {"read", "write", "open"}
  PROVE  StoreInd' /\ PlaceInd' /\ DataInd' /\ UNCHANGED PromiseVars
<1>1. StoreInd' /\ PlaceInd' /\ DataInd' /\ UNCHANGED <<fidtab, data>>
  BY ProgramRest DEF FilesInd, PlaceInd, DataInd
<1>2. (\A f \in Files : Place(f)' = Place(f)) /\ Delivered' = Delivered /\ Given' = Given
  BY NoNews, NoNewsNext
<1>3. [f \in Files |-> Handle(f)]' = [f \in Files |-> Handle(f)]
  BY <1>1, <1>2, SameView
<1> QED
  BY <1>1, <1>2, <1>3 DEF PromiseVars

(* A call begins with nothing delivered.                                   *)
LEMMA CallBegins ==
  ASSUME FilesInd, UNCHANGED <<fsVars, srvVars, off>>, rep' = Idle, buf' = <<>>, cpc = "ready",
         cpc' = "write" => left' \in Seq(Byte) /\ off'[call'.f] + Len(left') <= MaxOff
  PROVE  StoreInd' /\ PlaceInd' /\ DataInd' /\ Promise!NewCall
<1>1. buf' \in Seq(Byte)
  OBVIOUS
<1>2. StoreInd' /\ PlaceInd' /\ DataInd' /\ UNCHANGED <<fidtab, data>>
  BY <1>1, ProgramRest DEF FilesInd, PlaceInd
<1>3. (\A f \in Files : Place(f)' = Place(f)) /\ Delivered' = <<>> /\ Given' \in Seq(Byte)
  <2>1. (\A f \in Files : Place(f) = off[f]) /\ \A f \in Files : Place(f)' = off'[f]
    BY NoNews, NoNewsNext
  <2>2. Delivered' = <<>> /\ Given' = IF cpc' = "write" THEN left' ELSE <<>>
    BY NoNewsNext
  <2>3. <<>> \in Seq(Byte)
    OBVIOUS
  <2> QED
    BY <2>1, <2>2, <2>3
<1>4. [f \in Files |-> Handle(f)]' = [f \in Files |-> Handle(f)]
  BY <1>2, <1>3, SameView
<1> QED
  BY <1>2, <1>3, <1>4 DEF Promise!NewCall

(* The reply to Topen is taken: the place was 0 since it was sent.         *)
LEMMA OpenTaken ==
  ASSUME FilesInd, GotOpen, UNCHANGED <<fsVars, srvVars>>
  PROVE  StoreInd' /\ PlaceInd' /\ DataInd' /\ UNCHANGED PromiseVars
<1>1. /\ cpc = "open" /\ rep # Idle /\ call.f \in Files /\ off \in [Files -> Nat] /\ MaxOff \in Nat
      /\ rep' = Idle /\ cpc' = "ready" /\ UNCHANGED buf
  BY ClientAssumption, CallFields DEF FilesInd, GotOpen, Answered, Ind, CallInd, ClientTypes, Return, Take, link
<1>2. rep.type = "Ropen" \/ rep.type = "Rerror"
  BY <1>1 DEF FilesInd, DataInd
<1>3. off' = IF rep.type = "Ropen" THEN [off EXCEPT ![call.f] = 0] ELSE off
  BY DEF GotOpen, ResetOffset
<1>4. \A f \in Files : off'[f] <= MaxOff
  BY <1>1, <1>3 DEF FilesInd, PlaceInd
<1>5. StoreInd' /\ PlaceInd' /\ DataInd' /\ UNCHANGED <<fidtab, data>>
  BY <1>1, <1>4, ProgramRest DEF FilesInd, DataInd
<1>6. ASSUME NEW f \in Files PROVE Place(f)' = Place(f)
  <2>1. Place(f)' = off'[f]
    BY <1>1, NoNewsNext
  <2>2. Place(f) = IF rep.type = "Ropen" /\ f = call.f THEN 0 ELSE off[f]
    BY <1>1, <1>2 DEF Place, OnItsWay
  <2> QED
    BY <1>1, <1>3, <2>1, <2>2
<1>7. Delivered' = Delivered /\ Given' = Given
  BY <1>1 DEF Delivered, Given
<1>8. [f \in Files |-> Handle(f)]' = [f \in Files |-> Handle(f)]
  BY <1>5, <1>6, SameView
<1> QED
  BY <1>5, <1>7, <1>8 DEF PromiseVars

(* The bytes read are taken.                                               *)
LEMMA ReadTaken ==
  ASSUME FilesInd, GotRead, UNCHANGED <<fsVars, srvVars>>
  PROVE  StoreInd' /\ PlaceInd' /\ DataInd' /\ UNCHANGED PromiseVars
<1>1. /\ cpc = "read" /\ rep # Idle /\ call.f \in Files /\ off \in [Files -> Nat] /\ MaxOff \in Nat
      /\ rep' = Idle /\ cpc' \in {"read", "ready"} /\ buf \in Seq(Byte)
  BY ClientAssumption DEF FilesInd, GotRead, Answered, Ind, CallInd, ClientTypes, DataInd, Return, Take, Send, link
<1>2. CASE rep.type = "Rerror"
  <2>1. UNCHANGED <<off, buf>>
    BY <1>1, <1>2 DEF GotRead
  <2>2. StoreInd' /\ PlaceInd' /\ DataInd' /\ UNCHANGED <<fidtab, data>>
    BY <1>1, <2>1, ProgramRest DEF FilesInd, PlaceInd
  <2>3. (\A f \in Files : Place(f) = off[f]) /\ Delivered = buf /\ Given = <<>>
    BY <1>1, <1>2 DEF Place, Delivered, Given
  <2>4. (\A f \in Files : Place(f)' = Place(f)) /\ Delivered' = Delivered /\ Given' = Given
    BY <1>1, <2>1, <2>3, NoNewsNext
  <2>5. [f \in Files |-> Handle(f)]' = [f \in Files |-> Handle(f)]
    BY <2>2, <2>4, SameView
  <2> QED
    BY <2>2, <2>4, <2>5 DEF PromiseVars
<1>3. CASE rep.type # "Rerror"
  <2>1. /\ rep.type = "Rread" /\ rep.data \in Seq(Byte) /\ rep.count = Len(rep.data)
        /\ ~(rep.count > Piece(Len(left))) /\ off[call.f] + rep.count <= MaxOff
    <3>1. /\ rep.type = "Rread" /\ rep.data \in Seq(Byte) /\ rep.count = Len(rep.data)
          /\ rep.count <= Piece(Len(left)) /\ off[call.f] + rep.count <= MaxOff
      BY <1>1, <1>3 DEF FilesInd, DataInd
    <3>2. Len(left) \in Nat \ {0}
      <4>1. left \in Seq(Nat) \ {<<>>}
        BY <1>1 DEF FilesInd, Ind, CallInd
      <4> QED
        BY <4>1
    <3>3. Piece(Len(left)) \in Nat
      BY <3>2, PieceType DEF FilesInd, Ind
    <3> QED
      BY <3>1, <3>3
  <2>2. off' = [off EXCEPT ![call.f] = @ + rep.count] /\ buf' = buf \o rep.data
    <3>1. CASE rep.count = 0
      <4>1. rep.data = <<>>
        <5>1. \A s \in Seq(Byte) : Len(s) = 0 => s = <<>>
          OBVIOUS
        <5> QED
          BY <2>1, <3>1, <5>1
      <4>2. UNCHANGED <<off, buf>>
        BY <2>1, <3>1 DEF GotRead, AtEOF
      <4>3. buf \o <<>> = buf
        BY <1>1
      <4>4. [off EXCEPT ![call.f] = @ + 0] = off
        BY <1>1
      <4> QED
        BY <3>1, <4>1, <4>2, <4>3, <4>4
    <3>2. CASE rep.count # 0
      BY <2>1, <3>2 DEF GotRead, AtEOF, Advance
    <3> QED
      BY <3>1, <3>2
  <2>3. (\A f \in Files : off'[f] <= MaxOff) /\ buf' \in Seq(Byte)
    BY <1>1, <2>1, <2>2 DEF FilesInd, PlaceInd
  <2>4. StoreInd' /\ PlaceInd' /\ DataInd' /\ UNCHANGED <<fidtab, data>>
    BY <1>1, <2>3, ProgramRest
  <2>5. ASSUME NEW f \in Files PROVE Place(f)' = Place(f)
    <3>1. Place(f)' = off'[f]
      BY <1>1, NoNewsNext
    <3>2. Place(f) = IF f = call.f THEN off[f] + rep.count ELSE off[f]
      BY <1>1, <2>1 DEF Place, OnItsWay
    <3> QED
      BY <1>1, <2>2, <3>1, <3>2
  <2>6. Delivered' = Delivered /\ Given' = Given
    BY <1>1, <2>1, <2>2, NoNewsNext DEF Delivered, Given
  <2>7. [f \in Files |-> Handle(f)]' = [f \in Files |-> Handle(f)]
    BY <2>4, <2>5, SameView
  <2> QED
    BY <2>4, <2>6, <2>7 DEF PromiseVars
<1> QED
  BY <1>2, <1>3

(* So is the number of bytes written.                                      *)
LEMMA WriteTaken ==
  ASSUME FilesInd, GotWrite, UNCHANGED <<fsVars, srvVars>>
  PROVE  StoreInd' /\ PlaceInd' /\ DataInd' /\ (Promise!GiveUp \/ UNCHANGED PromiseVars)
<1>1. /\ cpc = "write" /\ rep # Idle /\ call.f \in Files /\ off \in [Files -> Nat] /\ MaxOff \in Nat
      /\ rep' = Idle /\ cpc' \in {"write", "ready"} /\ buf \in Seq(Byte) /\ UNCHANGED buf
      /\ left \in Seq(Byte) \ {<<>>} /\ off[call.f] + Len(left) <= MaxOff
  BY ClientAssumption
     DEF FilesInd, GotWrite, Answered, Ind, CallInd, ClientTypes, DataInd, PlaceInd, Return, Take, Send, link
<1>2. CASE rep.type = "Rerror"
  <2>1. UNCHANGED off /\ cpc' = "ready"
    BY <1>1, <1>2 DEF GotWrite, Return
  <2>2. StoreInd' /\ PlaceInd' /\ DataInd' /\ UNCHANGED <<fidtab, data>>
    BY <1>1, <2>1, ProgramRest DEF FilesInd, PlaceInd
  <2>3. (\A f \in Files : Place(f) = off[f]) /\ Delivered = buf /\ Given = left
    BY <1>1, <1>2 DEF Place, Delivered, Given
  <2>4. (\A f \in Files : Place(f)' = Place(f)) /\ Delivered' = Delivered /\ Given' = <<>>
    BY <1>1, <2>1, <2>3, NoNewsNext
  <2>5. [f \in Files |-> Handle(f)]' = [f \in Files |-> Handle(f)]
    BY <2>2, <2>4, SameView
  <2> QED
    BY <1>1, <2>2, <2>3, <2>4, <2>5 DEF Promise!GiveUp
<1>3. CASE rep.type # "Rerror"
  <2>1. rep.type = "Rwrite" /\ rep.count \in 1..Piece(Len(left)) /\ Piece(Len(left)) \in 1..Len(left)
    <3>1. Len(left) \in Nat \ {0}
      BY <1>1
    <3> QED
      BY <1>1, <1>3, <3>1, PieceType DEF FilesInd, Ind, DataInd
  <2>2. /\ rep.count \in Nat \ {0} /\ rep.count <= Len(left) /\ ~(rep.count > Piece(Len(left)))
        /\ Len(left) \in Nat
    BY <1>1, <2>1
  <2>3. /\ off' = [off EXCEPT ![call.f] = @ + rep.count]
        /\ IF rep.count < Len(left)
           THEN left' = Remaining(rep.count) /\ UNCHANGED <<cpc, call>>
           ELSE cpc' = "ready"
    BY <2>1, <2>2 DEF GotWrite, AtEOF, Advance, Return
  <2>4. \A f \in Files : off'[f] <= MaxOff
    BY <1>1, <2>2, <2>3 DEF FilesInd, PlaceInd
  <2>5. cpc' = "write" => off'[call'.f] + Len(left') <= MaxOff
    <3>1. CASE rep.count < Len(left)
      <4>1. Len(left') = Len(left) - rep.count
        BY <1>1, <2>2, <2>3, <3>1, LeftOver DEF Remaining
      <4>2. off'[call'.f] = off[call.f] + rep.count /\ off[call.f] \in Nat
        BY <1>1, <2>3, <3>1
      <4> QED
        BY <1>1, <2>2, <4>1, <4>2
    <3> QED
      BY <2>3, <3>1
  <2>6. StoreInd' /\ PlaceInd' /\ DataInd' /\ UNCHANGED <<fidtab, data>>
    BY <1>1, <2>4, <2>5, ProgramRest
  <2>7. ASSUME NEW f \in Files PROVE Place(f)' = Place(f)
    <3>1. Place(f)' = off'[f]
      BY <1>1, NoNewsNext
    <3>2. Place(f) = IF f = call.f THEN off[f] + rep.count ELSE off[f]
      BY <1>1, <2>1 DEF Place, OnItsWay
    <3> QED
      BY <1>1, <2>3, <3>1, <3>2
  <2>8. Delivered' = Delivered /\ Given' = Given
    <3>1. Given = SubSeq(left, rep.count + 1, Len(left))
      BY <1>1, <2>1 DEF Given
    <3>2. CASE rep.count < Len(left)
      BY <1>1, <2>3, <3>1, <3>2, NoNewsNext DEF Delivered, Remaining
    <3>3. CASE ~(rep.count < Len(left))
      <4>1. SubSeq(left, rep.count + 1, Len(left)) = <<>>
        BY <1>1, <2>2, <3>3
      <4> QED
        BY <1>1, <2>3, <3>1, <3>3, <4>1, NoNewsNext DEF Delivered
    <3> QED
      BY <3>2, <3>3
  <2>9. [f \in Files |-> Handle(f)]' = [f \in Files |-> Handle(f)]
    BY <2>6, <2>7, SameView
  <2> QED
    BY <2>6, <2>8, <2>9 DEF PromiseVars
<1> QED
  BY <1>2, <1>3

(* Every step of the program is a new call of FileSpec, or none.           *)
LEMMA ProgramFiles ==
  ASSUME FilesInd, Program
  PROVE  StoreInd' /\ PlaceInd' /\ DataInd' /\ (Promise!NewCall \/ Promise!GiveUp \/ UNCHANGED PromiseVars)
<1>1. UNCHANGED <<fsVars, srvVars>>
  BY DEF Program
<1>2. CASE fs_init \/ GotVersion \/ GotAttach \/ GotWalk \/ GotCreate \/ GotClunk
  <2>1. UNCHANGED <<off, buf>> /\ rep' = Idle /\ cpc \notin {"read", "write", "open"} /\ cpc' # "write"
    BY <1>2 DEF fs_init, GotVersion, GotAttach, GotWalk, GotCreate, GotClunk, Answered, Send, Take, link,
                WalkOne, Return
  <2> QED
    BY <1>1, <2>1, QuietProgram
<1>3. ASSUME NEW c \in Calls, fs_open(c) \/ fs_create(c) \/ fs_close(c) \/ fs_read(c) \/ fs_write(c)
      PROVE  StoreInd' /\ PlaceInd' /\ DataInd' /\ Promise!NewCall
  <2>1. /\ UNCHANGED off /\ rep' = Idle /\ buf' = <<>> /\ cpc = "ready"
        /\ cpc' = "write" => fs_write(c)
    BY <1>3 DEF fs_open, fs_create, fs_close, fs_read, fs_write, Begin, WalkOne, Send, link
  <2>2. ASSUME fs_write(c) PROVE left' \in Seq(Byte) /\ off'[call'.f] + Len(left') <= MaxOff
    <3>1. c \in CallType /\ c.op = "write"
      BY <2>2, SystemAssumption DEF fs_write
    <3>2. c.data \in Seq(Byte)
      BY <3>1, CallFields
    <3> QED
      BY <2>2, <3>2 DEF fs_write, Begin
  <2> QED
    BY <1>1, <2>1, <2>2, CallBegins
<1> QED
  BY <1>1, <1>2, <1>3, OpenTaken, ReadTaken, WriteTaken DEF Program, ClientStep

-----------------------------------------------------------------------------
(* The steps of the server, through the mapping. *)

(* FileSpec and the server mean the same by a slice and an overlay.        *)
LEMMA SameBytes ==
  /\ \A s, o, n : Promise!Slice(s, o, n) = Slice(s, o, n)
  /\ \A s, o, bytes : Promise!Overlay(s, o, bytes) = Overlay(s, o, bytes)
BY DEF Promise!Slice, Slice, Promise!Overlay, Overlay, Promise!Min, Min, Promise!Max, Max

(* One handle moves.                                                       *)
LEMMA Moved ==
  ASSUME NEW f \in Files, NEW x, \A g \in Files \ {f} : Handle(g)' = Handle(g), Handle(f)' = x
  PROVE  [g \in Files |-> Handle(g)]' = [[g \in Files |-> Handle(g)] EXCEPT ![f] = x]
OBVIOUS

(* It is the handle of the call.                                           *)
LEMMA OthersHold ==
  ASSUME Ind, ServerStep, UNCHANGED clientVars, NEW g \in Files, g # call.f
  PROVE  fidtab'[g] = fidtab[g] /\ Handle(g)' = Handle(g)
<1>1. req # Idle /\ g \in FidIds /\ g # RootDir
  BY HandlerOf, SystemAssumption, ClientAssumption DEF Ind
<1>2. /\ cpc = "version" => req.type = "Tversion"
      /\ cpc # "version" =>
           /\ req.fid \in {RootDir, call.f} /\ (req.type = "Twalk" => req.newfid = call.f)
           /\ req.type \in {"Tattach", "Twalk", "Topen", "Tcreate", "Tread", "Twrite", "Tclunk"}
  BY <1>1, AskedFor DEF Waits
<1>3. fidtab'[g] = fidtab[g]
  <2>1. CASE cpc = "version"
    BY <1>2, <2>1, HandlerOf DEF Ind, rversion
  <2>2. CASE cpc # "version"
    BY <1>1, <1>2, <2>2, OthersStay DEF Ind
  <2> QED
    BY <2>1, <2>2
<1>4. Place(g)' = Place(g)
  BY DEF Place, OnItsWay, clientVars
<1> QED
  BY <1>3, <1>4 DEF Handle, Known

(* The server never reads a directory.                                     *)
LEMMA NotDir ==
  ASSUME Ind, FilesOnly, ServerStep, srv # "dir"
  PROVE  srv' # "dir"
<1>1. CASE rversion \/ rauth \/ rattach \/ userwalk \/ useropen \/ usercreate \/ created \/ rcreated
             \/ rwrite \/ rclunk
  BY <1>1 DEF rversion, rauth, rattach, userwalk, useropen, usercreate, created, rcreated, rwrite, link,
              rclunk, Answer, AnswerIn, Refuse
<1>2. CASE rwalk \/ ropen \/ rcreate \/ rremove \/ rstat \/ rwstat \/ wstat
  BY <1>2 DEF rwalk, ropen, rcreate, rremove, rstat, rwstat, wstat, Look, Answer, AnswerIn, Refuse, link
<1>3. CASE rread
  BY <1>3, FilesRead
<1> QED
  BY <1>1, <1>2, <1>3 DEF ServerStep, readdir

(* What a read of a file delivers.                                         *)
LEMMA ReadDelivers ==
  ASSUME FilesInd, FilesOnly, rread, rep' # Rerror, cpc = "read"
  PROVE  LET f == call.f
             i == fidtab[f].fd
             t == Slice(data[i], off[f], Len(rep'.data))
         IN  /\ rep' = [type |-> "Rread", count |-> Len(t), data |-> t]
             /\ f \in Files /\ i \in Inodes /\ Known(f)
             /\ t \in Seq(Byte) /\ Len(t) <= Piece(Len(left)) /\ off[f] + Len(t) <= MaxOff
<1> DEFINE f == call.f
           i == fidtab[f].fd
           s == data[i]
           o == off[f]
           n == Piece(Len(left))
           t == Slice(s, o, n)
<1>1. /\ f \in Files /\ off \in [Files -> Nat] /\ left \in Seq(Nat) \ {<<>>} /\ cpc \in Waits
      /\ req # Idle /\ MaxOff \in Nat
  BY ClientAssumption DEF FilesInd, Ind, CallInd, ClientTypes, Waits, rread, Asked, Idle
<1>2. req.fid = f /\ req.offset = o /\ req.count = n
  BY <1>1, AskedFor DEF FilesInd
<1>3. ReadFile(req.fid) /\ CanRead(req.fid) /\ i \in Inodes
  BY <1>2, FilesRead DEF FilesInd
<1>4. s \in Seq(Byte) /\ Len(s) <= MaxOff /\ o \in Nat /\ o <= MaxOff /\ Known(f)
  BY <1>1, <1>2, <1>3 DEF FilesInd, Ind, ServerInd, HostTypeOK, PlaceInd, CanRead, Readable
<1>5. n \in Nat
  <2>1. Len(left) \in Nat \ {0}
    BY <1>1
  <2> QED
    BY <2>1, PieceType DEF FilesInd, Ind
<1>6. rep' = [type |-> "Rread", count |-> Len(t), data |-> t]
  BY <1>2, <1>3 DEF ReadFile, Answer, AnswerIn
<1> HIDE DEF s, o, n
<1>7. /\ t \in Seq(Byte) /\ Len(t) \in 0..n /\ (Len(t) > 0 => o + Len(t) <= Len(s))
      /\ Slice(s, o, Len(t)) = t
  BY <1>4, <1>5, SliceType
<1> HIDE DEF t, f, i
<1>8. o + Len(t) <= MaxOff
  <2> DEFINE k == Len(t)
             l == Len(s)
  <2>1. k \in Nat /\ l \in Nat /\ (k > 0 => o + k <= l) /\ l <= MaxOff /\ o \in Nat /\ o <= MaxOff
    BY <1>4, <1>5, <1>7
  <2> HIDE DEF k, l
  <2>2. o + k <= MaxOff
    BY <1>1, <2>1
  <2> QED
    BY <2>2 DEF k
<1>9. Len(t) <= n
  BY <1>5, <1>7
<1>10. rep'.data = t
  BY <1>6
<1> QED
  BY <1>1, <1>3, <1>4, <1>6, <1>7, <1>8, <1>9, <1>10 DEF f, i, s, o, n

(* A file is as long as it was, or reaches to the end of the write.        *)
LEMMA OverlayLen ==
  ASSUME NEW s \in Seq(Byte), NEW o \in Nat, NEW bytes \in Seq(Byte), NEW m \in Nat,
         Len(s) <= m, o + Len(bytes) <= m
  PROVE  Len(Overlay(s, o, bytes)) <= m
<1> DEFINE a == Len(s)
           b == o + Len(bytes)
           n == Max({a, b})
<1>1. a \in Nat /\ b \in Nat /\ a <= m /\ b <= m
  OBVIOUS
<1>2. n \in Nat /\ n <= m
  <2> HIDE DEF a, b
  <2>1. \E x \in {a, b} : \A y \in {a, b} : x >= y
    BY <1>1
  <2>2. Max({a, b}) \in {a, b}
    BY <2>1 DEF Max
  <2> QED
    BY <1>1, <2>2
<1>3. Overlay(s, o, bytes) = [i \in 1..n |-> IF i \in o + 1..b THEN bytes[i - o]
                                            ELSE IF i <= a THEN s[i] ELSE 0]
  BY DEF Overlay
<1> HIDE DEF n
<1>4. Len(Overlay(s, o, bytes)) = n
  BY <1>2, <1>3
<1> QED
  BY <1>2, <1>4

(* What a write puts into a file.                                          *)
LEMMA WritePuts ==
  ASSUME FilesInd, FilesOnly, rwrite, rep' # Rerror, cpc = "write"
  PROVE  LET f == call.f
             i == fidtab[f].fd
         IN  /\ f \in Files /\ i \in Inodes /\ i \in Used /\ Known(f) /\ UNCHANGED fidtab
             /\ \E n \in 1..Piece(Len(left)) :
                  /\ SubSeq(left, 1, n) \in Seq(Byte) /\ Len(SubSeq(left, 1, n)) = n
                  /\ n \in 1..MaxOff /\ n <= Len(left) /\ off[f] + n <= MaxOff
                  /\ rep' = [type |-> "Rwrite", count |-> n]
                  /\ Write(i, Overlay(data[i], off[f], SubSeq(left, 1, n)))
<1> DEFINE f == call.f
           p == fidtab[f]
           i == p.fd
           m == Piece(Len(left))
<1>1. /\ f \in Files /\ f \in FidIds /\ off \in [Files -> Nat] /\ left \in Seq(Byte) \ {<<>>}
      /\ off[f] + Len(left) <= MaxOff /\ req # Idle /\ MaxOff \in Nat /\ srv = "idle"
  BY ClientAssumption, SystemAssumption
     DEF FilesInd, Ind, CallInd, ClientTypes, PlaceInd, rwrite, Asked, Idle
<1>2. req.fid = f /\ req.offset = off[f] /\ req.data = SubSeq(left, 1, m)
  BY <1>1, AskedFor DEF FilesInd
<1>3. m \in 1..Len(left)
  <2>1. Len(left) \in Nat \ {0}
    BY <1>1
  <2> QED
    BY <2>1, PieceType DEF FilesInd, Ind
<1> DEFINE s == SubSeq(left, 1, m)
<1>4. s \in Seq(Byte) /\ Len(s) = m
  <2> HIDE DEF m
  <2> QED
    BY <1>1, <1>3
<1>5. Writable(f) /\ UNCHANGED fidtab
  BY <1>2 DEF rwrite, Refuse, Answer, AnswerIn
<1>6. PICK n \in 1..Len(s) :
        /\ Write(i, Overlay(data[i], off[f], SubSeq(s, 1, n)))
        /\ rep' = [type |-> "Rwrite", count |-> n]
  BY <1>2 DEF rwrite, Refuse, Answer, AnswerIn
<1>7. i \in Inodes /\ i \in Used
  <2>1. p \in FidRec /\ p.omode # Closed
    BY <1>1, <1>5, KnownFid DEF FilesInd, Ind, ServerInd, Writable, Closed
  <2>2. Matches(p) /\ p.dir = Nothing
    BY <1>1, <1>5 DEF FilesInd, Ind, ServerInd, HandleInd, FilesOnly, Writable
  <2>3. p.fd # Nothing
    BY <2>1, <2>2 DEF Matches, Held
  <2> QED
    BY <1>1, <1>5, <2>1, <2>3, FidFields DEF FilesInd, StoreInd, Writable
<1> DEFINE bytes == SubSeq(left, 1, n)
<1>8. bytes \in Seq(Byte) /\ Len(bytes) = n /\ SubSeq(s, 1, n) = bytes
  <2>1. n \in 1..m
    BY <1>4, <1>6
  <2> HIDE DEF m
  <2>2. n \in 1..Len(left)
    BY <1>3, <2>1
  <2> QED
    BY <1>1, <1>3, <2>1, <2>2
<1>9. n \in 1..m /\ n \in 1..MaxOff /\ n <= Len(left) /\ off[f] + n <= MaxOff
  <2> DEFINE o == off[f]
             l == Len(left)
  <2>1. o \in Nat /\ l \in Nat /\ o + l <= MaxOff
    BY <1>1
  <2>2. n \in 1..m /\ m \in 1..l
    BY <1>3, <1>4, <1>6
  <2> HIDE DEF o, l, m
  <2>3. o + n <= MaxOff /\ n \in 1..MaxOff /\ n <= l
    BY <1>1, <2>1, <2>2
  <2> QED
    BY <2>2, <2>3 DEF o, l
<1> HIDE DEF s
<1>10. Write(i, Overlay(data[i], off[f], bytes))
  BY <1>6, <1>8
<1> HIDE DEF m
<1>11. \E k \in 1..m :
         /\ SubSeq(left, 1, k) \in Seq(Byte) /\ Len(SubSeq(left, 1, k)) = k
         /\ k \in 1..MaxOff /\ k <= Len(left) /\ off[f] + k <= MaxOff
         /\ rep' = [type |-> "Rwrite", count |-> k]
         /\ Write(i, Overlay(data[i], off[f], SubSeq(left, 1, k)))
  <2> HIDE DEF f, i
  <2> QED
    BY <1>6, <1>8, <1>9, <1>10
<1> QED
  BY <1>1, <1>5, <1>7, <1>11 DEF m, Writable

(* The replies bring no more than was asked for.                           *)
LEMMA AnswerData ==
  ASSUME FilesInd, FilesOnly, ServerStep, UNCHANGED clientVars
  PROVE  DataInd'
<1>1. /\ req # Idle /\ cpc \in Waits /\ rep = Idle /\ srv # "dir" /\ buf \in Seq(Byte)
      /\ UNCHANGED <<cpc, call, off, left, maxlen, buf>>
  BY HandlerOf, AskedFor DEF FilesInd, Ind, DataInd, clientVars
<1>2. srv' # "dir" /\ buf' \in Seq(Byte)
  BY <1>1, NotDir DEF FilesInd
<1>3. Piece(Len(left))' = Piece(Len(left))
  BY <1>1 DEF Piece
<1>4. CASE cpc \notin {"open", "read", "write"}
  BY <1>1, <1>2, <1>4 DEF DataInd
<1>5. CASE cpc = "open"
  <2>1. ropen \/ useropen
    BY <1>1, <1>5, AskedFor, HandlerOf DEF FilesInd, Ind
  <2>2. rep' = Idle \/ rep'.type \in {"Ropen", "Rerror"}
    BY <1>1, <2>1 DEF ropen, useropen, Look, Refuse, Answer, AnswerIn, Rerror, link
  <2> QED
    BY <1>1, <1>2, <1>5, <2>2 DEF DataInd
<1>6. CASE cpc = "read"
  <2>1. rread
    BY <1>1, <1>6, AskedFor, HandlerOf DEF FilesInd, Ind, readdir
  <2>2. CASE rep' = Rerror
    BY <1>1, <1>2, <1>6, <2>2 DEF DataInd, Rerror
  <2>3. CASE rep' # Rerror
    <3>1. /\ rep'.type = "Rread" /\ rep'.data \in Seq(Byte) /\ rep'.count = Len(rep'.data)
          /\ rep'.count <= Piece(Len(left)) /\ off[call.f] + rep'.count <= MaxOff
      <4> DEFINE t == Slice(data[fidtab[call.f].fd], off[call.f], Len(rep'.data))
      <4>1. /\ rep' = [type |-> "Rread", count |-> Len(t), data |-> t]
            /\ t \in Seq(Byte) /\ Len(t) <= Piece(Len(left)) /\ off[call.f] + Len(t) <= MaxOff
        BY <1>6, <2>1, <2>3, ReadDelivers
      <4> HIDE DEF t
      <4> QED
        BY <4>1
    <3> QED
      BY <1>1, <1>2, <1>3, <1>6, <3>1 DEF DataInd
  <2> QED
    BY <2>2, <2>3
<1>7. CASE cpc = "write"
  <2>1. rwrite
    BY <1>1, <1>7, AskedFor, HandlerOf DEF FilesInd, Ind
  <2>2. CASE rep' = Rerror
    BY <1>1, <1>2, <1>7, <2>2 DEF DataInd, Rerror
  <2>3. CASE rep' # Rerror
    <3>1. \E n \in 1..Piece(Len(left)) : rep' = [type |-> "Rwrite", count |-> n]
      BY <1>7, <2>1, <2>3, WritePuts
    <3>2. rep'.type = "Rwrite" /\ rep'.count \in 1..Piece(Len(left))
      BY <3>1
    <3> QED
      BY <1>1, <1>2, <1>3, <1>7, <3>2 DEF DataInd
  <2> QED
    BY <2>2, <2>3
<1> QED
  BY <1>4, <1>5, <1>6, <1>7

(* The file opened has a place of its own, at the beginning.               *)
LEMMA OpenStep ==
  ASSUME FilesInd, FilesOnly', ServerStep, UNCHANGED clientVars, useropen, rep' # Rerror
  PROVE  StoreInd' /\ PlaceInd' /\ Promise!Next
<1> DEFINE H == [g \in Files |-> Handle(g)]
<1>1. req.type = "Topen" /\ req # Idle /\ cpc \in Waits /\ rep = Idle /\ Known(req.fid)
  BY HandlerOf, AskedFor DEF useropen, FilesInd, Ind, ServerInd, RequestInd, At
<1>2. cpc = "open"
  BY <1>1, AskedFor DEF FilesInd, Waits
<1>3. PICK f \in Files : f = call.f
  BY <1>2, CallFields DEF FilesInd, Ind, CallInd
<1>4. req.fid = f /\ f \in FidIds /\ req.trunc \in BOOLEAN /\ MaxOff \in Nat
  BY <1>1, <1>2, <1>3, AskedFor, CallFields, SystemAssumption, ClientAssumption
     DEF FilesInd, Ind, CallInd, AskedInd, OpenMessage
<1>5. PICK i \in Inodes : i = Stat(Path(f))
  BY <1>4, OpenedHow DEF FilesInd, Ind
<1>6. /\ fidtab[f].fd = Nothing /\ \A g \in FidIds \ {f} : fidtab'[g] = fidtab[g]
      /\ fidtab'[f] \in FidRec
      /\ \/ OpenDir(f) /\ fidtab'[f].dir = i
         \/ OpenFile(f) /\ fidtab'[f].fd = i
  BY <1>4, <1>5, OpenedHow DEF FilesInd, Ind
<1>7. Known(f)'
  BY <1>6, ServerAssumption DEF Known
<1>8. i \in Used
  <2>1. Path(f) \in Paths
    BY <1>1, <1>4, KnownFid DEF FilesInd, Ind, ServerInd
  <2>2. i \in Used \cup {Nothing}
    BY <1>5, <2>1, StatUsed DEF FilesInd, Ind, ServerInd
  <2> QED
    BY <2>2, HostAssumption
<1>9. fidtab'[f].fd = i /\ OpenFile(f)
  <2>1. fidtab'[f].dir = Nothing
    BY <1>4, <1>7 DEF FilesOnly
  <2> QED
    BY <1>6, <2>1, HostAssumption
<1>10. /\ data' = IF req.trunc THEN [data EXCEPT ![i] = <<>>] ELSE data
       /\ UNCHANGED <<kind, ent>>
  BY <1>5, <1>9 DEF OpenFile, Write, fsVars
<1>11. rep' = [type |-> "Ropen"]
  BY DEF useropen, Answer, AnswerIn
<1>12. StoreInd'
  <2>1. Used' = Used
    BY <1>10 DEF Used
  <2>2. \A j \in Inodes \ Used : data'[j] = data[j]
    BY <1>8, <1>10 DEF FilesInd, Ind, ServerInd, HostTypeOK
  <2> QED
    BY <1>4, <1>6, <1>8, <1>9, <1>10, <2>1, <2>2 DEF FilesInd, StoreInd, Known
<1>13. PlaceInd'
  <2>1. \A j \in Inodes : Len(data'[j]) <= MaxOff
    <3>1. \A j \in Inodes : data'[j] = data[j] \/ data'[j] = <<>>
      BY <1>10 DEF FilesInd, Ind, ServerInd, HostTypeOK
    <3>2. Len(<<>>) <= MaxOff
      BY <1>4
    <3> QED
      BY <3>1, <3>2 DEF FilesInd, PlaceInd
  <2> QED
    BY <1>2, <2>1 DEF FilesInd, PlaceInd, clientVars
<1>14. \A g \in Files \ {f} : Handle(g)' = Handle(g)
  BY <1>3, OthersHold DEF FilesInd
<1>15. H[f] = Nothing /\ Handle(f)' = [file |-> i, off |-> 0]
  <2>1. Place(f)' = 0
    BY <1>2, <1>3, <1>11 DEF Place, OnItsWay, clientVars, Idle
  <2> QED
    BY <1>6, <1>7, <1>9, <2>1, HostAssumption DEF Handle
<1>16. H' = [H EXCEPT ![f] = [file |-> i, off |-> 0]]
  BY <1>14, <1>15, Moved
<1>17. Delivered' = Delivered /\ Given' = Given
  BY <1>2 DEF Delivered, Given, clientVars
<1> HIDE DEF H
<1>18. Promise!Open(f, i, req.trunc)
  BY <1>10, <1>15, <1>16, <1>17 DEF Promise!Open, Promise!At, H
<1> QED
  BY <1>4, <1>12, <1>13, <1>18 DEF Promise!Next

(* What usercreate makes.                                                  *)
LEMMA MadeHow ==
  ASSUME ServerInd, usercreate, srv' = "created", ~req.isdir
  PROVE  /\ req.fid \in FidIds /\ fidtab[req.fid].fd = Nothing
         /\ Fresh # {} /\ Make(Path(req.fid), req.name, "file") /\ NextInode \in Inodes
         /\ fidtab'[req.fid] # NoFid /\ fidtab'[req.fid].fd = NextInode
         /\ \A g \in FidIds \ {req.fid} : fidtab'[g] = fidtab[g]
         /\ UNCHANGED rep
<1> DEFINE f == req.fid
           p == fidtab[f]
           fd == NextInode
           path == Append(Path(f), req.name)
           q == [p EXCEPT !.path = path, !.dir = Nothing, !.fd = fd]
<1>1. /\ f \in FidIds /\ Known(f) /\ p \in FidRec /\ Matches(p) /\ p.omode = Closed
      /\ Path(f) \in Paths /\ p.path = Path(f) /\ req.name \in Names
  BY StepFields, RequestFields, KnownFid DEF usercreate, ServerInd, RequestInd, HandleInd, At, Path, link
<1>2. /\ CanMake(Path(f), req.name) /\ Make(Path(f), req.name, "file")
      /\ fidtab' = [fidtab EXCEPT ![f] = Made(@)] /\ UNCHANGED rep
  BY DEF usercreate, Answer, AnswerIn, link
<1>3. Fresh # {} /\ NextInode \in Inodes
  BY <1>2, MakeType DEF CanMake, ServerInd
<1>4. path \in Paths
  BY <1>1, FrontOfAppend
<1>5. fidtab' = [fidtab EXCEPT ![f] = q]
  <2>1. q = Made(p)
    BY <1>1 DEF Made
  <2> HIDE DEF q
  <2> QED
    BY <1>2, <2>1
<1> HIDE DEF path, fd, p
<1>6. q \in FidRec /\ q.fd = fd
  BY <1>1, <1>3, <1>4 DEF FidRec, Paths, fd
<1> HIDE DEF q, f
<1>7. fidtab'[f] = q /\ \A g \in FidIds \ {f} : fidtab'[g] = fidtab[g]
  BY <1>1, <1>5, <1>6, UpdatedTable DEF ServerInd
<1> QED
  BY <1>1, <1>2, <1>3, <1>6, <1>7, ServerAssumption DEF Matches, Held, f, p, fd

(* The file made is empty, and has the place the handle had.               *)
LEMMA CreateStep ==
  ASSUME FilesInd, ServerStep, UNCHANGED clientVars, usercreate, srv' = "created"
  PROVE  StoreInd' /\ PlaceInd' /\ Promise!Next
<1> DEFINE H == [g \in Files |-> Handle(g)]
<1>1. req.type = "Tcreate" /\ req # Idle /\ cpc \in Waits /\ rep = Idle
  BY HandlerOf, AskedFor DEF usercreate, FilesInd, Ind, ServerInd, RequestInd, At, link
<1>2. cpc = "create"
  BY <1>1, AskedFor DEF FilesInd, Waits
<1>3. PICK f \in Files : f = call.f
  BY <1>2, CallFields DEF FilesInd, Ind, CallInd
<1>4. req.fid = f /\ ~req.isdir /\ f \in FidIds
  BY <1>1, <1>2, <1>3, AskedFor, SystemAssumption DEF FilesInd
<1>5. PICK i \in Inodes : i = NextInode
  BY <1>4, MadeHow DEF FilesInd, Ind
<1>6. PICK o \in 0..MaxOff : o = off[f]
  BY <1>3, ClientAssumption DEF FilesInd, PlaceInd, Ind, ClientTypes
<1>7. /\ fidtab[f].fd = Nothing /\ Fresh # {} /\ Make(Path(f), req.name, "file")
      /\ fidtab'[f] # NoFid /\ fidtab'[f].fd = i
      /\ \A g \in FidIds \ {f} : fidtab'[g] = fidtab[g]
      /\ UNCHANGED rep
  BY <1>4, <1>5, MadeHow DEF FilesInd, Ind
<1>8. UNCHANGED data
  BY <1>7 DEF Make
<1>9. StoreInd' /\ data[i] = <<>>
  <2>1. \A g \in FidIds : Known(g)' =>
          fidtab'[g].fd = NextInode \/ (Known(g) /\ fidtab'[g].fd = fidtab[g].fd)
    BY <1>4, <1>5, <1>7 DEF Known
  <2> QED
    BY <1>5, <1>7, <2>1, MakeStore DEF FilesInd, Ind, ServerInd
<1>10. PlaceInd'
  BY <1>2, <1>8 DEF FilesInd, PlaceInd, clientVars
<1>11. \A g \in Files \ {f} : Handle(g)' = Handle(g)
  BY <1>3, OthersHold DEF FilesInd
<1>12. H[f] = Nothing /\ Handle(f)' = [file |-> i, off |-> o]
  <2>1. Place(f)' = off'[f] /\ off' = off
    BY <1>1, <1>7, NoNewsNext DEF clientVars
  <2> QED
    BY <1>6, <1>7, <2>1, HostAssumption DEF Handle, Known
<1>13. H' = [H EXCEPT ![f] = [file |-> i, off |-> o]]
  BY <1>11, <1>12, Moved
<1>14. Delivered' = Delivered /\ Given' = Given
  BY <1>2 DEF Delivered, Given, clientVars
<1> HIDE DEF H
<1>15. Promise!Create(f, i, o)
  BY <1>8, <1>9, <1>12, <1>13, <1>14 DEF Promise!Create, Promise!At, H
<1> QED
  BY <1>9, <1>10, <1>15 DEF Promise!Next

(* A read moves the place by what it delivers.                             *)
LEMMA ReadStep ==
  ASSUME FilesInd, FilesOnly, ServerStep, UNCHANGED clientVars, rread, rep' # Rerror
  PROVE  Promise!Next \/ UNCHANGED PromiseVars
<1> DEFINE H == [g \in Files |-> Handle(g)]
<1>1. req.type = "Tread" /\ req # Idle /\ cpc \in Waits /\ rep = Idle
  BY HandlerOf, AskedFor DEF rread, Asked, FilesInd, Ind
<1>2. cpc = "read"
  BY <1>1, AskedFor DEF FilesInd, Waits
<1>3. PICK f \in Files : f = call.f
  BY <1>2, ReadDelivers
<1>4. PICK i \in Inodes : i = fidtab[f].fd
  BY <1>2, <1>3, ReadDelivers
<1>5. PICK t \in Seq(Byte) : /\ t = Slice(data[i], off[f], Len(rep'.data))
                             /\ rep' = [type |-> "Rread", count |-> Len(t), data |-> t]
                             /\ off[f] + Len(t) <= MaxOff
  BY <1>2, <1>3, <1>4, ReadDelivers
<1>6. Slice(data[i], off[f], Len(t)) = t
  BY <1>5
<1>7. UNCHANGED <<fidtab, data>> /\ Known(f)
  BY <1>2, <1>3, FilesRead, ReadDelivers DEF FilesInd, fsVars
<1>8. PICK o \in Nat : o = off[f]
  BY <1>3 DEF FilesInd, Ind, ClientTypes
<1>9. MaxOff \in Nat /\ buf \in Seq(Byte) /\ i # Nothing
  BY <1>4, ClientAssumption, HostAssumption DEF FilesInd, DataInd
<1>10. \A g \in Files \ {f} : Handle(g)' = Handle(g)
  BY <1>3, OthersHold DEF FilesInd
<1>11. Handle(f) = [file |-> i, off |-> o]
  <2>1. Place(f) = off[f]
    BY <1>1, NoNews
  <2> QED
    BY <1>4, <1>7, <1>8, <1>9, <2>1 DEF Handle
<1>12. Handle(f)' = [file |-> i, off |-> o + Len(t)]
  <2>1. Place(f)' = o + Len(t)
    <3>1. rep'.type = "Rread" /\ rep'.count = Len(t) /\ rep' # Idle
      BY <1>5 DEF Idle
    <3>2. OnItsWay(f)' /\ off'[f] = o
      BY <1>2, <1>3, <1>8, <3>1 DEF OnItsWay, clientVars
    <3> QED
      BY <3>1, <3>2 DEF Place
  <2> QED
    BY <1>4, <1>7, <1>9, <2>1 DEF Handle, Known
<1>13. H' = [H EXCEPT ![f] = [file |-> i, off |-> o + Len(t)]] /\ H[f] = [file |-> i, off |-> o]
  BY <1>10, <1>11, <1>12, Moved
<1>14. Delivered = buf /\ Delivered' = buf \o t /\ Given' = Given
  <2>1. Delivered = buf
    BY <1>1, NoNews
  <2>2. Delivered' = buf \o t
    BY <1>2, <1>5 DEF Delivered, clientVars, Idle
  <2>3. Given = <<>> /\ Given' = <<>>
    BY <1>2 DEF Given, clientVars
  <2> QED
    BY <2>1, <2>2, <2>3
<1>15. CASE Len(t) = 0
  <2>1. t = <<>>
    <3>1. \A s \in Seq(Byte) : Len(s) = 0 => s = <<>>
      OBVIOUS
    <3> QED
      BY <1>15, <3>1
  <2>2. buf \o t = buf
    BY <1>9, <2>1
  <2>3. o + Len(t) = o
    BY <1>15
  <2>4. H' = H
    BY <1>13, <2>3
  <2> QED
    BY <1>7, <1>14, <2>2, <2>4 DEF PromiseVars
<1>16. CASE Len(t) # 0
  <2>1. Len(t) \in 1..MaxOff
    <3> DEFINE k == Len(t)
    <3>1. k \in Nat /\ k # 0 /\ o + k <= MaxOff
      BY <1>5, <1>8, <1>16
    <3> HIDE DEF k
    <3>2. k \in 1..MaxOff
      BY <1>9, <3>1
    <3> QED
      BY <3>2 DEF k
  <2>2. H[f] # Nothing
    BY <1>13, SystemAssumption
  <2> HIDE DEF H
  <2> DEFINE bytes == Slice(data[H[f].file], H[f].off, Len(t))
  <2>3. bytes = t
    BY <1>6, <1>8, <1>13
  <2>4. /\ Len(bytes) = Len(t) /\ Delivered' = Delivered \o bytes
        /\ H' = [H EXCEPT ![f] = [file |-> H[f].file, off |-> H[f].off + Len(t)]]
    <3> HIDE DEF bytes
    <3> QED
      BY <1>13, <1>14, <2>3
  <2>5. Promise!Get(f, Len(t))
    BY <1>7, <1>14, <2>2, <2>4, SameBytes DEF Promise!Get, Promise!At, H
  <2> QED
    BY <2>1, <2>5 DEF Promise!Next
<1> QED
  BY <1>15, <1>16

(* A write puts its bytes at the place, and moves on.                      *)
LEMMA WriteStep ==
  ASSUME FilesInd, FilesOnly, ServerStep, UNCHANGED clientVars, rwrite, rep' # Rerror
  PROVE  StoreInd' /\ PlaceInd' /\ Promise!Next
<1> DEFINE H == [g \in Files |-> Handle(g)]
<1>1. req.type = "Twrite" /\ req # Idle /\ cpc \in Waits /\ rep = Idle
  BY HandlerOf, AskedFor DEF rwrite, Asked, FilesInd, Ind
<1>2. cpc = "write"
  BY <1>1, AskedFor DEF FilesInd, Waits
<1>3. PICK f \in Files : f = call.f
  BY <1>2, WritePuts
<1>4. PICK i \in Inodes : i = fidtab[f].fd
  BY <1>2, <1>3, WritePuts
<1>5. i \in Used /\ Known(f) /\ UNCHANGED fidtab
  BY <1>2, <1>3, <1>4, WritePuts
<1>6. PICK n \in 1..Piece(Len(left)) :
         /\ SubSeq(left, 1, n) \in Seq(Byte) /\ Len(SubSeq(left, 1, n)) = n
         /\ n \in 1..MaxOff /\ n <= Len(left) /\ off[f] + n <= MaxOff
         /\ rep' = [type |-> "Rwrite", count |-> n]
         /\ Write(i, Overlay(data[i], off[f], SubSeq(left, 1, n)))
  BY <1>2, <1>3, <1>4, WritePuts
<1>7. PICK bytes \in Seq(Byte) :
         /\ bytes = SubSeq(left, 1, n) /\ Len(bytes) = n
         /\ n \in 1..MaxOff /\ n <= Len(left) /\ off[f] + n <= MaxOff
         /\ rep' = [type |-> "Rwrite", count |-> n]
         /\ Write(i, Overlay(data[i], off[f], bytes))
  BY <1>6
<1>8. PICK o \in Nat : o = off[f]
  BY <1>3 DEF FilesInd, Ind, ClientTypes
<1>9. MaxOff \in Nat /\ i # Nothing /\ data[i] \in Seq(Byte) /\ Len(data[i]) <= MaxOff
  BY <1>4, ClientAssumption, HostAssumption DEF FilesInd, Ind, ServerInd, HostTypeOK, PlaceInd
<1> DEFINE new == Overlay(data[i], o, bytes)
<1>10. data' = [data EXCEPT ![i] = new] /\ UNCHANGED <<kind, ent>>
  BY <1>7, <1>8 DEF Write
<1>11. Len(new) <= MaxOff
  BY <1>7, <1>8, <1>9, OverlayLen
<1> HIDE DEF new
<1>12. StoreInd'
  <2>1. UNCHANGED kind /\ UNCHANGED ent /\ Drops
    BY <1>5, <1>10 DEF Drops, Known
  <2>2. \A j \in Inodes \ Used : data'[j] = data[j]
    BY <1>5, <1>10 DEF FilesInd, Ind, ServerInd, HostTypeOK
  <2> QED
    BY <2>1, <2>2, DropsStore DEF FilesInd, Ind, ServerInd
<1>13. PlaceInd'
  <2>1. \A j \in Inodes : Len(data'[j]) <= MaxOff
    BY <1>10, <1>11 DEF FilesInd, PlaceInd, Ind, ServerInd, HostTypeOK
  <2> QED
    BY <2>1 DEF FilesInd, PlaceInd, clientVars
<1>14. \A g \in Files \ {f} : Handle(g)' = Handle(g)
  BY <1>3, OthersHold DEF FilesInd
<1>15. Handle(f) = [file |-> i, off |-> o]
  <2>1. Place(f) = off[f]
    BY <1>1, NoNews
  <2> QED
    BY <1>4, <1>5, <1>8, <1>9, <2>1 DEF Handle
<1>16. Handle(f)' = [file |-> i, off |-> o + n]
  <2>1. Place(f)' = o + n
    <3>1. rep'.type = "Rwrite" /\ rep'.count = n /\ rep' # Idle
      BY <1>7 DEF Idle
    <3>2. OnItsWay(f)' /\ off'[f] = o
      BY <1>2, <1>3, <1>8, <3>1 DEF OnItsWay, clientVars
    <3> QED
      BY <3>1, <3>2 DEF Place
  <2> QED
    BY <1>4, <1>5, <1>9, <2>1 DEF Handle, Known
<1>17. H' = [H EXCEPT ![f] = [file |-> i, off |-> o + n]] /\ H[f] = [file |-> i, off |-> o]
  BY <1>14, <1>15, <1>16, Moved
<1>18. Delivered' = Delivered /\ Given = left /\ Given' = SubSeq(left, n + 1, Len(left))
  <2>1. rep'.type = "Rwrite" /\ rep'.count = n /\ rep' # Idle
    BY <1>7 DEF Idle
  <2> QED
    BY <1>1, <1>2, <2>1 DEF Delivered, Given, clientVars
<1>19. H[f] # Nothing
  BY <1>17, SystemAssumption
<1> HIDE DEF H
<1>20. /\ data' = [data EXCEPT ![H[f].file] = Overlay(@, H[f].off, bytes)]
       /\ H' = [H EXCEPT ![f] = [file |-> H[f].file, off |-> H[f].off + n]]
  BY <1>7, <1>10, <1>17 DEF new
<1>21. Promise!Put(f, n)
  BY <1>7, <1>18, <1>19, <1>20, SameBytes DEF Promise!Put, Promise!At, H
<1> QED
  BY <1>7, <1>12, <1>13, <1>21 DEF Promise!Next

(* The other steps move no place, and at most close the handle.            *)
LEMMA PlainRefines ==
  ASSUME FilesInd, ServerStep, UNCHANGED clientVars, Plain,
         rep' = Idle \/ rep' = Rerror \/ cpc \notin {"read", "write", "open"}
  PROVE  StoreInd' /\ PlaceInd' /\ (Promise!Next \/ UNCHANGED PromiseVars)
<1> DEFINE H == [g \in Files |-> Handle(g)]
<1>1. rep = Idle /\ UNCHANGED <<cpc, call, off, left, buf, data>>
  BY HandlerOf, AskedFor DEF FilesInd, Ind, clientVars, Plain
<1>2. StoreInd'
  BY DropsStore DEF FilesInd, Ind, ServerInd, Plain
<1>3. PlaceInd'
  BY <1>1 DEF FilesInd, PlaceInd
<1>4. (\A g \in Files : Place(g)' = Place(g)) /\ Delivered' = Delivered /\ Given' = Given
  BY <1>1, NoNews, NoNewsNext
<1>5. \A g \in Files : Handle(g)' = Nothing \/ Handle(g)' = Handle(g)
  BY <1>4, SystemAssumption DEF Plain, Drops, Handle, Known
<1>6. CASE \A g \in Files : Handle(g)' = Handle(g)
  <2>1. H' = H
    BY <1>6
  <2> QED
    BY <1>1, <1>2, <1>3, <1>4, <2>1 DEF PromiseVars
<1>7. CASE ~ \A g \in Files : Handle(g)' = Handle(g)
  <2>1. PICK f \in Files : Handle(f)' # Handle(f)
    BY <1>7
  <2>2. f = call.f
    BY <2>1, OthersHold DEF FilesInd
  <2>3. \A g \in Files \ {f} : Handle(g)' = Handle(g)
    BY <2>2, OthersHold DEF FilesInd
  <2>4. Handle(f)' = Nothing /\ Handle(f) # Nothing
    BY <1>5, <2>1
  <2>5. H' = [H EXCEPT ![f] = Nothing] /\ H[f] # Nothing
    BY <2>3, <2>4, Moved
  <2>6. Promise!Close(f)
    BY <1>1, <1>4, <2>5 DEF Promise!Close
  <2> QED
    BY <1>2, <1>3, <2>6 DEF Promise!Next
<1> QED
  BY <1>6, <1>7

(* Every step of the server is one of FileSpec, or none.                   *)
LEMMA ServerFiles ==
  ASSUME FilesInd, FilesOnly, FilesOnly', Server
  PROVE  StoreInd' /\ PlaceInd' /\ DataInd' /\ (Promise!Next \/ UNCHANGED PromiseVars)
<1>1. ServerStep /\ UNCHANGED clientVars /\ srv # "dir"
  BY DEF Server, FilesInd, DataInd
<1>2. DataInd'
  BY <1>1, AnswerData
<1>3. CASE useropen /\ rep' # Rerror
  BY <1>1, <1>2, <1>3, OpenStep
<1>4. CASE usercreate /\ srv' = "created"
  BY <1>1, <1>2, <1>4, CreateStep
<1>5. CASE rwrite /\ rep' # Rerror
  BY <1>1, <1>2, <1>5, WriteStep
<1>6. CASE rread /\ rep' # Rerror
  <2>1. UNCHANGED <<fsVars, fidtab>>
    BY <1>6, FilesRead DEF FilesInd
  <2>2. StoreInd'
    BY <2>1 DEF FilesInd, StoreInd, Used, Known, fsVars
  <2>3. PlaceInd'
    BY <1>1, <2>1 DEF FilesInd, PlaceInd, fsVars, clientVars
  <2> QED
    BY <1>1, <1>2, <1>6, <2>2, <2>3, ReadStep
<1>7. CASE /\ ~(useropen /\ rep' # Rerror) /\ ~(usercreate /\ srv' = "created")
           /\ ~(rwrite /\ rep' # Rerror) /\ ~(rread /\ rep' # Rerror)
  <2>1. Plain
    BY <1>1, <1>7, PlainStep DEF FilesInd
  <2>2. req # Idle /\ rep = Idle
    BY <1>1, HandlerOf, AskedFor DEF FilesInd, Ind
  <2>3. ASSUME cpc = "open" PROVE rep' = Idle \/ rep' = Rerror
    <3>1. ropen \/ useropen
      BY <1>1, <2>2, <2>3, AskedFor, HandlerOf DEF FilesInd, Ind
    <3> QED
      BY <1>7, <2>2, <3>1 DEF ropen, Look, Refuse, Answer, AnswerIn, link
  <2>4. ASSUME cpc = "read" PROVE rep' = Rerror
    <3>1. rread
      BY <1>1, <2>2, <2>4, AskedFor, HandlerOf DEF FilesInd, Ind, readdir
    <3> QED
      BY <1>7, <3>1
  <2>5. ASSUME cpc = "write" PROVE rep' = Rerror
    <3>1. rwrite
      BY <1>1, <2>2, <2>5, AskedFor, HandlerOf DEF FilesInd, Ind
    <3> QED
      BY <1>7, <3>1
  <2> QED
    BY <1>1, <1>2, <2>1, <2>3, <2>4, <2>5, PlainRefines
<1> QED
  BY <1>3, <1>4, <1>5, <1>6, <1>7

(* What other programs do to names is none either.                         *)
LEMMA OutsideFiles ==
  ASSUME FilesInd, Outside
  PROVE  StoreInd' /\ PlaceInd' /\ DataInd' /\ UNCHANGED PromiseVars
<1>1. UNCHANGED <<fidtab, srv, req, rep, cpc, call, maxlen, off, left, buf>>
  BY DEF Outside, srvVars, clientVars, link
<1>2. PICK path : \/ CanUnlink(path) /\ Unlink(path)
                  \/ CanMake(Front(path), Last(path)) /\ Make(Front(path), Last(path), "file")
  BY DEF Outside, link
<1>3. UNCHANGED data
  BY <1>2 DEF Unlink, Make
<1>4. StoreInd'
  <2>1. Drops
    BY <1>1 DEF Drops, Known
  <2>2. CASE Unlink(path)
    BY <1>3, <2>1, <2>2, DropsStore DEF FilesInd, Ind, ServerInd, Unlink
  <2>3. CASE CanMake(Front(path), Last(path)) /\ Make(Front(path), Last(path), "file")
    BY <2>1, <2>3, <1>1, MakeStore DEF FilesInd, Ind, ServerInd, CanMake, Known
  <2> QED
    BY <1>2, <2>2, <2>3
<1>5. PlaceInd' /\ DataInd'
  BY <1>1, <1>3 DEF FilesInd, PlaceInd, DataInd, Piece
<1>6. (\A g \in Files : Place(g)' = Place(g)) /\ Delivered' = Delivered /\ Given' = Given
  BY <1>1 DEF Place, OnItsWay, Delivered, Given
<1>7. [g \in Files |-> Handle(g)]' = [g \in Files |-> Handle(g)]
  BY <1>1, <1>3, <1>6, SameView
<1> QED
  BY <1>3, <1>4, <1>5, <1>6, <1>7 DEF PromiseVars

(* FilesInd holds as long as no directory is opened, and every step is one *)
(* of FileSpec or none.                                                    *)
LEMMA FilesStep ==
  ASSUME FilesInd, FilesOnly, FilesOnly', [Next]_vars
  PROVE  FilesInd' /\ [Promise!Next]_PromiseVars
<1>1. Ind'
  BY NextInd DEF FilesInd
<1>2. CASE Program
  <2>1. Promise!NewCall \/ Promise!GiveUp => Promise!Next
    BY DEF Promise!Next
  <2> QED
    BY <1>1, <1>2, <2>1, ProgramFiles DEF FilesInd
<1>3. CASE Server
  BY <1>1, <1>3, ServerFiles DEF FilesInd
<1>4. CASE Outside
  BY <1>1, <1>4, OutsideFiles DEF FilesInd
<1>5. CASE UNCHANGED vars
  <2>1. UNCHANGED <<kind, ent, data, fidtab, srv, req, rep, cpc, call, maxlen, off, left, buf>>
    BY <1>5 DEF vars, fsVars, srvVars, clientVars, link
  <2>2. StoreInd' /\ PlaceInd' /\ DataInd'
    BY <2>1 DEF FilesInd, StoreInd, PlaceInd, DataInd, Used, Known, Piece
  <2>3. \A g \in Files : Place(g)' = Place(g)
    BY <2>1 DEF Place, OnItsWay
  <2>4. [g \in Files |-> Handle(g)]' = [g \in Files |-> Handle(g)]
    BY <2>1, <2>3, SameView
  <2>5. Delivered' = Delivered /\ Given' = Given
    BY <2>1 DEF Delivered, Given
  <2> QED
    BY <1>1, <2>1, <2>2, <2>4, <2>5 DEF FilesInd, PromiseVars
<1> QED
  BY <1>2, <1>3, <1>4, <1>5 DEF Next

(* The inodes names lead to are in use and the others empty, as a file     *)
(* system has it; and the bound on offsets is beyond every file's end.     *)
Tidy(k, e, d) ==
  /\ k[Root] # "free"
  /\ \A i \in Inodes, n \in Names : e[i][n] # Nothing => k[e[i][n]] # "free"
  /\ \A i \in Inodes : (k[i] = "free" => d[i] = <<>>) /\ Len(d[i]) <= MaxOff

(* Both hold at the start.                                                 *)
LEMMA InitFiles ==
  ASSUME NEW k, NEW e, NEW d, FileSystem(k, e, d), Tidy(k, e, d), Init(k, e, d)
  PROVE  FilesInd /\ Promise!Init
<1>1. Ind
  BY InitInd
<1>2. /\ kind = k /\ ent = e /\ data = d /\ fidtab = [f \in FidIds |-> NoFid] /\ srv = "idle"
      /\ rep = Idle /\ cpc = "start" /\ off = [f \in Files |-> 0] /\ buf = <<>>
  BY DEF Init, ServerInit, ClientInit, LinkInit
<1>3. StoreInd
  BY <1>2, HostAssumption DEF StoreInd, Used, Known, Tidy, FileSystem
<1>4. PlaceInd
  BY <1>2, ClientAssumption DEF PlaceInd, Tidy
<1>5. DataInd
  <2>1. buf \in Seq(Byte)
    BY <1>2
  <2> QED
    BY <1>2, <2>1 DEF DataInd
<1>6. Promise!Init
  <2>1. \A f \in Files : Handle(f) = Nothing
    BY <1>2, SystemAssumption DEF Handle, Known
  <2>2. Delivered = <<>> /\ Given = <<>>
    BY <1>2 DEF Delivered, Given
  <2> QED
    BY <1>2, <2>1, <2>2 DEF Promise!Init, FileSystem
<1> QED
  BY <1>1, <1>3, <1>4, <1>5, <1>6 DEF FilesInd

(* A program that opens files gets what FileSpec promises: a read delivers *)
(* what is at its place and a write puts its bytes there, although both    *)
(* are many messages, replies are shorter than asked for, any request may  *)
(* fail, and the file's name may change hands meanwhile.  (fs9p.cc reads a *)
(* directory no other way than a file; FileSpec has no directories.)       *)
THEOREM FilesKeepPromise ==
  ASSUME NEW k, NEW e, NEW d, FileSystem(k, e, d), Tidy(k, e, d)
  PROVE  Behaviour(k, e, d) /\ []FilesOnly => KeepsFilePromise
<1>1. Init(k, e, d) => FilesInd /\ Promise!Init
  BY InitFiles
<1>2. FilesInd /\ FilesOnly /\ FilesOnly' /\ [Next]_vars => FilesInd' /\ [Promise!Next]_PromiseVars
  BY FilesStep
<1> QED
  BY <1>1, <1>2, PTL DEF Behaviour, KeepsFilePromise, Promise!Spec, PromiseVars

=============================================================================
