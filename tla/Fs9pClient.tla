----------------------------- MODULE Fs9pClient -----------------------------
(***************************************************************************)
(* The 9P client library (testfile/fs9p.cc) in a program on the P2.  A     *)
(* call of the program (fs_init, fs_open, fs_create, fs_read, fs_write,    *)
(* fs_close) is one or more requests, each sent only when the last one has *)
(* been answered; cpc says which answer is awaited.  The number of a fid   *)
(* is the address of the program's fs_file.                                *)
(***************************************************************************)
EXTENDS NinePLink, Integers, Sequences, SequencesExt

CONSTANTS
  Files,    \* the fs_file variables of the program
  RootDir,  \* rootdir, the fid of the attach
  MAXLEN,   \* the client's message buffer        (1048 in the code)
  MINLEN,   \* the least size it accepts          (64)
  HDR,      \* bytes before the data of a Twrite  (23)
  Calls,    \* what the program may call, see Call
  MaxOff    \* bound on file offsets

ASSUME ClientAssumption ==
  /\ RootDir \notin Files
  /\ {MAXLEN, MINLEN, HDR, MaxOff} \subseteq Nat
  /\ HDR < MINLEN /\ MINLEN <= MAXLEN

VARIABLES
  cpc,
  call,    \* the call under way
  rest,    \* do_fs_walk: path elements not walked yet
  maxlen,  \* message size agreed on
  off,     \* offlo and offhi of each fs_file
  inuse,   \* the fs_files the program has open
  left,    \* fs_read: bytes still wanted; fs_write: bytes still to send
  buf,     \* bytes the last call has delivered so far
  ret      \* how it ended

clientVars == <<cpc, call, rest, maxlen, off, inuse, left, buf, ret>>

NoCall == [op |-> "none"]
Waits  == {"version", "attach", "walk", "create", "open", "read", "write", "clunk"}

Send(m) == req' = m /\ rep' = Idle /\ UNCHANGED lost
(* The library waits for a reply without a timeout. *)
Answered(wait) == cpc = wait /\ rep # Idle /\ lost = "no"

Begin(c, wait) == /\ cpc = "ready" /\ cpc' = wait /\ call' = c
                  /\ buf' = <<>> /\ ret' = "none"
Return(r) == /\ cpc' = "ready" /\ call' = NoCall /\ ret' = r
             /\ rest' = <<>> /\ left' = <<>>
Take == rep' = Idle /\ UNCHANGED <<req, lost>>

-----------------------------------------------------------------------------
(* fs_init *)

fs_init ==
  /\ cpc = "start"
  /\ cpc' = "version"
  /\ Send([type |-> "Tversion", msize |-> MAXLEN])
  /\ UNCHANGED <<call, rest, maxlen, off, inuse, left, buf, ret>>

GotVersion ==
  /\ Answered("version")
  /\ IF rep.type = "Rversion" /\ rep.msize \in MINLEN..MAXLEN
     THEN /\ maxlen' = rep.msize
          /\ cpc' = "attach"
          /\ Send([type |-> "Tattach", fid |-> RootDir])
          /\ UNCHANGED ret
     ELSE cpc' = "dead" /\ ret' = "fail" /\ Take /\ UNCHANGED maxlen
  /\ UNCHANGED <<call, rest, off, inuse, left, buf>>

GotAttach ==
  /\ Answered("attach")
  /\ IF rep.type = "Rattach" THEN cpc' = "ready" /\ ret' = "ok"
                             ELSE cpc' = "dead" /\ ret' = "fail"
  /\ Take
  /\ UNCHANGED <<call, rest, maxlen, off, inuse, left, buf>>

-----------------------------------------------------------------------------
(* do_fs_walk: one element a message, from dir to file and then from file  *)
(* to itself; with skipLast the last element is left out, and a "." walked *)
(* when it is the only one.                                                *)

SkipLast == call.op = "create"

WalkOne(dir, file, path, c) ==
  /\ rest' = IF path = <<>> THEN <<>> ELSE Tail(path)
  /\ Send([type |-> "Twalk", fid |-> dir, newfid |-> file,
           wname |-> CASE path = <<>> -> <<>>
                       [] c.op = "create" /\ Len(path) = 1 -> << "." >>
                       [] OTHER -> << Head(path) >>])

OpenMessage == [type |-> "Topen", fid |-> call.f, mode |-> call.mode,
                trunc |-> call.trunc, rclose |-> FALSE]
CreateMessage == [type |-> "Tcreate", fid |-> call.f, name |-> Last(call.path),
                  mode |-> "write", trunc |-> TRUE, rclose |-> FALSE, isdir |-> FALSE]

GotWalk ==
  /\ Answered("walk")
  /\ CASE rep.type # "Rwalk" ->
            Return("fail") /\ Take
       [] rep.type = "Rwalk" /\ rest # <<>> /\ ~(SkipLast /\ Len(rest) = 1) ->
            WalkOne(call.f, call.f, rest, call) /\ UNCHANGED <<cpc, call, ret, left>>
       [] OTHER ->
            /\ cpc' = (IF SkipLast THEN "create" ELSE "open")
            /\ Send(IF SkipLast THEN CreateMessage ELSE OpenMessage)
            /\ rest' = <<>>
            /\ UNCHANGED <<call, ret, left>>
  /\ UNCHANGED <<maxlen, off, inuse, buf>>

(* fs_open_relative *)
fs_open(c) ==
  /\ c.op = "open" /\ c.f \notin inuse
  /\ Begin(c, "walk")
  /\ WalkOne(RootDir, c.f, c.path, c)
  /\ UNCHANGED <<maxlen, off, inuse, left>>

ResetOffset(f) == off' = [off EXCEPT ![f] = 0]

GotOpen ==
  /\ Answered("open")
  /\ IF rep.type = "Ropen"
     THEN /\ ResetOffset(call.f)
          /\ inuse' = inuse \cup {call.f}
          /\ Return("ok")
     ELSE Return("fail") /\ UNCHANGED <<off, inuse>>
  /\ Take
  /\ UNCHANGED <<maxlen, buf>>

(* fs_create: when Tcreate fails, open the file in the directory reached.  *)
fs_create(c) ==
  /\ c.op = "create" /\ c.f \notin inuse
  /\ Begin(c, "walk")
  /\ WalkOne(RootDir, c.f, c.path, c)
  /\ UNCHANGED <<maxlen, off, inuse, left>>

Reopen == [op |-> "open", f |-> call.f, path |-> <<Last(call.path)>>,
           mode |-> "write", trunc |-> TRUE]

CreatedAnyhow(r) == r # Idle
Created(r) == r.type = "Rcreate"

GotCreate ==
  /\ Answered("create")
  /\ IF Created(rep)
     THEN inuse' = inuse \cup {call.f} /\ Return("ok") /\ Take
     ELSE /\ cpc' = "walk" /\ call' = Reopen
          /\ WalkOne(call.f, call.f, Reopen.path, Reopen)
          /\ UNCHANGED <<inuse, ret, left>>
  /\ UNCHANGED <<maxlen, off, buf>>

-----------------------------------------------------------------------------
(* fs_close, fs_read and fs_write *)

fs_close(c) ==
  /\ c.op = "close" /\ c.f \in inuse
  /\ Begin(c, "clunk")
  /\ Send([type |-> "Tclunk", fid |-> c.f])
  /\ UNCHANGED <<rest, maxlen, off, inuse, left>>

GotClunk ==
  /\ Answered("clunk")
  /\ inuse' = inuse \ {call.f}
  /\ Return(IF rep.type = "Rclunk" THEN "ok" ELSE "fail")
  /\ Take
  /\ UNCHANGED <<maxlen, off, buf>>

(* What fits in a message. *)
Piece(n) == Min({n, maxlen - HDR})

ReadMessage(f, o, n)  == [type |-> "Tread", fid |-> f, offset |-> o, count |-> Piece(n)]
WriteMessage(f, o, s) == [type |-> "Twrite", fid |-> f, offset |-> o,
                          data |-> SubSeq(s, 1, Piece(Len(s)))]

(* The bytes wanted are kept as a sequence of that length. *)
fs_read(c) ==
  /\ c.op = "read" /\ c.f \in inuse
  /\ Begin(c, "read")
  /\ left' = [i \in 1..c.count |-> 0]
  /\ Send(ReadMessage(c.f, off[c.f], c.count))
  /\ UNCHANGED <<rest, maxlen, off, inuse>>

fs_write(c) ==
  /\ c.op = "write" /\ c.f \in inuse
  /\ off[c.f] + Len(c.data) <= MaxOff
  /\ Begin(c, "write")
  /\ left' = c.data
  /\ Send(WriteMessage(c.f, off[c.f], c.data))
  /\ UNCHANGED <<rest, maxlen, off, inuse>>

(* r bytes went through: advance the offset and go on with what is left. *)
AdvanceWanted(f, r) == off' = [off EXCEPT ![f] = @ + Piece(Len(left))]
Advance(f, r) == off' = [off EXCEPT ![f] = @ + r]
AtEOFNever(r) == FALSE
AtEOF(r) == r = 0
Remaining(r) == SubSeq(left, r + 1, Len(left))

GotRead ==
  /\ Answered("read")
  /\ CASE rep.type # "Rread" \/ (rep.type = "Rread" /\ rep.count > Piece(Len(left))) ->
            Return("fail") /\ Take /\ UNCHANGED <<off, buf>>
       [] rep.type = "Rread" /\ AtEOF(rep.count) ->
            Return("ok") /\ Take /\ UNCHANGED <<off, buf>>
       [] OTHER ->
            /\ Advance(call.f, rep.count)
            /\ buf' = buf \o rep.data
            /\ IF rep.count < Len(left)
               THEN /\ Send(ReadMessage(call.f, off'[call.f], Len(left) - rep.count))
                    /\ left' = Remaining(rep.count)
                    /\ UNCHANGED <<cpc, call, rest, ret>>
               ELSE Return("ok") /\ Take
  /\ UNCHANGED <<maxlen, inuse>>

GotWrite ==
  /\ Answered("write")
  /\ CASE rep.type # "Rwrite" \/ (rep.type = "Rwrite" /\ rep.count > Piece(Len(left))) ->
            Return("fail") /\ Take /\ UNCHANGED off
       [] rep.type = "Rwrite" /\ AtEOF(rep.count) ->
            Return("ok") /\ Take /\ UNCHANGED off
       [] OTHER ->
            /\ Advance(call.f, rep.count)
            /\ IF rep.count < Len(left)
               THEN /\ Send(WriteMessage(call.f, off'[call.f], Remaining(rep.count)))
                    /\ left' = Remaining(rep.count)
                    /\ UNCHANGED <<cpc, call, rest, ret>>
               ELSE Return("ok") /\ Take
  /\ UNCHANGED <<maxlen, inuse, buf>>

ClientStep ==
  \/ fs_init \/ GotVersion \/ GotAttach
  \/ \E c \in Calls : fs_open(c) \/ fs_create(c) \/ fs_close(c) \/ fs_read(c) \/ fs_write(c)
  \/ GotWalk \/ GotOpen \/ GotCreate \/ GotClunk \/ GotRead \/ GotWrite

ClientInit ==
  /\ cpc = "start" /\ call = NoCall /\ rest = <<>>
  /\ maxlen = MAXLEN
  /\ off = [f \in Files |-> 0] /\ inuse = {}
  /\ left = <<>> /\ buf = <<>> /\ ret = "none"
=============================================================================
