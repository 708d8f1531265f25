------------------------------ MODULE FatClient ------------------------------
(***************************************************************************)
(* A program that uses FatFs with one file object: any calls in any order, *)
(* on a card that works.  A file that is open is not deleted (ff.c cannot  *)
(* tell: FF_FS_LOCK is 0).  The power may go while no file is open.        *)
(***************************************************************************)
EXTENDS FatFs

CONSTANTS
  Cards,     \* the cards to begin with
  Names,     \* of files
  Blocks,    \* what is written in one call
  Reads,     \* how much is read in one call
  Places,    \* where f_lseek goes
  Modes,     \* the ways of opening a file
  MaxCalls   \* bounds the number of calls

VARIABLES
  vol,     \* the card and FatFs
  call,    \* the last call, with its argument
  fr,      \* its result
  name,    \* of the file that is open
  short,   \* whether it has written less than was asked for
  calls,   \* how many there were
  files    \* what the files hold, as it follows from vol: for KeepsFiles only

vars == <<vol, call, fr, name, short, calls, files>>
NoName == "none"

(* The card with what the buffer still has to write to it. *)
Flushed(v) == IF v.wflag THEN [v.disk EXCEPT ![v.winsect] = v.win] ELSE v.disk

(* The open file is what its object says, the others what the card says. *)
Contents(v, open) ==
  LET disk == Flushed(v)
  IN  [n \in {e.name : e \in Files(disk)} |->
         IF n = open THEN ContentOf(disk, v.fil.sclust, v.fil.objsize) ELSE Content(disk, n)]

Init ==
  /\ \E disk \in Cards :
       vol = Unmounted(disk, "none", 0) /\ files = Contents(Unmounted(disk, "none", 0), NoName)
  /\ call = <<"off", "off">> /\ fr = "OK" /\ name = NoName /\ short = FALSE /\ calls = 0

Returns(op, arg, w, open) ==
  /\ calls < MaxCalls /\ calls' = calls + 1
  /\ call' = <<op, arg>> /\ fr' = w.res
  /\ vol' = [Anyway(w) EXCEPT !.rbuf = IF op = "read" THEN @ ELSE <<>>]
  /\ name' = open /\ files' = Contents(w, open)

Open(n, mode) ==
  /\ ~vol.fil.open
  /\ LET w == f_open(vol, n, mode)
     IN  Returns("open", <<n, mode>>, w, IF Ok(w) THEN n ELSE NoName)
  /\ short' = FALSE
Unlink(n) ==
  /\ ~vol.fil.open
  /\ Returns("unlink", n, f_unlink(vol, n), NoName)
  /\ short' = FALSE

InFile == vol.fil.open
Read(n) == InFile /\ Returns("read", n, f_read(vol, n), name) /\ short' = FALSE
Write(units) ==
  /\ InFile
  /\ LET w == f_write(vol, units)
     IN  Returns("write", units, w, name) /\ short' = (Ok(w) /\ w.moved < Len(units))
Seek(to) ==
  /\ InFile
  /\ LET w == f_lseek(vol, to)
     IN  Returns("seek", to, w, name) /\ short' = (w.fil.fptr < to /\ "WRITE" \in w.fil.mode)
Truncate == InFile /\ Returns("truncate", 0, f_truncate(vol), name) /\ short' = FALSE
Sync == InFile /\ Returns("sync", 0, f_sync(vol), name) /\ short' = FALSE
Close ==
  /\ vol.fil.open
  /\ Returns("close", 0, f_close(vol), NoName)
  /\ short' = FALSE

(* All that is not on the card is gone. *)
PowerOff ==
  /\ ~vol.fil.open
  /\ Returns("off", "off", Unmounted(vol.disk, "none", 0), NoName)
  /\ short' = FALSE

Next ==
  \/ \E n \in Names : Unlink(n) \/ \E mode \in Modes : Open(n, mode)
  \/ \E n \in Reads : Read(n)
  \/ \E units \in Blocks : Write(units)
  \/ \E to \in Places : Seek(to)
  \/ Truncate \/ Sync \/ Close \/ PowerOff

Spec == Init /\ [][Next]_vars

-----------------------------------------------------------------------------
P == INSTANCE PlainFiles WITH
       None <- NoName, ok <- fr = "OK", files <- files, opened <- name,
       mode <- IF vol.fil.open THEN vol.fil.mode ELSE {},
       place <- IF vol.fil.open THEN vol.fil.fptr ELSE 0, got <- vol.rbuf

(* Behind the sectors, clusters and the one buffer, the calls do to the    *)
(* files just what their names say; whatever is closed survives the power. *)
KeepsFiles == P!Spec

(* The file object's cluster is the one of the chain that holds the unit   *)
(* before its place, and its sector the one its place is in.               *)
ObjectInChain ==
  vol.fil.open =>
    LET f == vol.fil
        chain == Chain(Flushed(vol), f.sclust)
    IN  /\ f.objsize <= Len(chain) * ClusterBytes
        /\ f.fptr <= f.objsize
        /\ f.fptr > 0 => f.clust = chain[1 + ((f.fptr - 1) \div ClusterBytes)]
        /\ f.fptr % SectorSize # 0 => f.sect = Here(vol)

(* While no file is open no cluster is lost or has two owners, both FATs   *)
(* agree and the free count is right.                                      *)
ClosedIsTidy ==
  ~vol.fil.open /\ fr = "OK" => Sound(vol.disk) /\ Tidy(vol.disk)

(* Less than asked for is written only when no cluster is free. *)
ShortOnlyWhenFull == short => Free(Flushed(vol)) = {}
=============================================================================
