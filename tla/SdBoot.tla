-------------------------------- MODULE SdBoot --------------------------------
(***************************************************************************)
(* The program that loadp2 sends first when it is to write a file to the   *)
(* SD card (board/sdcard/sdboot.c): delete the boot file, then write it    *)
(* anew from the image that follows in memory, or leave it deleted when    *)
(* there is none.  Runs follow each other; in the first one the card may   *)
(* fail once or stop answering, and then the power may be cut.             *)
(***************************************************************************)
EXTENDS FatFs

CONSTANTS
  FILENAME,  \* the boot file
  Cards,     \* the cards to begin with
  Jobs,      \* the images of the runs, in order; <<>> only deletes
  Faults,    \* what may be wrong with the card in the first run
  MaxLeft    \* how many accesses go well before it is

VARIABLES
  vol,    \* the card and FatFs
  pc,     \* where main is
  fr,     \* its result of the last call
  said,   \* what it has printed
  image,  \* what follows it in memory
  next,   \* the images of the runs to come
  first,  \* the card when this run began, and whether it was fault-free
  beat    \* changes with every step of main, one that repeats itself too

vars == <<vol, pc, fr, said, image, next, first, beat>>

Began(disk, fault) == [disk |-> disk, well |-> fault = "none"]

Init ==
  /\ \E disk \in Cards, fault \in Faults, left \in 0..MaxLeft :
       /\ fault = "none" => left = 0
       /\ vol = Unmounted(disk, fault, left)
       /\ first = Began(disk, fault)
  /\ pc = "mount" /\ fr = "OK" /\ said = {} /\ beat = 0
  /\ \E job \in Jobs : image = Head(job) /\ next = Tail(job)

Goto(label) == pc' = label /\ UNCHANGED <<image, next, first>>
Prints(message) == said' = said \cup {message}
Call(w) == vol' = Anyway(w) /\ fr' = w.res

Mount ==
  /\ pc = "mount"
  /\ Call(f_mount(vol))
  /\ Goto("unlink") /\ UNCHANGED said

(* Again and again while the drive is not ready. *)
UnlinkUntilGone ==    \* wrong: tried again after every error
  /\ pc = "unlink"
  /\ LET w == f_unlink(vol, FILENAME)
     IN  Call(w) /\ Goto(IF w.res \in {"OK", "NO_FILE"} THEN "size" ELSE "unlink")
  /\ UNCHANGED said
Unlink ==
  /\ pc = "unlink"
  /\ LET w == f_unlink(vol, FILENAME)
     IN  Call(w) /\ Goto(IF w.res = "NOT_READY" THEN "unlink" ELSE "size")
  /\ UNCHANGED said

Size ==
  /\ pc = "size"
  /\ IF image # <<>> THEN Goto("open") /\ UNCHANGED said
     ELSE /\ Goto("halt")
          /\ Prints(CASE fr = "NO_FILE" -> "not found" [] fr = "OK" -> "deleted" [] OTHER -> "not deleted")
  /\ UNCHANGED <<vol, fr>>

Open ==
  /\ pc = "open"
  /\ LET w == f_open(vol, FILENAME, {"WRITE", "CREATE_ALWAYS"})
     IN  /\ Call(w)
         /\ IF Ok(w) THEN Goto("write") /\ UNCHANGED said ELSE Goto("reboot") /\ Prints("not opened")

Write ==
  /\ pc = "write"
  /\ LET w == f_write(vol, image)
     IN  /\ Call(w)
         /\ IF Ok(w) THEN UNCHANGED said ELSE Prints("write error")
  /\ Goto("close")

(* Even after an error the file is closed, which gives it what was written. *)
CloseUncounted ==    \* wrong: what f_write has moved is not compared
  /\ pc = "close"
  /\ LET w == f_close(vol)
     IN  Call(w) /\ Prints(IF ~Ok(w) THEN "close error" ELSE "OK")
  /\ Goto("reboot")
Close ==
  /\ pc = "close"
  /\ LET w == f_close(vol)
     IN  /\ Call(w)
         /\ Prints(IF ~Ok(w) THEN "close error" ELSE IF w.moved # Len(image) THEN "short" ELSE "OK")
  /\ Goto("reboot")

Main ==
  /\ Mount \/ Unlink \/ Size \/ Open \/ Write \/ Close
  /\ beat' = 1 - beat

(* The next run, with nothing left in memory: after this one, or because   *)
(* the power went when the card stopped answering.                         *)
Ended == pc \in {"halt", "reboot"}
PowerCut == vol.fault = "dead" /\ Strikes(vol)
NextRun ==
  /\ Ended \/ PowerCut
  /\ next # <<>>
  /\ vol' = Unmounted(vol.disk, "none", 0)
  /\ first' = [Began(vol.disk, "none") EXCEPT !.well = first.well]
  /\ image' = Head(next) /\ next' = Tail(next)
  /\ pc' = "mount" /\ fr' = "OK" /\ said' = {} /\ beat' = beat

Next == Main \/ NextRun

(* The Propeller runs on: main takes steps until it has come to its end.   *)
(* This is WF_vars(Main), as main can always step but there.               *)
Fairness == []<>Ended \/ []<><<Main>>_vars
Spec == Init /\ [][Next]_vars /\ Fairness

-----------------------------------------------------------------------------
(* What may be relied on of the card.  A full directory is given another   *)
(* cluster, linked before it is cleared (dir_next, dir_clear): what that   *)
(* held is read as entries until it is cleared, for good when the power or *)
(* an access fails in between.  Nothing is promised of those entries, nor  *)
(* of a run that begins with some.                                         *)
Card == AsCleared(vol.disk)
Promised == Uncleared(first.disk) = {}

(* Wherever a run is cut or an access fails, the card can be read, but for *)
(* the entries of a cluster of the directory that is not cleared: every    *)
(* other entry's chain ends, is its own, goes through no free cluster and  *)
(* is as long as the file; and the other files of the card are as they     *)
(* were.  When nothing went wrong every cluster of the directory has been  *)
(* cleared and none is lost in the end, and both FATs and the free count   *)
(* are right.                                                              *)
CardSound ==
  Promised =>
    /\ Sound(Card)
    /\ \A e \in Files(first.disk) : e.name # FILENAME =>
         /\ e \in Files(Card)
         /\ Content(Card, e.name) = Content(first.disk, e.name)
    /\ first.well /\ Ended => Uncleared(vol.disk) = {}
    /\ first.well /\ Ended /\ Tidy(first.disk) => Tidy(vol.disk)

(* At every moment there is no boot file, the whole old one, or a part of  *)
(* the new one from its beginning: never the old clusters' data behind the *)
(* new name.  What is in a cluster of the directory that is not cleared is *)
(* again excepted.                                                         *)
BootFileOldOrNew ==
  Promised /\ Has(Card, FILENAME) =>
    \/ IsPrefix(Content(Card, FILENAME), image)
    \/ /\ Has(first.disk, FILENAME)
       /\ Content(Card, FILENAME) = Content(first.disk, FILENAME)

(* "OK" is printed only when the boot file is on the card, complete: also  *)
(* in a run that begins with entries nobody has written.                   *)
OKMeansThere ==
  "OK" \in said => Has(vol.disk, FILENAME) /\ Content(vol.disk, FILENAME) = image

(* Unless the card stops answering a run comes to its end. *)
ComesToEnd == vol.fault # "dead" ~> Ended
=============================================================================
