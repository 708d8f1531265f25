------------------------------ MODULE FatVolume ------------------------------
(***************************************************************************)
(* The lower half of FatFs (board/sdcard/ff.c) as it is configured here: a *)
(* FAT32 volume, one sector buffer for the FAT, the directory and the data *)
(* (FF_FS_TINY), short names, no subdirectories used.                      *)
(*                                                                         *)
(* A volume is a record: the card's sectors, the buffer with what belongs  *)
(* to it, the open file, and the result of what was done last.  Each       *)
(* operator stands for a function of ff.c and gives the volume as it is    *)
(* when that returns; Then goes on unless it failed.  Every access to the  *)
(* card may be the one that fails, or the first of many (fault, left).     *)
(*                                                                         *)
(* A cluster number is what a FAT entry holds: 0 is free, and from Eoc on  *)
(* it ends a chain.                                                        *)
(***************************************************************************)
EXTENDS Integers, Sequences, SequencesExt, FiniteSets, FiniteSetsExt

CONSTANTS
  SectorSize,   \* units of data in a sector             (512 bytes)
  ClusterSize,  \* sectors in a cluster
  FatPerSector, \* FAT entries in a sector               (128)
  DirPerSector, \* directory entries in a sector          (16)
  Clusters,     \* n_fatent: clusters are 2..Clusters-1
  NFats,        \* copies of the FAT
  PartitionAt   \* the volume's first sector, 0 when there are no partitions

ASSUME FatAssumption ==
  /\ {SectorSize, ClusterSize, FatPerSector, DirPerSector} \subseteq Nat \ {0}
  /\ Clusters > 2 /\ NFats \in {1, 2} /\ PartitionAt \in Nat

Eoc == 268435455         (* 0x0FFFFFFF *)
Unknown == 2 * Eoc       (* FSInfo's 0xFFFFFFFF, not a count *)
DiskErr == 4 * Eoc       (* what the code takes for 0xFFFFFFFF, a disk error *)
Nowhere == -1            (* no sector *)
End == "end"             (* the entry after the last one in use *)
Deleted == "deleted"     (* DDEM *)
Stale == "stale"         (* what a buffer happens to hold, *)
StaleUnit == <<Stale>>   (* or a unit of data in it *)

(* Where things are. *)
fsize == (Clusters + FatPerSector - 1) \div FatPerSector
volbase == PartitionAt
fsinfo == volbase + 1
fatbase == volbase + 2
database == fatbase + NFats * fsize
dirbase == 2                                  \* the root directory's first cluster
ClusterBytes == ClusterSize * SectorSize

NoEntry == [name |-> End, clust |-> 0, size |-> 0]
FreeEntries == [is |-> "dir", at |-> [i \in 0..DirPerSector - 1 |-> NoEntry]]
NoFile == [open |-> FALSE, id |-> 0, mode |-> {}, modified |-> FALSE, err |-> "OK", fptr |-> 0,
           clust |-> 0, sect |-> 0, dir_sect |-> 0, dir |-> 0, sclust |-> 0, objsize |-> 0]

(* A volume nobody has mounted yet, on a card. *)
Unmounted(disk, fault, left) ==
  [disk |-> disk, fault |-> fault, left |-> left,
   ready |-> FALSE, mounted |-> FALSE, id |-> 0,
   win |-> FreeEntries, winsect |-> Nowhere, wflag |-> FALSE,
   free |-> 0, last |-> 0, fsi |-> FALSE, noinfo |-> TRUE,
   dj |-> [name |-> End, dptr |-> 0, clust |-> 0, sect |-> 0],
   fil |-> NoFile, res |-> "OK", val |-> 0, moved |-> 0, rbuf |-> <<>>]

Ok(v) == v.res = "OK"
Then(v, Op(_)) == IF Ok(v) THEN Op(v) ELSE v
After(v, Op(_)) == Op(v)    \* whether it failed or not
Error(v, r) == [v EXCEPT !.res = r]
Anyway(v) == [v EXCEPT !.res = "OK"]

-----------------------------------------------------------------------------
(* The card: an access fails, or succeeds. *)

Strikes(v) == v.fault # "none" /\ v.left = 0
Accessed(v) ==
  IF Strikes(v) THEN [v EXCEPT !.fault = IF @ = "glitch" THEN "none" ELSE @]
  ELSE [v EXCEPT !.left = IF v.fault = "none" THEN 0 ELSE @ - 1]

disk_write(v, sect, content) ==
  IF Strikes(v) THEN Error(Accessed(v), "DISK_ERR")
  ELSE [Accessed(v) EXCEPT !.disk[sect] = content]
disk_read(v, sect) ==
  IF Strikes(v) THEN Error(Accessed(v), "DISK_ERR") ELSE Accessed(v)
CtrlSync(v) == IF Strikes(v) THEN Error(Accessed(v), "DISK_ERR") ELSE Accessed(v)

-----------------------------------------------------------------------------
(* The buffer. *)

Mirrored(v) ==
  IF NFats = 2 /\ v.winsect - fatbase \in 0..fsize - 1
  THEN Anyway(disk_write(v, v.winsect + fsize, v.win)) ELSE v
sync_window(v) ==
  IF ~v.wflag THEN v
  ELSE Then(disk_write(v, v.winsect, v.win), LAMBDA w : Mirrored([w EXCEPT !.wflag = FALSE]))

Filled(v, sect) ==
  After(disk_read(v, sect),
        LAMBDA w : IF Ok(w) THEN [w EXCEPT !.win = w.disk[sect], !.winsect = sect]
                            ELSE [w EXCEPT !.winsect = Nowhere])
move_window(v, sect) ==
  IF sect = v.winsect THEN v ELSE Then(sync_window(v), LAMBDA w : Filled(w, sect))

(* FSInfo is written when it has changed; whether that failed is not seen. *)
PutFsInfo(v) ==
  IF ~v.fsi \/ v.noinfo THEN v
  ELSE LET info == [is |-> "fsinfo", free |-> v.free, last |-> v.last]
       IN  Anyway(disk_write([v EXCEPT !.win = info, !.winsect = fsinfo, !.fsi = FALSE], fsinfo, info))
sync_fs(v) == Then(sync_window(v), LAMBDA w : CtrlSync(PutFsInfo(w)))

-----------------------------------------------------------------------------
(* The FAT. *)

clst2sect(c) == IF c \in 2..Clusters - 1 THEN database + ClusterSize * (c - 2) ELSE 0
FatSector(c) == fatbase + (c \div FatPerSector)
Value(v, n) == [v EXCEPT !.val = n]

(* 1 for an entry there is not, DiskErr when it cannot be read. *)
get_fat(v, c) ==
  IF c \notin 2..Clusters - 1 THEN Value(v, 1)
  ELSE After(move_window(v, FatSector(c)),
             LAMBDA w : IF Ok(w) THEN Value(w, w.win.at[c % FatPerSector]) ELSE Value(Anyway(w), DiskErr))
put_fat(v, c, val) ==
  IF c \notin 2..Clusters - 1 THEN Error(v, "INT_ERR")
  ELSE Then(move_window(v, FatSector(c)),
            LAMBDA w : [w EXCEPT !.win.at[c % FatPerSector] = val, !.wflag = TRUE])

OneMoreFree(v) ==
  IF v.free < Clusters - 2 THEN [v EXCEPT !.free = @ + 1, !.fsi = TRUE] ELSE v

RECURSIVE FreeFrom(_, _)
FreeFrom(v, c) ==
  After(get_fat(v, c), LAMBDA w :
    CASE w.val = 0 -> w
      [] w.val = 1 -> Error(w, "INT_ERR")
      [] w.val = DiskErr -> Error(w, "DISK_ERR")
      [] OTHER -> Then(put_fat(w, c, 0), LAMBDA x :
                    IF w.val < Clusters THEN FreeFrom(OneMoreFree(x), w.val) ELSE OneMoreFree(x)))
remove_chainOpen(v, c, prev) ==    \* wrong: what is left does not end
  IF c \notin 2..Clusters - 1 THEN Error(v, "INT_ERR") ELSE FreeFrom(v, c)
remove_chain(v, c, prev) ==
  IF c \notin 2..Clusters - 1 THEN Error(v, "INT_ERR")
  ELSE Then(IF prev # 0 THEN put_fat(v, prev, Eoc) ELSE v, LAMBDA w : FreeFrom(w, c))

(* The next free cluster after ncl, round to scl; 0 if there is none. *)
RECURSIVE FindFree(_, _, _)
FindFree(v, ncl, scl) ==
  LET n == IF ncl + 1 >= Clusters THEN 2 ELSE ncl + 1
  IN  IF ncl + 1 >= Clusters /\ n > scl THEN Value(v, 0)
      ELSE After(get_fat(v, n), LAMBDA w :
             CASE w.val = 0 -> Value(w, n)
               [] w.val \in {1, DiskErr} -> w
               [] OTHER -> IF n = scl THEN Value(w, 0) ELSE FindFree(w, n, scl))

(* Right behind the end of the chain if that is free, else from where the  *)
(* last one was found. *)
Suggested(v) == IF v.last \in 2..Clusters - 1 THEN v.last ELSE 0
FindNearAhead(v, c) ==    \* wrong: the clusters before are not looked at
  LET n == IF c + 1 >= Clusters THEN 2 ELSE c + 1
      scl == IF Suggested(v) # 0 THEN Suggested(v) ELSE c
  IN  After(get_fat(v, n), LAMBDA w :
        CASE w.val = 0 -> Value(w, n)
          [] w.val \in {1, DiskErr} -> w
          [] OTHER -> FindFree(w, scl, 1))
FindNear(v, c) ==
  LET n == IF c + 1 >= Clusters THEN 2 ELSE c + 1
      scl == IF Suggested(v) # 0 THEN Suggested(v) ELSE c
  IN  After(get_fat(v, n), LAMBDA w :
        CASE w.val = 0 -> Value(w, n)
          [] w.val \in {1, DiskErr} -> w
          [] OTHER -> FindFree(w, scl, scl))

(* The new cluster is marked as the end before the chain is linked to it.  *)
Taken(v, ncl) ==
  IF Ok(v) THEN [v EXCEPT !.last = ncl, !.fsi = TRUE, !.val = ncl,
                          !.free = IF @ <= Clusters - 2 THEN @ - 1 ELSE @]
  ELSE Value(Anyway(v), IF v.res = "DISK_ERR" THEN DiskErr ELSE 1)
LinkedFirst(v, c, ncl) ==    \* wrong: linked before it is marked
  Taken(Then(IF c # 0 THEN put_fat(v, c, ncl) ELSE v, LAMBDA x : put_fat(x, ncl, Eoc)), ncl)
Linked(v, c, ncl) ==
  Taken(Then(put_fat(v, ncl, Eoc), LAMBDA x : IF c # 0 THEN put_fat(x, c, ncl) ELSE x), ncl)
Extended(v, c, found) ==
  IF found.val \in {0, 1, DiskErr} THEN found ELSE Linked(found, c, found.val)

(* Stretch the chain that ends in c, or begin one (c = 0).  The value is   *)
(* the cluster, 0 when there is none free, 1 or DiskErr.                   *)
create_chain(v, c) ==
  IF c = 0
  THEN LET scl == IF v.last = 0 \/ v.last >= Clusters THEN 1 ELSE v.last
       IN  IF v.free = 0 THEN Value(v, 0) ELSE Extended(v, 0, FindFree(v, scl, scl))
  ELSE After(get_fat(v, c), LAMBDA w :
         CASE w.val < 2 -> Value(w, 1)
           [] w.val = DiskErr \/ w.val \in 2..Clusters - 1 -> w
           [] OTHER -> IF w.free = 0 THEN Value(w, 0) ELSE Extended(w, c, FindNear(w, c)))
=============================================================================
