--------------------------------- MODULE FatFs ---------------------------------
(***************************************************************************)
(* The upper half of FatFs (board/sdcard/ff.c): mounting, the root         *)
(* directory, and the calls on one file object.  A call that takes v gives *)
(* the volume when it returns, its result in res.                          *)
(***************************************************************************)
EXTENDS FatVolume

-----------------------------------------------------------------------------
(* Mounting. *)

(* What sector sect is: 0 a FAT volume, 2 a boot sector of none (it may    *)
(* hold a partition table), 3 no boot sector, 4 an error. *)
check_fs(v, sect) ==
  After(move_window([v EXCEPT !.wflag = FALSE, !.winsect = Nowhere], sect), LAMBDA w :
    IF ~Ok(w) THEN Value(Anyway(w), 4)
    ELSE Value(w, CASE w.win.is = "vbr" -> 0 [] w.win.is = "mbr" -> 2 [] OTHER -> 3))

RECURSIVE FindPartition(_, _, _)
FindPartition(v, table, i) ==
  After(IF table[i] # 0 THEN check_fs(v, table[i]) ELSE Value(v, 3), LAMBDA w :
    IF w.val >= 2 /\ i < Len(table) THEN FindPartition(w, table, i + 1) ELSE w)
find_volume(v) ==
  After(check_fs(v, 0), LAMBDA w : IF w.val # 2 THEN w ELSE FindPartition(w, w.win.table, 1))

GetFsInfo(v) ==
  LET none == [v EXCEPT !.free = Unknown, !.last = Unknown, !.fsi = FALSE, !.noinfo = TRUE]
  IN  After(move_window(none, fsinfo), LAMBDA w :
        IF ~Ok(w) THEN Anyway(w)
        ELSE IF w.win.is # "fsinfo" THEN [w EXCEPT !.noinfo = FALSE]
        ELSE [w EXCEPT !.noinfo = FALSE, !.free = w.win.free, !.last = w.win.last])

(* A mounted volume is used again as long as the drive is initialised.     *)
Initialized(v) == IF Strikes(v) THEN Accessed(v) ELSE [Accessed(v) EXCEPT !.ready = TRUE]
Mounted(w) ==      \* as find_volume has found it
  IF w.val = 4 THEN Error(w, "DISK_ERR")
  ELSE IF w.val >= 2 \/ ~w.win.sound THEN Error(w, "NO_FILESYSTEM")
  ELSE [GetFsInfo(w) EXCEPT !.mounted = TRUE, !.id = @ + 1]
mount_volume(v) ==
  IF v.mounted /\ v.ready THEN v
  ELSE After(Initialized([v EXCEPT !.mounted = FALSE, !.ready = FALSE]), LAMBDA i :
         IF i.ready THEN Mounted(find_volume(i)) ELSE Error(i, "NOT_READY"))

(* Only registers the volume (opt = 0): it is mounted when first used.     *)
f_mount(v) == [v EXCEPT !.mounted = FALSE]

validate(v) ==
  IF v.fil.open /\ v.mounted /\ v.fil.id = v.id /\ v.ready THEN v ELSE Error(v, "INVALID_OBJECT")

-----------------------------------------------------------------------------
(* The root directory. *)

(* A cluster that is linked to the directory and not yet cleared holds     *)
(* what it held: entries of another directory that is gone ("old dir"), or *)
(* data that is taken for entries, whose names are never asked for.        *)
JunkEntry == [name |-> Stale, clust |-> 1, size |-> 0]
EntryAt(sector, i) == IF sector.is \in {"dir", "old dir"} THEN sector.at[i] ELSE JunkEntry
Entry(v) == EntryAt(v.win, v.dj.dptr % DirPerSector)
SetEntry(v, e) == [v EXCEPT !.win.at[v.dj.dptr % DirPerSector] = e, !.wflag = TRUE]

dir_sdi(v) ==    \* to the first entry
  LET s == clst2sect(dirbase)
  IN  [v EXCEPT !.dj.dptr = 0, !.dj.clust = dirbase, !.dj.sect = s]

RECURSIVE ClearSectors(_, _, _)
ClearSectors(v, sect, n) ==
  IF n = 0 THEN v
  ELSE Then(disk_write(v, sect, v.win), LAMBDA w : ClearSectors(w, sect + 1, n - 1))
dir_clear(v, c) ==
  Then(sync_window(v), LAMBDA w :
    ClearSectors([w EXCEPT !.winsect = clst2sect(c), !.win = FreeEntries], clst2sect(c), ClusterSize))

AtEntry(v, n) == [v EXCEPT !.dj.dptr = n]
InCluster(v, c, n) == [v EXCEPT !.dj.clust = c, !.dj.sect = clst2sect(c), !.dj.dptr = n]

Stretched(v, n) ==
  After(create_chain(v, v.dj.clust), LAMBDA w :
    CASE w.val = 0 -> Error(w, "DENIED")
      [] w.val = 1 -> Error(w, "INT_ERR")
      [] w.val = DiskErr -> Error(w, "DISK_ERR")
      [] OTHER -> Then(dir_clear(w, w.val), LAMBDA x : InCluster(x, w.val, n)))
NextCluster(v, n, stretch) ==
  After(get_fat(v, v.dj.clust), LAMBDA w :
    CASE w.val <= 1 -> Error(w, "INT_ERR")
      [] w.val = DiskErr -> Error(w, "DISK_ERR")
      [] w.val \in 2..Clusters - 1 -> InCluster(w, w.val, n)
      [] OTHER -> IF stretch THEN Stretched(w, n) ELSE Error(w, "NO_FILE"))
dir_next(v, stretch) ==
  LET n == v.dj.dptr + 1
  IN  IF n % DirPerSector # 0 THEN AtEntry(v, n)
      ELSE IF (n \div DirPerSector) % ClusterSize # 0
      THEN AtEntry([v EXCEPT !.dj.sect = @ + 1], n)
      ELSE NextCluster(v, n, stretch)

RECURSIVE FindFrom(_)
FindFrom(v) ==
  Then(move_window(v, v.dj.sect), LAMBDA w :
    IF Entry(w).name = End THEN Error(w, "NO_FILE")
    ELSE IF Entry(w).name = w.dj.name THEN w
    ELSE Then(dir_next(w, FALSE), LAMBDA x : FindFrom(x)))
dir_find(v) == FindFrom(dir_sdi(v))

RECURSIVE AllocFrom(_)
AllocFrom(v) ==
  Then(move_window(v, v.dj.sect), LAMBDA w :
    IF Entry(w).name \in {End, Deleted} THEN w
    ELSE Then(dir_next(w, TRUE), LAMBDA x : AllocFrom(x)))
dir_alloc(v) == AllocFrom(dir_sdi(v))
dir_register(v) ==
  Then(Then(dir_alloc(v), LAMBDA w : move_window(w, w.dj.sect)),
       LAMBDA w : SetEntry(w, [name |-> w.dj.name, clust |-> 0, size |-> 0]))
dir_remove(v) ==
  Then(move_window(v, v.dj.sect), LAMBDA w : SetEntry(w, [Entry(w) EXCEPT !.name = Deleted]))

follow_path(v, name) == dir_find([v EXCEPT !.dj.name = name])

-----------------------------------------------------------------------------
(* Deleting and opening. *)

f_unlink(v, name) ==
  LET Removed(w) ==
        LET c == Entry(w).clust
        IN  Then(dir_remove(w), LAMBDA x : IF c # 0 THEN remove_chain(x, c, 0) ELSE x)
      found == Then(mount_volume(v), LAMBDA w : follow_path(w, name))
  IN  Then(Then(found, LAMBDA w : Removed(w)), LAMBDA w : sync_fs(w))

(* The entry of a file that is created anew: its old clusters are freed,   *)
(* and the buffer brought back to the entry.                               *)
Emptied(v) ==
  LET c == Entry(v).clust
      sc == v.winsect
      w == SetEntry(v, [Entry(v) EXCEPT !.clust = 0, !.size = 0])
  IN  IF c = 0 THEN w
      ELSE Then(remove_chain(w, c, 0), LAMBDA x : [move_window(x, sc) EXCEPT !.last = c - 1])

FoundOrNew(v, mode) ==
  IF mode \cap {"CREATE_ALWAYS", "OPEN_ALWAYS", "CREATE_NEW"} = {} THEN v
  ELSE IF ~Ok(v)
  THEN IF v.res = "NO_FILE" THEN Then(dir_register(Anyway(v)), LAMBDA w : Emptied(w)) ELSE v
  ELSE IF "CREATE_NEW" \in mode THEN Error(v, "EXIST")
  ELSE IF "CREATE_ALWAYS" \in mode THEN Emptied(v) ELSE v

(* To the end of the file, FA_OPEN_APPEND. *)
RECURSIVE FollowTo(_, _, _)
FollowTo(v, c, ofs) ==
  IF ofs <= ClusterBytes THEN Value(v, c)
  ELSE After(get_fat(v, c), LAMBDA w :
         CASE w.val = DiskErr -> Error(w, "DISK_ERR")
           [] w.val <= 1 -> Error(w, "INT_ERR")
           [] OTHER -> FollowTo(w, w.val, ofs - ClusterBytes))
SeekEnd(v) ==
  LET size == v.fil.objsize
      inCluster == size - ((size - 1) \div ClusterBytes) * ClusterBytes
      AtEnd(w) == [w EXCEPT !.fil.fptr = size, !.fil.clust = w.val]
  IN  After(AtEnd(FollowTo(v, v.fil.sclust, size)), LAMBDA s :
        IF ~Ok(s) \/ inCluster % SectorSize = 0 THEN s
        ELSE IF clst2sect(s.val) = 0 THEN Error(s, "INT_ERR")
        ELSE [s EXCEPT !.fil.sect = clst2sect(s.val) + inCluster \div SectorSize])

Opened(v, mode, created) ==
  LET e == Entry(v)
      w == [v EXCEPT !.fil = [NoFile EXCEPT
              !.open = TRUE, !.id = v.id, !.mode = mode, !.modified = created,
              !.dir_sect = v.winsect, !.dir = v.dj.dptr % DirPerSector,
              !.sclust = e.clust, !.objsize = e.size]]
  IN  IF "SEEKEND" \in mode /\ e.size > 0 THEN SeekEnd(w) ELSE w

f_open(v, name, mode) ==
  LET Entered(found) ==
        Then(IF Ok(found) \/ found.mounted THEN FoundOrNew(found, mode) ELSE found,
             LAMBDA w : Opened(w, mode, ~Ok(found) \/ "CREATE_ALWAYS" \in mode))
  IN  After(Entered(Then(mount_volume(v), LAMBDA w : follow_path(w, name))), LAMBDA w :
        IF Ok(w) THEN w ELSE [w EXCEPT !.fil.open = FALSE])

-----------------------------------------------------------------------------
(* Reading and writing. *)

Abort(v, r) == [Error(v, r) EXCEPT !.fil.err = r]
Checked(v, Op(_)) == IF Ok(v) THEN Op(v) ELSE Abort(v, "DISK_ERR")
Usable(v, access) ==
  Then(validate(v), LAMBDA w :
    IF w.fil.err # "OK" THEN Error(w, w.fil.err)
    ELSE IF access \notin w.fil.mode THEN Error(w, "DENIED") ELSE w)

InSector(v) == v.fil.fptr % SectorSize
SectorInCluster(v) == (v.fil.fptr \div SectorSize) % ClusterSize
AtClusterStart(v) == InSector(v) = 0 /\ SectorInCluster(v) = 0
Here(v) == clst2sect(v.fil.clust) + SectorInCluster(v)
WholeSectors(v, n) ==      \* that can be moved at once, up to the cluster's end
  LET cc == n \div SectorSize
  IN  IF SectorInCluster(v) + cc > ClusterSize THEN ClusterSize - SectorInCluster(v) ELSE cc
PartOf(v, n) == IF SectorSize - InSector(v) > n THEN n ELSE SectorSize - InSector(v)

Units(sector) == [i \in 1..SectorSize |-> IF sector.is = "data" THEN sector.at[i] ELSE StaleUnit]
Holds(v, s) == v.wflag /\ v.winsect = s

(* Move to the next cluster when there, following the chain. *)
ToRead(v) ==
  IF ~AtClusterStart(v) THEN v
  ELSE After(IF v.fil.fptr = 0 THEN Value(v, v.fil.sclust) ELSE get_fat(v, v.fil.clust), LAMBDA w :
         CASE w.val < 2 -> Abort(w, "INT_ERR")
           [] w.val = DiskErr -> Abort(w, "DISK_ERR")
           [] OTHER -> [w EXCEPT !.fil.clust = w.val])

Got(v, units) == [v EXCEPT !.rbuf = @ \o units, !.fil.fptr = @ + Len(units)]

(* Whole sectors come from the card, but for one that is newer in the buffer. *)
GetSectors(v, sect, n) ==
  LET all == [i \in 1..n |-> Units(IF Holds(v, sect + i - 1) THEN v.win ELSE v.disk[sect + i - 1])]
  IN  Checked(disk_read(v, sect), LAMBDA w : Got(w, FlattenSeq(all)))
GetPart(v, n) ==
  Checked(move_window(v, v.fil.sect), LAMBDA w :
    Got(w, SubSeq(Units(w.win), InSector(w) + 1, InSector(w) + PartOf(w, n))))

RECURSIVE ReadOn(_, _)
ReadOn(v, n) ==
  IF n = 0 THEN v
  ELSE LET Get(w) == IF InSector(w) # 0 THEN GetPart(w, n)
                     ELSE IF clst2sect(w.fil.clust) = 0 THEN Abort(w, "INT_ERR")
                     ELSE IF WholeSectors(w, n) > 0 THEN GetSectors(w, Here(w), WholeSectors(w, n))
                     ELSE GetPart([w EXCEPT !.fil.sect = Here(w)], n)
       IN  Then(Then(IF InSector(v) = 0 THEN ToRead(v) ELSE v, LAMBDA w : Get(w)),
                LAMBDA x : ReadOn(x, n - (x.fil.fptr - v.fil.fptr)))
f_read(v, n) ==
  Then(Usable([v EXCEPT !.rbuf = <<>>], "READ"),
       LAMBDA w : ReadOn(w, IF n > w.fil.objsize - w.fil.fptr THEN w.fil.objsize - w.fil.fptr ELSE n))

(* Writing stretches the chain where it ends. *)
NextToWrite(v) ==
  IF v.fil.fptr # 0 THEN create_chain(v, v.fil.clust)
  ELSE IF v.fil.sclust # 0 THEN Value(v, v.fil.sclust) ELSE create_chain(v, 0)
ToWriteLast(v) ==    \* wrong: each new cluster becomes the file's first
  IF ~AtClusterStart(v) THEN v
  ELSE After(NextToWrite(v), LAMBDA w :
         CASE w.val = 1 -> Abort(w, "INT_ERR")
           [] w.val = DiskErr -> Abort(w, "DISK_ERR")
           [] w.val = 0 -> Error(w, "FULL")
           [] OTHER -> [w EXCEPT !.fil.clust = w.val, !.fil.sclust = w.val])
ToWrite(v) ==
  IF ~AtClusterStart(v) THEN v
  ELSE After(NextToWrite(v), LAMBDA w :
         CASE w.val = 1 -> Abort(w, "INT_ERR")
           [] w.val = DiskErr -> Abort(w, "DISK_ERR")
           [] w.val = 0 -> Error(w, "FULL")          \* leaves the loop, not an error
           [] OTHER -> [w EXCEPT !.fil.clust = w.val, !.fil.sclust = IF @ = 0 THEN w.val ELSE @])

Moved(v, n) ==
  [v EXCEPT !.moved = @ + n, !.fil.fptr = @ + n,
            !.fil.objsize = IF v.fil.fptr + n > @ THEN v.fil.fptr + n ELSE @]
Data(units) == [is |-> "data", at |-> units]

RECURSIVE PutSectors(_, _, _)
PutSectors(v, sect, units) ==
  IF units = <<>> THEN v
  ELSE LET one == Data(SubSeq(units, 1, SectorSize))
       IN  Then(disk_write(v, sect, one),
                LAMBDA w : PutSectors(IF w.winsect = sect THEN [w EXCEPT !.win = one, !.wflag = FALSE] ELSE w,
                                      sect + 1, SubSeq(units, SectorSize + 1, Len(units))))
PutWhole(v, units) ==
  LET n == WholeSectors(v, Len(units)) * SectorSize
  IN  Checked(PutSectors(v, Here(v), SubSeq(units, 1, n)), LAMBDA w : Moved(w, n))

(* Part of a sector goes through the buffer, which is not filled with what *)
(* the card holds where the file ends.                                     *)
PutPart(v, units) ==
  LET n == PartOf(v, Len(units))
      from == InSector(v)
      Changed(old) == Data([i \in 1..SectorSize |->
                              IF i \in from + 1 .. from + n THEN units[i - from] ELSE old[i]])
  IN  Checked(move_window(v, v.fil.sect), LAMBDA w :
        Moved([w EXCEPT !.wflag = TRUE, !.win = Changed(Units(@))], n))
ToSectorNew(v) ==    \* wrong: the buffer is never filled
  Checked(sync_window(v), LAMBDA w : [w EXCEPT !.winsect = Here(v), !.fil.sect = Here(v)])
ToSector(v) ==
  IF v.fil.fptr < v.fil.objsize THEN [v EXCEPT !.fil.sect = Here(v)]
  ELSE Checked(sync_window(v), LAMBDA w : [w EXCEPT !.winsect = Here(v), !.fil.sect = Here(v)])
LetGo(v) ==
  Checked(IF v.winsect = v.fil.sect THEN sync_window(v) ELSE v, LAMBDA w :
    IF clst2sect(w.fil.clust) = 0 THEN Abort(w, "INT_ERR") ELSE w)

RECURSIVE WriteOn(_, _)
WriteOn(v, units) ==
  IF units = <<>> THEN v
  ELSE LET Put(w) == IF InSector(w) # 0 THEN PutPart(w, units)
                     ELSE IF WholeSectors(w, Len(units)) > 0 THEN PutWhole(w, units)
                     ELSE Then(ToSector(w), LAMBDA x : PutPart(x, units))
       IN  Then(Then(IF InSector(v) = 0 THEN Then(ToWrite(v), LAMBDA x : LetGo(x)) ELSE v,
                     LAMBDA w : Put(w)),
                LAMBDA x : WriteOn(x, SubSeq(units, 1 + x.fil.fptr - v.fil.fptr, Len(units))))

(* The result is OK with fewer units moved when the card is full. *)
f_write(v, units) ==
  After(Then(Usable([v EXCEPT !.moved = 0], "WRITE"), LAMBDA w : WriteOn(w, units)), LAMBDA x :
    IF x.res \in {"OK", "FULL"} THEN [Anyway(x) EXCEPT !.fil.modified = TRUE] ELSE x)

-----------------------------------------------------------------------------
(* Moving in the file, cutting it, and closing it. *)

NoError(v) ==
  Then(validate(v), LAMBDA w : IF w.fil.err # "OK" THEN Error(w, w.fil.err) ELSE w)

(* Follow the chain for ofs, stretching it when the file may be written;   *)
(* the value is what is left of ofs, none when the card is full.           *)
RECURSIVE SeekOn(_, _)
SeekOn(v, ofs) ==
  IF ofs <= ClusterBytes THEN Value(v, ofs)
  ELSE LET s == [v EXCEPT !.fil.fptr = @ + ClusterBytes]
           write == "WRITE" \in v.fil.mode
       IN  After(IF write THEN create_chain(s, s.fil.clust) ELSE get_fat(s, s.fil.clust), LAMBDA w :
             IF w.val \in 2..Clusters - 1 THEN SeekOn([w EXCEPT !.fil.clust = w.val], ofs - ClusterBytes)
             ELSE IF write /\ w.val = 0 THEN w
             ELSE Abort(w, IF w.val = DiskErr THEN "DISK_ERR" ELSE "INT_ERR"))

(* From the current cluster when ofs is in it or behind it, else from the  *)
(* file's first one, which is made if there is none.                       *)
SeekFromFirst(v) ==
  After(IF v.fil.sclust = 0 THEN create_chain(v, 0) ELSE Value(v, v.fil.sclust), LAMBDA x :
    LET w == [x EXCEPT !.fil.fptr = 0]
    IN  CASE w.val = 1 -> Abort(w, "INT_ERR")
          [] w.val = DiskErr -> Abort(w, "DISK_ERR")
          [] OTHER -> [w EXCEPT !.fil.sclust = w.val, !.fil.clust = w.val])
SeekFromRounded(v, ofs) ==    \* wrong: at a cluster's end it is not yet in the next
  LET pos == v.fil.fptr
  IN  IF pos > 0 /\ ofs \div ClusterBytes >= pos \div ClusterBytes
      THEN [v EXCEPT !.fil.fptr = (pos \div ClusterBytes) * ClusterBytes, !.val = v.fil.clust]
      ELSE SeekFromFirst(v)
SeekFrom(v, ofs) ==
  LET pos == v.fil.fptr
  IN  IF pos > 0 /\ (ofs - 1) \div ClusterBytes >= (pos - 1) \div ClusterBytes
      THEN [v EXCEPT !.fil.fptr = ((pos - 1) \div ClusterBytes) * ClusterBytes, !.val = v.fil.clust]
      ELSE SeekFromFirst(v)
Arrived(v) ==
  LET s == IF v.val % SectorSize = 0 THEN 0 ELSE clst2sect(v.fil.clust) + v.val \div SectorSize
      w == [v EXCEPT !.fil.fptr = @ + v.val]
      grown == w.fil.fptr > w.fil.objsize
  IN  IF v.val % SectorSize # 0 /\ clst2sect(v.fil.clust) = 0 THEN Abort(w, "INT_ERR")
      ELSE [w EXCEPT !.fil.objsize = IF grown THEN w.fil.fptr ELSE @,
                     !.fil.modified = (@ \/ grown),
                     !.fil.sect = IF InSector(w) # 0 THEN s ELSE @]
f_lseek(v, ofs) ==
  LET To(w) == IF ofs > w.fil.objsize /\ "WRITE" \notin w.fil.mode THEN w.fil.objsize ELSE ofs
      Seek(w) ==
        IF To(w) = 0 THEN [w EXCEPT !.fil.fptr = 0]
        ELSE Then(Then(SeekFrom(w, To(w)), LAMBDA x :
                       IF x.val = 0 THEN x ELSE SeekOn(x, To(w) - x.fil.fptr)),
                  LAMBDA x : Arrived(x))
  IN  Then(NoError(v), LAMBDA w : Seek(w))

f_truncate(v) ==
  LET Shortened(w) == [w EXCEPT !.fil.objsize = w.fil.fptr, !.fil.modified = TRUE]
      Rest(w) ==
        After(get_fat(w, w.fil.clust), LAMBDA x :
          CASE x.val = DiskErr -> Error(x, "DISK_ERR")
            [] x.val = 1 -> Error(x, "INT_ERR")
            [] x.val \in (0..Clusters - 1) \ {1} -> remove_chain(x, x.val, x.fil.clust)
            [] OTHER -> x)
      Cut(w) == IF w.fil.fptr = 0
                THEN [remove_chain(w, w.fil.sclust, 0) EXCEPT !.fil.sclust = 0] ELSE Rest(w)
      Failed(w) == IF Ok(w) THEN w ELSE Abort(w, w.res)
  IN  Then(Usable(v, "WRITE"), LAMBDA w :
        IF w.fil.fptr < w.fil.objsize THEN Failed(Shortened(Cut(w))) ELSE w)

(* The directory entry gets the file's first cluster and its size only now, *)
(* after whatever the buffer held was written.                              *)
PutEntry(v) ==
  [v EXCEPT !.win.at[v.fil.dir].clust = v.fil.sclust, !.win.at[v.fil.dir].size = v.fil.objsize,
            !.wflag = TRUE]
f_sync(v) ==
  Then(validate(v), LAMBDA w :
    IF ~w.fil.modified THEN w
    ELSE Then(move_window(w, w.fil.dir_sect), LAMBDA x :
                [sync_fs(PutEntry(x)) EXCEPT !.fil.modified = FALSE]))
f_close(v) ==
  Then(Then(f_sync(v), LAMBDA w : validate(w)), LAMBDA w : [w EXCEPT !.fil.open = FALSE])
-----------------------------------------------------------------------------
(* What a card says, read as another computer would read it: the files of  *)
(* the root directory, their chains and what they hold.  Nothing from here *)
(* on is part of the code; properties are stated with it.                  *)

FatAt(disk, c) == disk[FatSector(c)].at[c % FatPerSector]

Chain(disk, c) ==
  LET From[d \in Int, n \in Nat] ==
        IF n = 0 \/ d \notin 2..Clusters - 1 THEN <<>> ELSE <<d>> \o From[FatAt(disk, d), n - 1]
  IN  From[c, Clusters]

(* A chain goes through no cluster twice, none that is free, and ends. *)
Proper(disk, c) ==
  LET chain == Chain(disk, c)
  IN  /\ chain # <<>>
      /\ IsInjective(chain)
      /\ FatAt(disk, Last(chain)) >= Eoc

Sectors(chain) ==
  [i \in 1..Len(chain) * ClusterSize |->
     clst2sect(chain[1 + (i - 1) \div ClusterSize]) + ((i - 1) % ClusterSize)]
Slots(disk) ==
  FlattenSeq([i \in DOMAIN Sectors(Chain(disk, dirbase)) |->
     [j \in 1..DirPerSector |-> EntryAt(disk[Sectors(Chain(disk, dirbase))[i]], j - 1)]])
InUse(disk) ==      \* up to the first slot that never was in use
  LET all == Slots(disk)
      ends == {i \in DOMAIN all : all[i].name = End}
  IN  IF ends = {} THEN all ELSE SubSeq(all, 1, Min(ends) - 1)
Files(disk) == {e \in Range(InUse(disk)) : e.name # Deleted}
Has(disk, name) == \E e \in Files(disk) : e.name = name
File(disk, name) == CHOOSE e \in Files(disk) : e.name = name

ContentOf(disk, clust, size) ==    \* as much of it as the chain holds
  LET sectors == Sectors(Chain(disk, clust))
      units == FlattenSeq([i \in DOMAIN sectors |-> Units(disk[sectors[i]])])
  IN  SubSeq(units, 1, Min({size, Len(units)}))
Content(disk, name) == ContentOf(disk, File(disk, name).clust, File(disk, name).size)

(* The card as it would read if every cluster of the directory had been    *)
(* cleared before it was linked.                                           *)
Uncleared(disk) == {s \in Range(Sectors(Chain(disk, dirbase))) : disk[s].is # "dir"}
AsCleared(disk) == [s \in DOMAIN disk |-> IF s \in Uncleared(disk) THEN FreeEntries ELSE disk[s]]

Free(disk) == {c \in 2..Clusters - 1 : FatAt(disk, c) = 0}
Owned(disk) ==
  Range(Chain(disk, dirbase)) \cup UNION {Range(Chain(disk, e.clust)) : e \in Files(disk)}

Sound(disk) ==
  LET files == Files(disk)
  IN  /\ Proper(disk, dirbase)
      /\ Cardinality({i \in DOMAIN InUse(disk) : InUse(disk)[i].name # Deleted})
           = Cardinality({e.name : e \in files})
      /\ \A e \in files :
           /\ e.clust = 0 => e.size = 0
           /\ e.clust # 0 => /\ Proper(disk, e.clust)
                             /\ e.size <= Len(Chain(disk, e.clust)) * ClusterBytes
                             /\ Range(Chain(disk, e.clust)) \cap Range(Chain(disk, dirbase)) = {}
      /\ \A e, f \in files :
           e # f => Range(Chain(disk, e.clust)) \cap Range(Chain(disk, f.clust)) = {}

(* Every cluster is free or some file's, both FATs agree, and the count of *)
(* the free ones is right.                                                 *)
Tidy(disk) ==
  /\ Free(disk) \cup Owned(disk) = 2..Clusters - 1
  /\ NFats = 2 => \A i \in 0..fsize - 1 : disk[fatbase + i] = disk[fatbase + fsize + i]
  /\ disk[fsinfo].is = "fsinfo" => disk[fsinfo].free \in {Cardinality(Free(disk)), Unknown}

-----------------------------------------------------------------------------
(* A card with these files (chain and data), the root directory in these   *)
(* clusters with these entries, and this FSInfo. *)

Link(chains, c) ==
  LET own == {ch \in chains : c \in Range(ch)}
      ch == CHOOSE ch \in own : TRUE
      i == CHOOSE i \in DOMAIN ch : ch[i] = c
  IN  IF c < 2 THEN Eoc ELSE IF own = {} THEN 0 ELSE IF i = Len(ch) THEN Eoc ELSE ch[i + 1]
FatPart(chains, i) ==
  [is |-> "fat", at |-> [j \in 0..FatPerSector - 1 |-> Link(chains, i * FatPerSector + j)]]
DirPart(dir, slots, s) ==
  LET n == CHOOSE i \in DOMAIN Sectors(dir) : Sectors(dir)[i] = s
      Slot(i) == IF i <= Len(slots) THEN slots[i] ELSE NoEntry
  IN  [is |-> "dir", at |-> [j \in 0..DirPerSector - 1 |-> Slot((n - 1) * DirPerSector + j + 1)]]
UnitAt(files, s, j) ==
  LET here == {<<f, i>> \in files \X (1..Clusters * ClusterSize) :
                 i <= Len(f.chain) * ClusterSize /\ Sectors(f.chain)[i] = s}
      at == CHOOSE h \in here : TRUE
      n == (at[2] - 1) * SectorSize + j
  IN  IF here # {} /\ n <= Len(at[1].data) THEN at[1].data[n] ELSE StaleUnit
Formatted(files, dir, slots, info, sound) ==
  LET chains == {dir} \cup {f.chain : f \in files}
  IN  [s \in 0..database + ClusterSize * (Clusters - 2) - 1 |->
         CASE s = volbase -> [is |-> "vbr", sound |-> sound]
           [] s < volbase -> [is |-> "mbr", table |-> <<0, volbase, 0, 0>>]
           [] s = fsinfo -> info
           [] s \in fatbase..database - 1 -> FatPart(chains, (s - fatbase) % fsize)
           [] s \in Range(Sectors(dir)) -> DirPart(dir, slots, s)
           [] OTHER -> [is |-> "data", at |-> [j \in 1..SectorSize |-> UnitAt(files, s, j)]]]
=============================================================================
