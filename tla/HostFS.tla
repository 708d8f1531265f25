------------------------------- MODULE HostFS -------------------------------
(***************************************************************************)
(* The host's file system, as far as u9fs uses it: stat, open, pread,      *)
(* pwrite, truncate, opendir, readdir, mkdir, rename and remove below the  *)
(* directory given with -9, which itself stays.  It is not part of the     *)
(* repository.                                                             *)
(*                                                                         *)
(* Names lead to inodes, and an open descriptor holds the inode whatever   *)
(* becomes of the name.  A path is the sequence of its elements; an inode  *)
(* that has been used is not used again.                                   *)
(***************************************************************************)
EXTENDS ByteSeq

CONSTANTS
  Names,    \* the file names there are
  Inodes,   \* bounds how many files are ever created
  Root,     \* the exported directory
  Byte,     \* contents of files
  Nothing   \* no inode, no name, no length

ASSUME HostAssumption ==
  /\ Root \in Inodes
  /\ Nothing \notin Inodes /\ Nothing \notin Names
  /\ 0 \in Byte

VARIABLES
  kind,   \* "free", "dir" or "file", for each inode
  ent,    \* the entries of each directory
  data    \* the contents of each file

fsVars == <<kind, ent, data>>

Dot    == "."
DotDot == ".."

HostTypeOK ==
  /\ kind \in [Inodes -> {"free", "dir", "file"}]
  /\ ent \in [Inodes -> [Names -> Inodes \cup {Nothing}]]
  /\ data \in [Inodes -> Seq(Byte)]

(* stat: the inode a path leads to. *)
Enter(i, name) ==
  IF i = Nothing \/ kind[i] # "dir" THEN Nothing
  ELSE IF name = Dot THEN i ELSE ent[i][name]
Stat(path) == FoldLeft(Enter, Root, path)

Exists(path) == Stat(path) # Nothing
IsDir(path)  == Exists(path) /\ kind[Stat(path)] = "dir"
Listing(i)   == {n \in Names : ent[i][n] # Nothing}

Proper(path) == path # <<>> /\ Last(path) # Dot

-----------------------------------------------------------------------------
(* Creating the missing file or directory `name` in the directory dir. *)
Fresh == {i \in Inodes : kind[i] = "free"}
NextInode == CHOOSE i \in Fresh : TRUE

CanMake(dir, name) == IsDir(dir) /\ ~Exists(dir \o <<name>>) /\ Fresh # {}
Make(dir, name, k) ==
  /\ kind' = [kind EXCEPT ![NextInode] = k]
  /\ ent' = [ent EXCEPT ![Stat(dir)][name] = NextInode]
  /\ UNCHANGED data

(* remove: a file, or an empty directory. *)
CanUnlink(path) ==
  /\ Proper(path) /\ Exists(path)
  /\ IsDir(path) => Listing(Stat(path)) = {}
Unlink(path) ==
  /\ ent' = [ent EXCEPT ![Stat(Front(path))][Last(path)] = Nothing]
  /\ UNCHANGED <<kind, data>>

(* rename to another name in the same directory. *)
CanRename(path, name) ==
  /\ Proper(path) /\ Exists(path)
  /\ LET new == Front(path) \o <<name>>
     IN Exists(new) => /\ IsDir(path) <=> IsDir(new)
                       /\ CanUnlink(new)
Rename(path, name) ==
  /\ ent' = [ent EXCEPT ![Stat(Front(path))] =
               [@ EXCEPT ![Last(path)] = Nothing, ![name] = Stat(path)]]
  /\ UNCHANGED <<kind, data>>

(* The effect of pwrite and truncate on an inode; ByteSeq has the contents. *)
Write(i, bytes) == data' = [data EXCEPT ![i] = bytes] /\ UNCHANGED <<kind, ent>>
=============================================================================
