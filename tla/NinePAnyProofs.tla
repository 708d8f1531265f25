--------------------------- MODULE NinePAnyProofs ---------------------------
(***************************************************************************)
(* Theorems about the 9P server with a program that may ask for anything:  *)
(* for every set of names and requests, and every file system it finds.    *)
(***************************************************************************)
EXTENDS NinePAny, NinePServerProofs

(* While a request is handled the fid table is as it was when it arrived,  *)
(* up to the moment a file has been created, which can be undone.          *)
BeforeInd ==
  /\ req # Idle /\ srv \in {"idle", "walk", "open", "create"} => before = fidtab
  /\ srv = "created" => before = [fidtab EXCEPT ![req.fid] = Undone(@)]

Ind == ServerInd /\ BeforeInd /\ menu \in DOMAIN Menus

(* The server finds any file system.                                       *)
LEMMA InitInd ==
  ASSUME NEW k \in [Inodes -> {"free", "dir", "file"}],
         NEW e \in [Inodes -> [Names -> Inodes \cup {Nothing}]],
         NEW d \in [Inodes -> Seq(Byte)], Init(k, e, d)
  PROVE  Ind
<1>1. HostTypeOK
  BY DEF Init, HostTypeOK
<1>2. ServerTypeOK
  BY ServerAssumption DEF Init, ServerInit, ServerTypeOK
<1>3. RequestInd /\ HandleInd /\ BeforeInd
  BY DEF Init, ServerInit, LinkInit, RequestInd, HandleInd, BeforeInd, At, Known
<1> QED
  BY <1>1, <1>2, <1>3 DEF Ind, ServerInd, Init

(* A step of the server answers, or looks, or has created the file, or     *)
(* goes on with a request that can no longer be refused.                   *)
LEMMA StepShapes ==
  ASSUME ServerStep
  PROVE  \/ \E reply, limit : AnswerIn(reply, limit)
         \/ srv = "idle" /\ srv' # "created" /\ UNCHANGED <<fidtab, req>>
         \/ /\ srv = "create" /\ srv' = "created"
            /\ fidtab' = [fidtab EXCEPT ![req.fid] = Made(@)] /\ UNCHANGED req
         \/ srv' \in {"qid", "dir"}
<1>1. CASE rversion \/ rauth \/ rattach \/ userwalk \/ useropen \/ rcreated \/ rwrite
             \/ rclunk \/ rremove \/ rstat \/ wstat
  BY <1>1 DEF rversion, rauth, rattach, userwalk, useropen, rcreated, rwrite, rclunk, rremove,
              rstat, wstat, Refuse, Answer
<1>2. CASE rwalk \/ ropen \/ rcreate \/ rwstat
  BY <1>2 DEF rwalk, ropen, rcreate, rwstat, Look, link, Refuse, Answer, Asked
<1>3. CASE usercreate
  BY <1>3 DEF usercreate, link, Answer, AnswerIn
<1>4. CASE created
  BY <1>4 DEF created, link, Answer, AnswerIn
<1>5. CASE rread
  BY <1>5 DEF rread, ReadFile, ReadDir, link, Refuse, Answer
<1>6. CASE readdir
  BY <1>6 DEF readdir, DirTurn, DirDone, link, Answer, AnswerIn
<1> QED
  BY <1>1, <1>2, <1>3, <1>4, <1>5, <1>6 DEF ServerStep

(* To undo a creation gives the entry back.                                *)
LEMMA UndoneMade ==
  ASSUME ServerInd, srv = "create"
  PROVE  Undone(Made(fidtab[req.fid])) = fidtab[req.fid]
<1> DEFINE p == fidtab[req.fid]
<1>1. /\ req \in Requests /\ req.fid \in FidIds /\ req.type = "Tcreate"
      /\ Known(req.fid) /\ p.omode = Closed
  BY StepFields DEF ServerInd, RequestInd, At
<1>2. p \in FidRec /\ Matches(p) /\ p.path \in Paths
  BY <1>1, KnownFid DEF ServerInd, HandleInd, Path
<1>3. req.name \in Names
  BY <1>1, RequestFields
<1>4. p.fd = Nothing /\ p.dir = Nothing
  BY <1>1, <1>2 DEF Matches, Held
<1> HIDE DEF p
<1>5. Front(Append(p.path, req.name)) = p.path
  BY <1>2, <1>3, FrontOfAppend
<1> DEFINE path == Append(p.path, req.name)
           dir == IF req.isdir THEN NextInode ELSE Nothing
           fd == IF req.isdir THEN Nothing ELSE NextInode
           q == Made(p)
<1>6. q = [p EXCEPT !.path = path, !.dir = dir, !.fd = fd]
  BY DEF Made
<1>7. Undone(q) = [q EXCEPT !.path = Front(q.path), !.fd = Nothing, !.dir = Nothing]
  BY DEF Undone
<1> HIDE DEF path, dir, fd, q
<1>8. q.path = path
  BY <1>2, <1>6 DEF FidRec
<1>9. Front(q.path) = p.path
  BY <1>5, <1>8 DEF path
<1>10. [q EXCEPT !.path = p.path, !.fd = Nothing, !.dir = Nothing] = p
  BY <1>2, <1>4, <1>6 DEF FidRec
<1> QED
  BY <1>7, <1>9, <1>10 DEF p, q

(* So what was kept of the table is right after every step.                *)
LEMMA ServerBefore ==
  ASSUME Ind, ServerWithHistory
  PROVE  BeforeInd'
<1> USE DEF BeforeInd
<1>1. before' = IF req' = Idle THEN <<>> ELSE before
  BY DEF ServerWithHistory
<1>2. CASE \E reply, limit : AnswerIn(reply, limit)
  BY <1>2 DEF AnswerIn
<1>3. CASE srv = "idle" /\ srv' # "created" /\ UNCHANGED <<fidtab, req>>
  BY <1>1, <1>3 DEF Ind
<1>4. CASE /\ srv = "create" /\ srv' = "created"
           /\ fidtab' = [fidtab EXCEPT ![req.fid] = Made(@)] /\ UNCHANGED req
  <2> DEFINE f == req.fid
             q == Made(fidtab[f])
  <2>1. req # Idle /\ f \in FidIds /\ fidtab \in Table
    BY <1>4, StepFields, RequestFields DEF Ind, ServerInd, ServerTypeOK, Table
  <2>2. before = fidtab /\ before' = before
    BY <1>1, <1>4, <2>1 DEF Ind
  <2>3. Undone(q) = fidtab[f]
    BY <1>4, UndoneMade DEF Ind
  <2>4. fidtab' = [fidtab EXCEPT ![f] = q]
    BY <1>4
  <2> HIDE DEF q
  <2>5. [fidtab' EXCEPT ![f] = Undone(@)] = fidtab
    BY <2>1, <2>3, <2>4 DEF Table
  <2> QED
    BY <1>4, <2>2, <2>5
<1>5. CASE srv' \in {"qid", "dir"}
  BY <1>5
<1> QED
  BY <1>2, <1>3, <1>4, <1>5, StepShapes DEF ServerWithHistory

(* All of Ind is kept, whoever takes the step.                             *)
LEMMA NextInd ==
  ASSUME Ind, [Next]_vars
  PROVE  Ind'
<1>1. CASE Ask
  <2>1. UNCHANGED <<fsVars, srvVars, menu>> /\ req' \in Requests /\ before' = fidtab /\ srv = "idle"
    BY <1>1, RequestAssumption DEF Ask, Ind
  <2>2. HostTypeOK' /\ ServerTypeOK'
    BY <2>1 DEF Ind, ServerInd, HostTypeOK, ServerTypeOK, fsVars, srvVars
  <2>3. RequestInd'
    BY <2>1 DEF RequestInd, At, srvVars, Requests, Idle
  <2>4. HandleInd'
    BY <2>1 DEF Ind, ServerInd, HandleInd, Known, srvVars
  <2>5. BeforeInd'
    BY <2>1 DEF BeforeInd, srvVars
  <2> QED
    BY <2>1, <2>2, <2>3, <2>4, <2>5 DEF Ind, ServerInd
<1>2. CASE ServerWithHistory
  BY <1>2, ServerStepInd, ServerBefore DEF ServerWithHistory, Ind
<1>3. CASE Outside
  <2>1. PICK path : \/ CanUnlink(path) /\ Unlink(path)
                    \/ \E k \in {"dir", "file"} :
                         CanMake(Front(path), Last(path)) /\ Make(Front(path), Last(path), k)
    BY <1>3 DEF Outside
  <2>2. HostTypeOK'
    BY <2>1, UnlinkType, MakeType DEF Ind, ServerInd, CanMake
  <2>3. UNCHANGED <<srvVars, req, menu, before>>
    BY <1>3 DEF Outside, link
  <2>4. ServerTypeOK'
    BY <2>3 DEF Ind, ServerInd, ServerTypeOK, srvVars
  <2>5. RequestInd'
    BY <2>3 DEF Ind, ServerInd, RequestInd, At, Known, Path, srvVars
  <2>6. HandleInd' /\ BeforeInd'
    BY <2>3 DEF Ind, ServerInd, HandleInd, Known, BeforeInd, srvVars
  <2> QED
    BY <2>2, <2>3, <2>4, <2>5, <2>6 DEF Ind, ServerInd
<1>4. CASE UNCHANGED vars
  <2>1. UNCHANGED <<kind, ent, data, fidtab, msize, srv, seen, list, req, menu, before>>
    BY <1>4 DEF vars, fsVars, srvVars, link, histVars
  <2>2. HostTypeOK' /\ ServerTypeOK'
    BY <2>1 DEF Ind, ServerInd, HostTypeOK, ServerTypeOK
  <2>3. RequestInd'
    BY <2>1 DEF Ind, ServerInd, RequestInd, At, Known, Path
  <2>4. HandleInd' /\ BeforeInd'
    BY <2>1 DEF Ind, ServerInd, HandleInd, Known, BeforeInd
  <2> QED
    BY <2>1, <2>2, <2>3, <2>4 DEF Ind, ServerInd
<1> QED
  BY <1>1, <1>2, <1>3, <1>4 DEF Next

-----------------------------------------------------------------------------
(* A step that refuses changes the fid table back to what it was.          *)
LEMMA RefusedStep ==
  ASSUME Ind, ServerStep, rep' = Rerror, rep # Rerror,
         req.type \notin {"Tremove", "Twstat"}, srv # "qid"
  PROVE  fidtab' = before
<1> USE DEF Answer, AnswerIn, link, Rerror
<1>1. req # Idle
  <2>1. CASE srv # "idle"
    BY <2>1 DEF Ind, ServerInd, RequestInd
  <2>2. CASE srv = "idle"
    <3>1. \/ rversion \/ rauth \/ rattach \/ rwalk \/ ropen \/ rcreate \/ rread \/ rwrite
          \/ rclunk \/ rremove \/ rstat \/ rwstat
      BY <2>2 DEF ServerStep, userwalk, useropen, usercreate, created, rcreated, readdir, wstat
    <3>2. CASE rversion \/ rauth \/ rattach \/ rwalk \/ ropen \/ rcreate
      BY <3>2 DEF Idle, Asked, rversion, rauth, rattach, rwalk, ropen, rcreate
    <3>3. CASE rread \/ rwrite \/ rclunk \/ rremove \/ rstat \/ rwstat
      BY <3>3 DEF Idle, Asked, rread, rwrite, rclunk, rremove, rstat, rwstat
    <3> QED
      BY <3>1, <3>2, <3>3
  <2> QED
    BY <2>1, <2>2
<1>2. srv \in {"idle", "walk", "open", "create"} => before = fidtab
  BY <1>1 DEF Ind, BeforeInd
<1>3. CASE rversion \/ readdir \/ rcreated \/ rremove
  BY <1>3 DEF rversion, readdir, DirDone, DirTurn, rcreated, rremove, Asked
<1>4. CASE rauth \/ rattach \/ userwalk \/ useropen \/ rwrite \/ rclunk \/ rstat \/ rread
  BY <1>2, <1>4 DEF rauth, rattach, userwalk, useropen, rwrite, rclunk, rstat, rread, ReadFile,
                    ReadDir, Refuse, Asked
<1>5. CASE rwalk \/ ropen \/ rcreate
  BY <1>2, <1>5 DEF rwalk, ropen, rcreate, Look, Refuse, Asked
<1>6. CASE usercreate
  BY <1>2, <1>6 DEF usercreate
<1>7. CASE created
  BY <1>7 DEF created, Ind, BeforeInd
<1>8. CASE rwstat \/ wstat
  BY <1>8 DEF rwstat, wstat, Asked, Ind, ServerInd, RequestInd, At
<1> QED
  BY <1>3, <1>4, <1>5, <1>6, <1>7, <1>8 DEF ServerStep

(* What the theorems are about: the server and the program, on any file    *)
(* system.                                                                 *)
FileSystem(k, e, d) ==
  /\ k \in [Inodes -> {"free", "dir", "file"}]
  /\ e \in [Inodes -> [Names -> Inodes \cup {Nothing}]]
  /\ d \in [Inodes -> Seq(Byte)]
Behaviour(k, e, d) == Init(k, e, d) /\ [][Next]_vars

(* Ind is an invariant.                                                    *)
LEMMA AlwaysInd ==
  ASSUME NEW k, NEW e, NEW d, FileSystem(k, e, d)
  PROVE  Behaviour(k, e, d) => []Ind
<1>1. Init(k, e, d) => Ind
  BY InitInd DEF FileSystem
<1>2. Ind /\ [Next]_vars => Ind'
  BY NextInd
<1> QED
  BY <1>1, <1>2, PTL DEF Behaviour

(* The file system and the fid table keep their types, whatever is asked   *)
(* and in whatever order, and whatever other programs do meanwhile.        *)
THEOREM ServerTypes ==
  ASSUME NEW k, NEW e, NEW d, FileSystem(k, e, d)
  PROVE  Behaviour(k, e, d) => []TypeOK
<1>1. Ind => TypeOK
  BY DEF Ind, ServerInd, TypeOK
<1> QED
  BY <1>1, AlwaysInd, PTL

(* A fid is open exactly when it has a descriptor or a directory stream,   *)
(* and never both, whichever of useropen's and usercreate's calls fails.   *)
THEOREM FidsMatchHandles ==
  ASSUME NEW k, NEW e, NEW d, FileSystem(k, e, d)
  PROVE  Behaviour(k, e, d) => []HandleMatches
<1>1. Ind => HandleMatches
  BY DEF Ind, ServerInd, RequestInd, HandleInd, HandleMatches, Matches, OneHandle, Held
<1> QED
  BY <1>1, AlwaysInd, PTL

(* A request that is refused leaves the fid table as it found it, although *)
(* files come and go between the system calls of its handler.              *)
THEOREM RefusedFidsStay ==
  ASSUME NEW k, NEW e, NEW d, FileSystem(k, e, d)
  PROVE  Behaviour(k, e, d) => RefusalKeepsFids
<1> DEFINE Keeps == rep' = Rerror /\ rep # Rerror /\ req.type \notin {"Tremove", "Twstat"} /\ srv # "qid"
                      => fidtab' = before
<1>1. Ind /\ [Next]_vars => [Keeps]_vars
  <2> SUFFICES ASSUME Ind, Next PROVE Keeps
    OBVIOUS
  <2>1. CASE Ask
    BY <2>1 DEF Ask, Idle, Rerror
  <2>2. CASE ServerWithHistory
    BY <2>2, RefusedStep DEF ServerWithHistory
  <2>3. CASE Outside
    BY <2>3 DEF Outside, link
  <2> QED
    BY <2>1, <2>2, <2>3 DEF Next
<1> QED
  BY <1>1, AlwaysInd, PTL DEF Behaviour, RefusalKeepsFids
-----------------------------------------------------------------------------
(* Directory listings. *)

(* What is shown of a directory (s), the entry that waits (e) and what     *)
(* readdir has yet to return (t) are the listing L, cut into parts.        *)
Parts(s, e, t, L) ==
  /\ \A i, j \in DOMAIN s : s[i] = s[j] => i = j
  /\ \A n \in Names : n \in L <=> ((\E i \in DOMAIN s : s[i] = n) \/ n = e \/ n \in t)
  /\ e \notin t
  /\ \A i \in DOMAIN s : s[i] # e /\ s[i] \notin t

(* At first all is yet to come.                                            *)
LEMMA PartsFirst ==
  ASSUME NEW L \in SUBSET Names
  PROVE  Parts(<<>>, Nothing, L, L)
BY HostAssumption DEF Parts

(* readdir returns an entry.                                               *)
LEMMA PartsTake ==
  ASSUME NEW s \in Seq(Names), NEW t \in SUBSET Names, NEW L, NEW n \in t, Parts(s, Nothing, t, L)
  PROVE  Parts(s, n, t \ {n}, L)
<1>1. n \in Names /\ n # Nothing
  BY HostAssumption
<1>2. \A m \in Names : m # Nothing
  BY HostAssumption
<1>3. \A m \in Names : m \in L <=> ((\E i \in DOMAIN s : s[i] = m) \/ m = n \/ m \in t \ {n})
  BY <1>2 DEF Parts
<1>4. \A i \in DOMAIN s : s[i] # n /\ s[i] \notin t \ {n}
  BY DEF Parts
<1> QED
  BY <1>3, <1>4 DEF Parts

(* The entry is put in the buffer.                                         *)
LEMMA PartsShow ==
  ASSUME NEW s \in Seq(Names), NEW t \in SUBSET Names, NEW L, NEW n \in Names, Parts(s, n, t, L)
  PROVE  Parts(Append(s, n), Nothing, t, L)
<1> DEFINE r == Append(s, n)
           l == Len(s) + 1
<1>1. /\ r \in Seq(Names) /\ Len(s) \in Nat /\ DOMAIN r = 1..l /\ DOMAIN s = 1..Len(s) /\ r[l] = n
      /\ \A i \in 1..Len(s) : r[i] = s[i]
  OBVIOUS
<1>2. \A i \in 1..l : i = l \/ i \in 1..Len(s)
  BY <1>1
<1>3. l \in 1..l /\ \A i \in 1..Len(s) : i \in 1..l
  BY <1>1
<1>4. \A i \in 1..l : r[i] \in Names
  BY <1>1
<1> HIDE DEF r, l
<1>5. \A i, j \in DOMAIN r : r[i] = r[j] => i = j
  BY <1>1, <1>2 DEF Parts
<1>6. \A m \in Names : (\E i \in DOMAIN r : r[i] = m) <=> ((\E i \in DOMAIN s : s[i] = m) \/ m = n)
  BY <1>1, <1>2, <1>3
<1>7. \A i \in DOMAIN r : r[i] # Nothing /\ r[i] \notin t
  BY <1>1, <1>2, <1>4, HostAssumption DEF Parts
<1>8. Nothing \notin t
  BY HostAssumption
<1>9. \A m \in Names : m \in L <=> ((\E i \in DOMAIN r : r[i] = m) \/ m = Nothing \/ m \in t)
  BY <1>6, HostAssumption DEF Parts
<1> QED
  BY <1>5, <1>7, <1>8, <1>9 DEF Parts, r

(* When nothing is left the listing is whole, each name once.              *)
LEMMA PartsDone ==
  ASSUME NEW s \in Seq(Names), NEW L \in SUBSET Names, Parts(s, Nothing, {}, L)
  PROVE  ToSet(s) = L /\ Len(s) = Cardinality(L)
<1>1. Len(s) \in Nat /\ DOMAIN s = 1..Len(s) /\ \A i \in 1..Len(s) : s[i] \in Names
  OBVIOUS
<1>2. \A n \in Names : n \in L <=> \E i \in 1..Len(s) : s[i] = n
  BY <1>1, HostAssumption DEF Parts
<1>3. ToSet(s) = L
  BY <1>1, <1>2 DEF ToSet
<1>4. s \in Bijection(1..Len(s), L)
  <2>1. s \in [1..Len(s) -> L]
    BY <1>1, <1>2
  <2>2. \A i, j \in 1..Len(s) : s[i] = s[j] => i = j
    BY <1>1 DEF Parts
  <2>3. \A n \in L : \E i \in 1..Len(s) : s[i] = n
    BY <1>2
  <2> QED
    BY <2>1, <2>2, <2>3 DEF Bijection, Injection, Surjection, IsInjective
<1>5. Cardinality(L) = Len(s)
  BY <1>1, <1>4, FS_CountingElements DEF ExistsBijection
<1> QED
  BY <1>3, <1>5

-----------------------------------------------------------------------------
(* What the file system has to do with it. *)

(* An inode that is not in use has no entries.                             *)
FreeIsEmpty == \A i \in Inodes : kind[i] = "free" => Listing(i) = {}

(* What a step can do to names.                                            *)
HostStep ==
  \/ UNCHANGED <<kind, ent>>
  \/ \E dir \in Paths, name \in Names, k \in {"dir", "file"} : CanMake(dir, name) /\ Make(dir, name, k)
  \/ \E path : Unlink(path)
  \/ \E path \in Paths, name \in Names : CanRename(path, name) /\ Rename(path, name)

(* Directories stay directories, and unused inodes empty; when no entry    *)
(* has changed nothing has been made.                                      *)
Grows == /\ \A i \in Inodes : kind[i] = "dir" => kind'[i] = "dir"
         /\ ent' = ent => kind' = kind
         /\ \A i \in Inodes : kind'[i] = "free" => Listing(i)' = {}

(* A rename happens inside a directory.                                    *)
LEMMA RenamedInDir ==
  ASSUME HostTypeOK, NEW path \in Paths, Exists(path), path # <<>>
  PROVE  Stat(Front(path)) \in Inodes /\ kind[Stat(Front(path))] = "dir"
<1>1. Front(path) \in Paths /\ Last(path) \in Names \cup {Dot} /\ path = Append(Front(path), Last(path))
  BY DEF Paths, Front, Last
<1>2. Stat(path) = Enter(Stat(Front(path)), Last(path))
  BY <1>1, StatAppend
<1>3. Stat(Front(path)) \in Inodes \cup {Nothing}
  BY <1>1, StatType
<1> QED
  BY <1>2, <1>3 DEF Enter, Exists

(* No step takes a directory away.                                         *)
LEMMA HostGrows ==
  ASSUME HostTypeOK, FreeIsEmpty, HostStep
  PROVE  Grows
<1>1. CASE UNCHANGED <<kind, ent>>
  BY <1>1 DEF Grows, FreeIsEmpty, Listing
<1>2. ASSUME NEW dir \in Paths, NEW name \in Names, NEW k \in {"dir", "file"},
             CanMake(dir, name), Make(dir, name, k)
      PROVE  Grows
  <2> DEFINE d == Stat(dir)
             new == NextInode
  <2>1. d \in Inodes /\ kind[d] = "dir" /\ new \in Inodes /\ kind[new] = "free"
    BY <1>2, StatType DEF CanMake, IsDir, Exists, NextInode, Fresh
  <2>2. ent[d][name] = Nothing
    <3>1. dir \o <<name>> = Append(dir, name)
      BY DEF Paths
    <3>2. Enter(d, name) = Nothing
      BY <1>2, <3>1, StatAppend DEF CanMake, Exists
    <3> QED
      BY <2>1, <3>2, HostAssumption DEF Enter
  <2>3. kind' = [kind EXCEPT ![new] = k] /\ ent' = [ent EXCEPT ![d][name] = new]
    BY <1>2 DEF Make
  <2> HIDE DEF d, new
  <2>4. ent' # ent
    BY <2>1, <2>2, <2>3, HostAssumption DEF HostTypeOK
  <2>5. \A i \in Inodes : (kind[i] = "dir" => kind'[i] = "dir")
                          /\ (kind'[i] = "free" => kind[i] = "free" /\ ent'[i] = ent[i])
    BY <2>1, <2>3 DEF HostTypeOK
  <2> QED
    BY <2>4, <2>5 DEF Grows, FreeIsEmpty, Listing
<1>3. ASSUME NEW path, Unlink(path) PROVE Grows
  <2> DEFINE d == Stat(Front(path))
             l == Last(path)
  <2>1. UNCHANGED kind /\ ent' = [ent EXCEPT ![d][l] = Nothing]
    BY <1>3 DEF Unlink
  <2> HIDE DEF d, l
  <2>2. \A i \in Inodes, n \in Names : ent'[i][n] \in {ent[i][n], Nothing}
    BY <2>1 DEF HostTypeOK
  <2> QED
    BY <2>1, <2>2 DEF Grows, FreeIsEmpty, Listing
<1>4. ASSUME NEW path \in Paths, NEW name \in Names, CanRename(path, name), Rename(path, name)
      PROVE  Grows
  <2> DEFINE d == Stat(Front(path))
  <2>1. d \in Inodes /\ kind[d] = "dir"
    BY <1>4, RenamedInDir DEF CanRename, Proper
  <2>2. UNCHANGED kind /\ \A i \in Inodes \ {d} : ent'[i] = ent[i]
    BY <1>4 DEF Rename, HostTypeOK
  <2> HIDE DEF d
  <2> QED
    BY <2>1, <2>2 DEF Grows, FreeIsEmpty, Listing
<1> QED
  BY <1>1, <1>2, <1>3, <1>4 DEF HostStep

(* Every step of the server does one of these things.                      *)
LEMMA ServerHost ==
  ASSUME ServerInd, ServerStep
  PROVE  HostStep
<1>1. CASE rversion \/ rauth \/ rattach \/ rwalk \/ userwalk \/ ropen \/ rcreate \/ created \/ rcreated
             \/ rread \/ readdir \/ rstat \/ rwstat
  BY <1>1 DEF rversion, rauth, rattach, rwalk, userwalk, ropen, rcreate, created, rcreated, rread,
              readdir, rstat, rwstat, fsVars, HostStep
<1>2. CASE useropen \/ rwrite
  BY <1>2 DEF useropen, OpenDir, OpenFile, rwrite, Write, fsVars, HostStep
<1>3. CASE usercreate
  <2>1. srv = "create" /\ req \in Requests /\ req.fid \in FidIds /\ req.type = "Tcreate" /\ Known(req.fid)
    BY <1>3, StepFields DEF usercreate, ServerInd, RequestInd, At
  <2>2. Path(req.fid) \in Paths /\ req.name \in Names
    BY <2>1, KnownFid, RequestFields DEF ServerInd
  <2> QED
    BY <1>3, <2>2 DEF usercreate, fsVars, HostStep
<1>4. CASE rclunk \/ rremove
  BY <1>4 DEF rclunk, rremove, fsVars, HostStep
<1>5. CASE wstat
  <2>1. srv = "wstat" /\ req \in Requests /\ req.fid \in FidIds /\ req.type = "Twstat" /\ Known(req.fid)
    BY <1>5, StepFields DEF wstat, ServerInd, RequestInd, At
  <2>2. Path(req.fid) \in Paths /\ req.name \in Names \cup {Nothing}
    BY <2>1, KnownFid, RequestFields DEF ServerInd
  <2> QED
    BY <1>5, <2>2 DEF wstat, WstatTruncate, WstatRename, Write, fsVars, HostStep
<1> QED
  BY <1>1, <1>2, <1>3, <1>4, <1>5 DEF ServerStep
-----------------------------------------------------------------------------
(* The invariant. *)

(* A fid of which nothing has been read.                                   *)
NoListing(p) == ~p.direof /\ p.todo = {} /\ p.dirent = Nothing /\ p.diroffset = 0

(* What will have been shown when the read under way is answered.          *)
InRead(f) == srv = "dir" /\ req.fid = f
Got(f) == IF InRead(f) THEN (IF fidtab[f].diroffset = 0 THEN <<>> ELSE shown[f]) \o list
          ELSE shown[f]

FidListing(f) ==
  LET p == fidtab[f]
  IN  /\ p.dir = Nothing \/ p.omode = Closed => NoListing(p)
      /\ p.dir # Nothing =>
           /\ kind[p.dir] = "dir"
           /\ p.direof => p.todo = {} /\ p.dirent = Nothing /\ ~InRead(f)
           /\ p.diroffset = 0 /\ ~InRead(f) => shown[f] = <<>>
           /\ steady[f] => Stat(p.path) = p.dir /\ Parts(Got(f), p.dirent, p.todo, Listing(p.dir))

ListingInd ==
  /\ shown \in [FidIds -> Seq(Names)] /\ steady \in [FidIds -> BOOLEAN]
  /\ \A f \in FidIds : ~HasStream(f) => shown[f] = <<>>
  /\ \A f \in FidIds : Known(f) => FidListing(f)
  /\ srv # "dir" => list = <<>>
  /\ srv = "dir" => HasStream(req.fid)
  /\ FreeIsEmpty

(* FidListing of the next state, in the values it has there.               *)
LEMMA FidPrimed ==
  ASSUME NEW f, NEW p, p = fidtab'[f], NEW got, got = Got(f)', NEW i, i = Stat(fidtab[f].path)',
         NEW L, L = Listing(fidtab[f].dir)',
         p.dir = Nothing \/ p.omode = Closed => NoListing(p),
         p.dir # Nothing =>
           /\ kind'[p.dir] = "dir"
           /\ p.direof => p.todo = {} /\ p.dirent = Nothing /\ ~InRead(f)'
           /\ p.diroffset = 0 /\ ~InRead(f)' => shown'[f] = <<>>
           /\ steady'[f] => i = p.dir /\ Parts(got, p.dirent, p.todo, L)
  PROVE  FidListing(f)'
BY DEF FidListing, NoListing, Parts

(* Where the path of a fid leads, when neither it nor the files change.    *)
LEMMA SameStat ==
  ASSUME NEW f, UNCHANGED <<kind, ent>>, fidtab'[f].path = fidtab[f].path
  PROVE  Stat(fidtab[f].path)' = Stat(fidtab[f].path)
BY DEF Stat, Enter, FoldLeft, MapThenFoldSet

(* And when it is given another path.                                      *)
LEMMA NextStat ==
  ASSUME NEW f, NEW path, fidtab'[f].path = path
  PROVE  Stat(fidtab[f].path)' = Stat(path)'
BY DEF Stat, Enter, FoldLeft, MapThenFoldSet

(* What holds of every step of the server.                                 *)
LEMMA ListingFrame ==
  ASSUME Ind, ListingInd, ServerWithHistory,
         \A f \in FidIds : Known(f)' => FidListing(f)',
         srv' # "dir" => list' = <<>>, srv' = "dir" => HasStream(req.fid)'
  PROVE  ListingInd'
<1>1. list \in Seq(Names) /\ HostTypeOK /\ ServerInd /\ ServerStep
  BY DEF Ind, ServerInd, ServerTypeOK, ServerWithHistory
<1>2. FreeIsEmpty'
  <2>1. Grows
    BY <1>1, ServerHost, HostGrows DEF ListingInd
  <2> QED
    BY <2>1 DEF Grows, FreeIsEmpty
<1>3. shown' \in [FidIds -> Seq(Names)] /\ \A f \in FidIds : ~HasStream(f)' => shown'[f] = <<>>
  <2>1. ASSUME NEW f \in FidIds
        PROVE  (CASE ~HasStream(f)' -> <<>>
                  [] HasStream(f)' /\ ReadAnswered /\ f = req.fid ->
                       IF lost' # "no" THEN <<>>
                       ELSE IF fidtab[f].diroffset = 0 THEN list ELSE shown[f] \o list
                  [] OTHER -> shown[f]) \in Seq(Names)
    BY <1>1 DEF ListingInd
  <2>2. shown' = [f \in FidIds |->
                   CASE ~HasStream(f)' -> <<>>
                     [] HasStream(f)' /\ ReadAnswered /\ f = req.fid ->
                          IF lost' # "no" THEN <<>>
                          ELSE IF fidtab[f].diroffset = 0 THEN list ELSE shown[f] \o list
                     [] OTHER -> shown[f]]
    BY DEF ServerWithHistory
  <2> QED
    BY <2>1, <2>2
<1>4. steady' \in [FidIds -> BOOLEAN]
  <2>1. ASSUME NEW f \in FidIds
        PROVE  (CASE ~HasStream(f)' \/ ~HasStream(f) -> TRUE
                  [] HasStream(f) /\ HasStream(f)' /\ ent' # ent -> FALSE
                  [] /\ HasStream(f) /\ HasStream(f)' /\ ent' = ent
                     /\ ReadAnswered /\ f = req.fid /\ lost' # "no" -> FALSE
                  [] HasStream(f) /\ HasStream(f)' /\ ent' = ent /\ Rewinding /\ f = req.fid ->
                       fidtab[f].dirent = Nothing /\ Stat(Path(f)) = fidtab[f].dir
                  [] OTHER -> steady[f]) \in BOOLEAN
    BY DEF ListingInd
  <2>2. steady' = [f \in FidIds |->
                   CASE ~HasStream(f)' \/ ~HasStream(f) -> TRUE
                     [] HasStream(f) /\ HasStream(f)' /\ ent' # ent -> FALSE
                     [] /\ HasStream(f) /\ HasStream(f)' /\ ent' = ent
                        /\ ReadAnswered /\ f = req.fid /\ lost' # "no" -> FALSE
                     [] HasStream(f) /\ HasStream(f)' /\ ent' = ent /\ Rewinding /\ f = req.fid ->
                          fidtab[f].dirent = Nothing /\ Stat(Path(f)) = fidtab[f].dir
                     [] OTHER -> steady[f]]
    BY DEF ServerWithHistory
  <2> QED
    BY <2>1, <2>2
<1> QED
  BY <1>2, <1>3, <1>4 DEF ListingInd

(* The histories of a fid whose stream stays and that is not being read.   *)
LEMMA QuietHistory ==
  ASSUME ServerWithHistory, NEW f \in FidIds, HasStream(f), HasStream(f)',
         ~(ReadAnswered /\ f = req.fid), ~(Rewinding /\ f = req.fid)
  PROVE  shown'[f] = shown[f] /\ (steady'[f] => steady[f] /\ ent' = ent)
BY DEF ServerWithHistory

(* A fid that stays as it is, but perhaps for its mode, or for its name    *)
(* when names change.                                                      *)
SameStream(f) ==
  LET p == fidtab[f]
      q == fidtab'[f]
  IN  /\ Known(f) /\ Known(f)'
      /\ q.dir = p.dir /\ q.todo = p.todo /\ q.dirent = p.dirent
      /\ q.diroffset = p.diroffset /\ q.direof = p.direof
      /\ q.omode = Closed => p.omode = Closed
      /\ ent' = ent => q.path = p.path

(* Or has nothing to do with directories.                                  *)
NoStream(q) == q.dir = Nothing /\ NoListing(q)

(* Such fids keep the invariant.                                           *)
LEMMA QuietFid ==
  ASSUME Ind, ListingInd, ServerWithHistory, NEW f \in FidIds, Known(f)',
         SameStream(f) \/ NoStream(fidtab'[f]), ~InRead(f), ~InRead(f)',
         ~(Rewinding /\ f = req.fid)
  PROVE  FidListing(f)'
<1>1. Grows
  BY ServerHost, HostGrows DEF Ind, ServerInd, ListingInd, ServerWithHistory
<1>2. PICK q : q = fidtab'[f]
  OBVIOUS
<1>3. PICK got, i, L : got = Got(f)' /\ i = Stat(fidtab[f].path)' /\ L = Listing(fidtab[f].dir)'
  OBVIOUS
<1>4. CASE NoStream(q)
  BY <1>2, <1>3, <1>4, FidPrimed DEF NoStream
<1>5. CASE SameStream(f)
  <2> DEFINE p == fidtab[f]
  <2>1. p \in FidRec /\ FidListing(f)
    BY <1>5, KnownFid DEF Ind, ServerInd, ListingInd, SameStream
  <2>2. /\ q.dir = p.dir /\ q.todo = p.todo /\ q.dirent = p.dirent
        /\ q.diroffset = p.diroffset /\ q.direof = p.direof
        /\ q.omode = Closed => p.omode = Closed
        /\ ent' = ent => q.path = p.path
    BY <1>2, <1>5 DEF SameStream
  <2>3. q.dir = Nothing \/ q.omode = Closed => NoListing(q)
    BY <2>1, <2>2 DEF FidListing, NoListing
  <2>4. ASSUME q.dir # Nothing
        PROVE  /\ kind'[q.dir] = "dir"
               /\ q.direof => q.todo = {} /\ q.dirent = Nothing /\ ~InRead(f)'
               /\ q.diroffset = 0 /\ ~InRead(f)' => shown'[f] = <<>>
               /\ steady'[f] => i = q.dir /\ Parts(got, q.dirent, q.todo, L)
    <3>1. HasStream(f) /\ HasStream(f)'
      BY <1>2, <1>5, <2>2, <2>4 DEF HasStream, SameStream
    <3>2. shown'[f] = shown[f] /\ (steady'[f] => steady[f] /\ ent' = ent)
      BY <3>1, QuietHistory DEF ReadAnswered, InRead
    <3>3. p.dir \in Inodes
      BY <2>1, <2>2, <2>4, FidFields
    <3>4. kind'[q.dir] = "dir"
      BY <1>1, <2>1, <2>2, <2>4, <3>3 DEF FidListing, Grows
    <3>5. q.direof => q.todo = {} /\ q.dirent = Nothing
      BY <2>1, <2>2, <2>4 DEF FidListing
    <3>6. q.diroffset = 0 => shown'[f] = <<>>
      BY <2>1, <2>2, <2>4, <3>2 DEF FidListing
    <3>7. ASSUME steady'[f] PROVE i = q.dir /\ Parts(got, q.dirent, q.todo, L)
      <4>1. steady[f] /\ ent' = ent /\ kind' = kind /\ q.path = p.path
        BY <1>1, <2>2, <3>2, <3>7 DEF Grows
      <4>2. Stat(p.path) = p.dir /\ Parts(Got(f), p.dirent, p.todo, Listing(p.dir))
        BY <2>1, <2>2, <2>4, <4>1 DEF FidListing
      <4>3. i = Stat(p.path)
        BY <1>2, <1>3, <4>1, SameStat
      <4>4. L = Listing(p.dir)
        BY <1>2, <1>3, <2>2, <4>1 DEF Listing
      <4>5. got = Got(f)
        BY <1>3, <3>2 DEF Got
      <4> HIDE DEF p
      <4> QED
        BY <2>2, <4>2, <4>3, <4>4, <4>5
    <3> QED
      BY <3>4, <3>5, <3>6, <3>7
  <2> QED
    BY <1>2, <1>3, <2>3, <2>4, FidPrimed
<1> QED
  BY <1>2, <1>4, <1>5

(* The fids that a step has nothing to do with.                            *)
LEMMA OtherFid ==
  ASSUME Ind, ListingInd, ServerWithHistory, NEW f \in FidIds, f # req.fid,
         req' = req \/ srv' # "dir", fidtab'[f] = fidtab[f], Known(f)'
  PROVE  FidListing(f)'
<1>1. ~InRead(f) /\ ~InRead(f)'
  BY DEF InRead
<1>2. SameStream(f)
  BY DEF SameStream, Known
<1> QED
  BY <1>1, <1>2, QuietFid

-----------------------------------------------------------------------------
(* Steps that show nothing. *)

(* A step that changes no fid, or one that has no stream or keeps it.      *)
LEMMA PlainChange ==
  ASSUME Ind, ListingInd, ServerWithHistory, srv # "dir", srv' # "dir", list' = <<>>,
         \A f \in FidIds : Known(f)' => SameStream(f) \/ NoStream(fidtab'[f])
  PROVE  ListingInd'
<1>1. \A f \in FidIds : ~InRead(f) /\ ~InRead(f)' /\ ~Rewinding
  BY DEF InRead, Rewinding
<1>2. \A f \in FidIds : Known(f)' => FidListing(f)'
  BY <1>1, QuietFid
<1> QED
  BY <1>2, ListingFrame

(* Nothing changes in the table.                                           *)
LEMMA PlainKept ==
  ASSUME Ind, ListingInd, ServerWithHistory, srv # "dir", srv' # "dir",
         list' = <<>> \/ UNCHANGED list, UNCHANGED fidtab
  PROVE  ListingInd'
<1>1. \A f \in FidIds : Known(f)' => SameStream(f)
  BY DEF SameStream, Known
<1>2. list' = <<>>
  BY DEF ListingInd
<1> QED
  BY <1>1, <1>2, PlainChange

(* One entry changes.                                                      *)
LEMMA PlainEntry ==
  ASSUME Ind, ListingInd, ServerWithHistory, srv # "dir", srv' # "dir",
         list' = <<>> \/ UNCHANGED list,
         NEW g \in FidIds, NEW q \in FidRec \cup {NoFid}, fidtab' = [fidtab EXCEPT ![g] = q],
         q = NoFid \/ NoStream(q) \/ SameStream(g)
  PROVE  ListingInd'
<1>1. fidtab'[g] = q /\ \A f \in FidIds \ {g} : fidtab'[f] = fidtab[f]
  BY UpdatedTable DEF Ind, ServerInd
<1>2. ASSUME NEW f \in FidIds, Known(f)' PROVE SameStream(f) \/ NoStream(fidtab'[f])
  <2>1. CASE f = g
    BY <1>1, <1>2, <2>1 DEF Known
  <2>2. CASE f # g
    BY <1>1, <1>2, <2>2 DEF SameStream, Known
  <2> QED
    BY <2>1, <2>2
<1>3. list' = <<>>
  BY DEF ListingInd
<1> QED
  BY <1>2, <1>3, PlainChange

(* A fid just made has no stream.                                          *)
LEMMA NewFidPlain ==
  ASSUME NEW path
  PROVE  NoStream(NewFid(path))
BY DEF NoStream, NoListing, NewFid

(* A fid that is not open has none either.                                 *)
LEMMA ClosedFid ==
  ASSUME Ind, ListingInd, NEW f \in FidIds, Known(f), fidtab[f].omode = Closed
  PROVE  NoListing(fidtab[f]) /\ (srv # "created" \/ req.fid # f => NoStream(fidtab[f]) /\ ~HasStream(f))
<1>1. FidListing(f)
  BY DEF ListingInd
<1>2. NoListing(fidtab[f])
  BY <1>1 DEF FidListing
<1>3. srv # "created" \/ req.fid # f => fidtab[f].dir = Nothing
  BY DEF Ind, ServerInd, HandleInd, Matches, Held
<1> QED
  BY <1>2, <1>3 DEF NoStream, HasStream

(* Handlers that change nothing in the table.                              *)
LEMMA LooksPlain ==
  ASSUME Ind, ListingInd, ServerWithHistory,
         rversion \/ rauth \/ rwalk \/ ropen \/ rcreate \/ rcreated \/ rwrite \/ rstat \/ rwstat
  PROVE  ListingInd'
<1>1. /\ srv # "dir" /\ srv' # "dir" /\ UNCHANGED fidtab
      /\ list' = <<>> \/ UNCHANGED list
  BY DEF rversion, rauth, rwalk, ropen, rcreate, rcreated, rwrite, rstat, rwstat, Asked, Refuse,
         Answer, AnswerIn, Look, link
<1> QED
  BY <1>1, PlainKept

(* Handlers that make a fid, rename it or give it back.                    *)
LEMMA NamesPlain ==
  ASSUME Ind, ListingInd, ServerWithHistory, rattach \/ userwalk \/ rclunk \/ rremove
  PROVE  ListingInd'
<1>1. /\ srv # "dir" /\ srv' # "dir" /\ list' = <<>>
  BY DEF rattach, userwalk, rclunk, rremove, Asked, Refuse, Answer, AnswerIn
<1>2. CASE UNCHANGED fidtab
  BY <1>1, <1>2, PlainKept
<1>3. CASE rattach /\ fidtab' = [fidtab EXCEPT ![req.fid] = NewFid(<<>>)]
  <2>1. req.fid \in FidIds
    BY <1>3, AskedFields, RequestFields DEF rattach, Asked, Ind
  <2>2. <<>> \in Paths
    BY DEF Paths
  <2>3. NewFid(<<>>) \in FidRec /\ NoStream(NewFid(<<>>))
    BY <2>2, NewFidType, NewFidPlain
  <2> QED
    BY <1>1, <1>3, <2>1, <2>3, PlainEntry
<1>4. CASE (rclunk \/ rremove) /\ Free(req.fid)
  <2>1. req.fid \in FidIds
    BY <1>4, AskedFields, RequestFields DEF rclunk, rremove, Asked, Ind
  <2> QED
    BY <1>1, <1>4, <2>1, PlainEntry DEF Free
<1>5. CASE userwalk /\ ~UNCHANGED fidtab
  <2> DEFINE w == WalkFrom(Path(req.fid), req.wname)
             q == IF req.newfid = req.fid THEN [fidtab[req.newfid] EXCEPT !.path = w.path]
                  ELSE NewFid(w.path)
  <2>1. /\ srv = "walk" /\ req \in Requests /\ req.fid \in FidIds /\ req.type = "Twalk"
        /\ Known(req.fid) /\ fidtab[req.fid].omode = Closed
    BY <1>5, StepFields DEF userwalk, Ind, ServerInd, RequestInd, At
  <2>2. req.newfid \in FidIds /\ req.wname \in Seq(Names \cup {Dot, DotDot})
    BY <2>1, RequestFields
  <2>3. fidtab[req.fid] \in FidRec /\ w.path \in Paths /\ NoStream(fidtab[req.fid])
    BY <2>1, <2>2, KnownFid, WalkType, ClosedFid DEF Ind, ServerInd, Walked
  <2>4. fidtab' = [fidtab EXCEPT ![req.newfid] = q]
    BY <1>5 DEF userwalk
  <2>5. q \in FidRec /\ NoStream(q)
    <3> HIDE DEF w
    <3>1. CASE req.newfid = req.fid
      <4> DEFINE p == fidtab[req.fid]
                 path == w.path
      <4>1. q = [p EXCEPT !.path = path]
        BY <3>1
      <4> HIDE DEF p, path, q
      <4>2. p \in FidRec /\ path \in Paths /\ NoStream(p)
        BY <2>3 DEF p, path
      <4> QED
        BY <4>1, <4>2, RenamedFid DEF NoStream, NoListing, FidRec
    <3>2. CASE req.newfid # req.fid
      BY <2>3, <3>2, NewFidType, NewFidPlain
    <3> QED
      BY <3>1, <3>2
  <2> HIDE DEF q
  <2> QED
    BY <1>1, <2>2, <2>4, <2>5, PlainEntry
<1> QED
  BY <1>2, <1>3, <1>4, <1>5 DEF rattach, rclunk, rremove, Refuse

(* The file created is opened, or undone with its stream.                  *)
LEMMA CreatedPlain ==
  ASSUME Ind, ListingInd, ServerWithHistory, created
  PROVE  ListingInd'
<1>0. PICK f : f = req.fid
  OBVIOUS
<1> DEFINE p == fidtab[f]
<1>1. /\ srv = "created" /\ req \in Requests /\ f \in FidIds /\ req.type = "Tcreate"
      /\ Known(f) /\ p.omode = Closed /\ Path(f) # <<>>
  BY <1>0, StepFields DEF created, Ind, ServerInd, RequestInd, At
<1>2. p \in FidRec /\ p.path \in Paths /\ p.path # <<>> /\ NoListing(p)
  BY <1>1, KnownFid, ClosedFid DEF Ind, ServerInd, Path
<1>3. srv # "dir" /\ srv' # "dir" /\ (list' = <<>> \/ UNCHANGED list)
  BY <1>1 DEF created, Answer, AnswerIn, link
<1>4. CASE fidtab' = [fidtab EXCEPT ![f] = Opened(f, @)]
  <2> DEFINE q == Opened(f, p)
  <2>1. /\ q \in FidRec /\ q.omode # Closed /\ q.path = p.path /\ q.dir = p.dir /\ q.todo = p.todo
        /\ q.dirent = p.dirent /\ q.diroffset = p.diroffset /\ q.direof = p.direof
    <3>1. req.mode \in Modes /\ req.rclose \in BOOLEAN
      BY <1>1, RequestFields
    <3> HIDE DEF p
    <3> QED
      BY <1>2, <3>1, OpenedFid DEF Opened, FidRec
  <2>2. fidtab' = [fidtab EXCEPT ![f] = q]
    BY <1>4
  <2> HIDE DEF q
  <2>3. fidtab'[f] = q /\ Known(f)'
    <3>1. fidtab'[f] = q
      BY <1>1, <2>1, <2>2, UpdatedTable DEF Ind, ServerInd
    <3> QED
      BY <2>1, <3>1, ServerAssumption DEF Known
  <2>4. SameStream(f)
    BY <1>1, <2>1, <2>3 DEF SameStream
  <2> QED
    BY <1>1, <1>3, <2>1, <2>2, <2>4, PlainEntry
<1>5. CASE fidtab' = [fidtab EXCEPT ![f] = Undone(@)]
  <2> DEFINE q == Undone(p)
  <2>1. q \in FidRec /\ NoStream(q)
    <3>1. Front(p.path) \in Paths
      BY <1>2, FrontType
    <3> HIDE DEF p
    <3> QED
      BY <1>2, <3>1 DEF Undone, FidRec, Paths, NoStream, NoListing
  <2>2. fidtab' = [fidtab EXCEPT ![f] = q]
    BY <1>5
  <2> HIDE DEF q
  <2> QED
    BY <1>1, <1>3, <2>1, <2>2, PlainEntry
<1> QED
  BY <1>0, <1>4, <1>5 DEF created

(* wstat gives its fid the name that it has, or changes names.             *)
LEMMA WstatPlain ==
  ASSUME Ind, ListingInd, ServerWithHistory, wstat
  PROVE  ListingInd'
<1>0. PICK f : f = req.fid
  OBVIOUS
<1> DEFINE p == fidtab[f]
           path == Front(p.path) \o <<req.name>>
<1>1. /\ srv = "wstat" /\ f \in FidIds /\ Known(f) /\ p.path # <<>>
      /\ req.name \in Names \cup {Nothing}
  BY <1>0, StepFields, RequestFields DEF wstat, Ind, ServerInd, RequestInd, At, Path
<1>2. p \in FidRec /\ p.path \in Paths /\ Path(f) = p.path
  BY <1>1, KnownFid DEF Ind, ServerInd, Path
<1>3. srv # "dir" /\ srv' # "dir" /\ list' = <<>>
  BY <1>1 DEF wstat, Answer, AnswerIn
<1>4. CASE UNCHANGED fidtab
  BY <1>3, <1>4, PlainKept
<1>5. CASE req.name # Nothing /\ WstatRename(f)
  <2> DEFINE q == [p EXCEPT !.path = path]
  <2>1. path \in Paths /\ (req.name = Last(p.path) => path = p.path)
    <3>1. req.name \in Names
      BY <1>1, <1>5
    <3> HIDE DEF p
    <3> QED
      BY <1>1, <1>2, <3>1 DEF Paths, Front, Last
  <2>2. fidtab' = [fidtab EXCEPT ![f] = q]
    BY <1>5 DEF WstatRename
  <2>3. req.name = Last(p.path) \/ (CanRename(p.path, req.name) /\ Rename(p.path, req.name))
    BY <1>2, <1>5 DEF WstatRename
  <2>4. req.name # Last(p.path) => ent' # ent
    <3> DEFINE d == Stat(Front(p.path))
               l == Last(p.path)
    <3> SUFFICES ASSUME req.name # l PROVE ent' # ent
      OBVIOUS
    <3>1. Exists(p.path) /\ Proper(p.path) /\ Rename(p.path, req.name)
      BY <2>3 DEF CanRename
    <3>2. d \in Inodes /\ kind[d] = "dir"
      BY <1>1, <1>2, <3>1, RenamedInDir DEF Ind, ServerInd
    <3>3. l \in Names \cup {Dot} /\ l # Dot /\ p.path = Append(Front(p.path), l)
          /\ Front(p.path) \in Paths
      <4>1. l # Dot
        BY <3>1 DEF Proper
      <4> HIDE DEF p
      <4> QED
        BY <1>1, <1>2, <4>1 DEF Paths, Front, Last
    <3>4. ent[d][l] # Nothing
      <4> HIDE DEF p, l
      <4>1. Stat(p.path) = Enter(d, l)
        BY <3>3, StatAppend DEF Ind, ServerInd
      <4> QED
        BY <3>1, <3>2, <3>3, <4>1 DEF Exists, Enter
    <3>5. ent'[d] = [ent[d] EXCEPT ![l] = Nothing, ![req.name] = Stat(p.path)]
      <4> HIDE DEF d, l, p
      <4> QED
        BY <3>1, <3>2 DEF Rename, Ind, ServerInd, HostTypeOK, d, l
    <3> HIDE DEF d, l, p
    <3>6. ent'[d][l] = Nothing
      BY <3>2, <3>3, <3>5 DEF Ind, ServerInd, HostTypeOK
    <3> QED
      BY <3>4, <3>6
  <2> HIDE DEF path, p
  <2>5. /\ q \in FidRec /\ q.path = path /\ q.dir = p.dir /\ q.todo = p.todo /\ q.dirent = p.dirent
        /\ q.diroffset = p.diroffset /\ q.direof = p.direof /\ q.omode = p.omode
    BY <1>2, <2>1 DEF FidRec, Paths
  <2> HIDE DEF q
  <2>6. fidtab'[f] = q /\ Known(f)'
    <3>1. fidtab'[f] = q
      BY <1>1, <2>2, <2>5, UpdatedTable DEF Ind, ServerInd
    <3> QED
      BY <2>5, <3>1, ServerAssumption DEF Known
  <2>7. SameStream(f)
    BY <1>1, <2>1, <2>4, <2>5, <2>6 DEF SameStream, p
  <2> QED
    BY <1>1, <1>3, <2>2, <2>5, <2>7, PlainEntry
<1> QED
  BY <1>0, <1>4, <1>5 DEF wstat

-----------------------------------------------------------------------------
(* Steps that open a stream. *)

(* A fid that gets a stream begins with the whole listing.                 *)
LEMMA NewStream ==
  ASSUME Ind, ListingInd, ServerWithHistory, srv # "dir", srv' # "dir",
         list' = <<>> \/ UNCHANGED list,
         NEW f \in FidIds, f = req.fid, Known(f), ~HasStream(f), NEW q \in FidRec,
         fidtab' = [fidtab EXCEPT ![f] = q],
         ~q.direof, q.dirent = Nothing, q.diroffset = 0, q.omode = Closed => q.todo = {},
         q.dir \in Inodes, kind'[q.dir] = "dir", Stat(fidtab[f].path)' = q.dir,
         q.todo = Listing(fidtab[f].dir)'
  PROVE  ListingInd'
<1>1. fidtab'[f] = q /\ \A g \in FidIds \ {f} : fidtab'[g] = fidtab[g]
  BY UpdatedTable DEF Ind, ServerInd
<1>2. HasStream(f)'
  BY <1>1, ServerAssumption, HostAssumption DEF HasStream, Known
<1>3. shown'[f] = <<>>
  <2>1. shown'[f] = shown[f]
    BY <1>2 DEF ServerWithHistory, ReadAnswered
  <2> QED
    BY <2>1 DEF ListingInd
<1>4. PICK L : L = Listing(fidtab[f].dir)'
  OBVIOUS
<1>5. FidListing(f)'
  <2>1. ~InRead(f)' /\ Got(f)' = <<>>
    BY <1>3 DEF InRead, Got
  <2>2. q.todo \in SUBSET Names
    BY FidFields
  <2>3. Parts(<<>>, q.dirent, q.todo, L)
    BY <1>4, <2>2, PartsFirst
  <2>4. q.dir # Nothing
    BY HostAssumption
  <2>5. q.omode = Closed => NoListing(q)
    BY DEF NoListing
  <2> QED
    BY <1>1, <1>3, <1>4, <2>1, <2>3, <2>4, <2>5, FidPrimed
<1>6. ASSUME NEW g \in FidIds, g # f, Known(g)' PROVE FidListing(g)'
  BY <1>1, <1>6, OtherFid
<1>7. list' = <<>>
  BY DEF ListingInd
<1> QED
  BY <1>5, <1>6, <1>7, ListingFrame

(* useropen opens a directory, or something else, or fails.                *)
LEMMA OpenListing ==
  ASSUME Ind, ListingInd, ServerWithHistory, useropen
  PROVE  ListingInd'
<1>0. PICK f : f = req.fid
  OBVIOUS
<1> DEFINE p == fidtab[f]
           o == Opened(f, p)
<1>1. /\ srv = "open" /\ req \in Requests /\ f \in FidIds /\ req.type = "Topen"
      /\ Known(f) /\ p.omode = Closed
  BY <1>0, StepFields DEF useropen, Ind, ServerInd, RequestInd, At
<1>2. p \in FidRec /\ p.path \in Paths /\ Path(f) = p.path /\ NoListing(p) /\ p.dir = Nothing /\ ~HasStream(f)
  BY <1>1, KnownFid, ClosedFid DEF Ind, ServerInd, Path, NoStream
<1>3. srv # "dir" /\ srv' # "dir" /\ list' = <<>>
  BY <1>1 DEF useropen, Answer, AnswerIn
<1>4. /\ o \in FidRec /\ o.omode # Closed /\ o.path = p.path /\ o.dir = p.dir /\ o.todo = p.todo
      /\ o.dirent = p.dirent /\ o.diroffset = p.diroffset /\ o.direof = p.direof
  <2>1. req.mode \in Modes /\ req.rclose \in BOOLEAN
    BY <1>1, RequestFields
  <2>2. p \in FidRec
    BY <1>2
  <2> HIDE DEF p
  <2> QED
    BY <2>1, <2>2, OpenedFid DEF Opened, FidRec
<1>5. CASE OpenDir(f)
  <2> DEFINE i == Stat(p.path)
             todo == Listing(i)
             q == [o EXCEPT !.dir = i, !.todo = todo]
  <2>1. i \in Inodes /\ kind[i] = "dir" /\ UNCHANGED <<kind, ent>> /\ todo \in SUBSET Names
    BY <1>2, <1>5, StatType DEF OpenDir, IsDir, Exists, Ind, ServerInd, fsVars, Listing
  <2>2. fidtab' = [fidtab EXCEPT ![f] = q]
    BY <1>2, <1>5 DEF OpenDir
  <2>3. q \in FidRec /\ q.path = p.path /\ q.dir = i /\ q.todo = todo /\ q.omode # Closed
        /\ q.dirent = p.dirent /\ q.diroffset = p.diroffset /\ q.direof = p.direof
    <3> HIDE DEF o, i, p, todo
    <3> QED
      BY <1>4, <2>1 DEF FidRec
  <2> HIDE DEF q
  <2>4. fidtab'[f] = q
    BY <1>1, <2>2, <2>3, UpdatedTable DEF Ind, ServerInd
  <2>5. Stat(fidtab[f].path)' = i
    BY <2>1, <2>3, <2>4, SameStat
  <2>6. Listing(fidtab[f].dir)' = todo
    BY <2>1, <2>3, <2>4 DEF Listing
  <2> HIDE DEF i, todo, o
  <2> QED
    BY <1>0, <1>1, <1>2, <1>3, <2>1, <2>2, <2>3, <2>5, <2>6, NewStream DEF NoListing
<1>6. CASE OpenFile(f)
  <2> DEFINE i == Stat(p.path)
             q == [o EXCEPT !.fd = i]
  <2>1. i \in Inodes
    BY <1>2, <1>6, StatType DEF OpenFile, Exists, Ind, ServerInd
  <2>2. fidtab' = [fidtab EXCEPT ![f] = q]
    BY <1>2, <1>6 DEF OpenFile
  <2>3. q \in FidRec /\ NoStream(q)
    <3> HIDE DEF o, i, p
    <3> QED
      BY <1>2, <1>4, <2>1 DEF FidRec, NoStream, NoListing
  <2> HIDE DEF q
  <2> QED
    BY <1>1, <1>3, <2>2, <2>3, PlainEntry
<1>7. CASE UNCHANGED fidtab
  BY <1>3, <1>7, PlainKept
<1> QED
  BY <1>0, <1>5, <1>6, <1>7 DEF useropen

(* Where a longer path leads, in the next state.                           *)
LEMMA StatAppendNext ==
  (\A path \in Paths, name \in Names \cup {Dot} :
     HostTypeOK => Stat(Append(path, name)) = Enter(Stat(path), name))'
<1>1. \A path \in Paths, name \in Names \cup {Dot} :
        HostTypeOK => Stat(Append(path, name)) = Enter(Stat(path), name)
  BY StatAppend
<1> QED
  BY <1>1, PTL

(* usercreate makes an empty directory, or a file, or fails.               *)
LEMMA CreateListing ==
  ASSUME Ind, Ind', ListingInd, ServerWithHistory, usercreate
  PROVE  ListingInd'
<1>0. PICK f, p, name, new, d :
        f = req.fid /\ p = fidtab[f] /\ name = req.name /\ new = NextInode /\ d = Stat(p.path)
  OBVIOUS
<1> DEFINE path == p.path
           longer == Append(path, name)
<1>1. /\ srv = "create" /\ req \in Requests /\ f \in FidIds /\ req.type = "Tcreate"
      /\ Known(f) /\ p.omode = Closed /\ name \in Names
  BY <1>0, StepFields, RequestFields DEF usercreate, Ind, ServerInd, RequestInd, At
<1>2. p \in FidRec /\ path \in Paths /\ Path(f) = path /\ NoListing(p) /\ p.dir = Nothing /\ ~HasStream(f)
  BY <1>0, <1>1, KnownFid, ClosedFid DEF Ind, ServerInd, Path, NoStream
<1>3. srv # "dir" /\ srv' # "dir" /\ (list' = <<>> \/ UNCHANGED list)
  BY <1>1 DEF usercreate, Answer, AnswerIn, link
<1>4. CASE UNCHANGED fidtab
  BY <1>3, <1>4, PlainKept
<1>5. CASE /\ CanMake(path, name)
           /\ Make(path, name, IF req.isdir THEN "dir" ELSE "file")
           /\ fidtab' = [fidtab EXCEPT ![f] = Made(@)]
  <2> DEFINE dir == IF req.isdir THEN new ELSE Nothing
             fd == IF req.isdir THEN Nothing ELSE new
             q == [p EXCEPT !.path = longer, !.dir = dir, !.fd = fd]
  <2>1. new \in Inodes /\ kind[new] = "free" /\ Listing(new) = {}
    <3>1. Fresh # {}
      BY <1>5 DEF CanMake
    <3> QED
      BY <1>0, <3>1 DEF NextInode, Fresh, ListingInd, FreeIsEmpty
  <2>2. fidtab' = [fidtab EXCEPT ![f] = q]
    BY <1>0, <1>5 DEF Made
  <2>3. longer \in Paths
    BY <1>1, <1>2 DEF Paths
  <2>4. /\ q \in FidRec /\ q.path = longer /\ q.omode = Closed /\ q.todo = {} /\ q.dirent = Nothing
        /\ q.diroffset = 0 /\ ~q.direof /\ q.dir = dir
    <3>1. dir \in Inodes \cup {Nothing} /\ fd \in Inodes \cup {Nothing}
      BY <2>1
    <3> HIDE DEF dir, fd, longer
    <3> QED
      BY <1>1, <1>2, <2>3, <3>1 DEF FidRec, Paths, NoListing
  <2> HIDE DEF q, longer
  <2>5. fidtab'[f] = q
    BY <1>1, <2>2, <2>4, UpdatedTable DEF Ind, ServerInd
  <2>6. CASE ~req.isdir
    <3>1. NoStream(q)
      BY <2>4, <2>6 DEF NoStream, NoListing
    <3> QED
      BY <1>1, <1>3, <2>2, <2>4, <3>1, PlainEntry
  <2>7. CASE req.isdir
    <3>1. kind' = [kind EXCEPT ![new] = "dir"] /\ ent' = [ent EXCEPT ![d][name] = new]
      BY <1>0, <1>5, <2>7 DEF Make
    <3>2. HostTypeOK /\ HostTypeOK'
      BY DEF Ind, ServerInd
    <3>3. d \in Inodes /\ kind[d] = "dir" /\ Exists(path)
      BY <1>0, <1>2, <1>5, <3>2, StatType DEF CanMake, IsDir, Exists
    <3>4. Stat(path)' = d
      BY <1>0, <1>1, <1>2, <1>5, <3>2, <3>3, MakeKeeps
    <3>5. name # Dot
      <4>1. path \o <<name>> = longer
        BY <1>1, <1>2 DEF Paths, longer
      <4>2. Enter(d, name) = Nothing
        BY <1>0, <1>1, <1>2, <1>5, <3>2, <4>1, StatAppend DEF CanMake, Exists, longer
      <4> QED
        BY <3>3, <4>2, HostAssumption DEF Enter
    <3>6. d # Nothing /\ kind'[d] = "dir" /\ kind'[new] = "dir" /\ ent'[d][name] = new /\ ent'[new] = ent[new]
      BY <1>1, <2>1, <3>1, <3>2, <3>3, HostAssumption DEF HostTypeOK
    <3>7. Stat(longer)' = new
      <4>1. Stat(longer)' = Enter(d, name)'
        BY <1>1, <1>2, <3>2, <3>4, StatAppendNext DEF longer
      <4> QED
        BY <3>5, <3>6, <4>1 DEF Enter
    <3>8. Stat(fidtab[f].path)' = new
      BY <2>4, <2>5, <3>7, NextStat
    <3>9. q.dir = new /\ Listing(fidtab[f].dir)' = {}
      BY <2>1, <2>4, <2>5, <2>7, <3>6 DEF Listing
    <3> HIDE DEF dir
    <3> QED
      BY <1>0, <1>1, <1>2, <1>3, <2>1, <2>2, <2>4, <3>6, <3>8, <3>9, NewStream
  <2> QED
    BY <2>6, <2>7
<1> QED
  BY <1>0, <1>2, <1>4, <1>5 DEF usercreate

-----------------------------------------------------------------------------
(* Reading a directory. *)

(* A read of a directory goes on, or begins at the start.                  *)
LEMMA BeginListing ==
  ASSUME Ind, ListingInd, ServerWithHistory, rread
  PROVE  ListingInd'
<1>0. PICK f, p : f = req.fid /\ p = fidtab[f]
  OBVIOUS
<1>1. srv = "idle" /\ req.type = "Tread" /\ f \in FidIds /\ UNCHANGED <<kind, ent>>
  BY <1>0, AskedFields, RequestFields DEF rread, Asked, Ind, fsVars
<1>2. list = <<>> /\ shown[f] \in Seq(Names)
  BY <1>1 DEF ListingInd
<1>3. CASE Refuse \/ ReadFile(f)
  BY <1>1, <1>3, PlainKept DEF Refuse, ReadFile, Answer, AnswerIn
<1>4. CASE CanRead(f) /\ ReadDir(f)
  <2> DEFINE q == IF req.offset = p.diroffset THEN p ELSE Rewound(p)
  <2>1. /\ Known(f) /\ p.omode # Closed /\ p.dir # Nothing /\ req.offset \in {0, p.diroffset}
        /\ fidtab' = [fidtab EXCEPT ![f] = q]
        /\ \/ q.direof /\ srv' = "idle" /\ list' = <<>>
           \/ ~q.direof /\ srv' = "dir" /\ UNCHANGED <<req, list>>
    BY <1>0, <1>4 DEF CanRead, ReadDir, Readable, Answer, AnswerIn, link
  <2>2. p \in FidRec /\ p.path \in Paths /\ Path(f) = p.path /\ HasStream(f)
    BY <1>0, <1>1, <2>1, KnownFid DEF Ind, ServerInd, Path, HasStream
  <2>3. FidListing(f) /\ p.dir \in Inodes /\ p.diroffset \in Nat
    BY <1>1, <2>1, <2>2, FidFields DEF ListingInd
  <2>4. Rewound(p) \in FidRec /\ Rewound(p).path = p.path /\ Rewound(p).dir = p.dir
        /\ Rewound(p).omode = p.omode /\ Rewound(p).todo = Listing(p.dir)
        /\ Rewound(p).dirent = p.dirent /\ Rewound(p).diroffset = 0 /\ ~Rewound(p).direof
    <3>1. Listing(p.dir) \in SUBSET Names
      BY DEF Listing
    <3> QED
      BY <2>2, <3>1 DEF Rewound, FidRec
  <2>5. q \in FidRec /\ q.path = p.path /\ q.dir = p.dir /\ q.omode = p.omode /\ q.dirent = p.dirent
    BY <2>2, <2>4
  <2>6. CASE q.direof /\ srv' = "idle" /\ list' = <<>>
    <3>1. q = p
      BY <2>4, <2>6
    <3>2. fidtab'[f] = p
      BY <1>1, <2>1, <2>2, <3>1, UpdatedTable DEF Ind, ServerInd
    <3>3. SameStream(f)
      BY <1>0, <2>1, <3>2 DEF SameStream, Known
    <3> HIDE DEF q
    <3> QED
      BY <1>1, <2>1, <2>2, <2>6, <3>1, <3>3, PlainEntry
  <2>7. CASE ~q.direof /\ srv' = "dir" /\ UNCHANGED <<req, list>>
    <3>1. fidtab'[f] = q /\ \A g \in FidIds \ {f} : fidtab'[g] = fidtab[g]
      <4> HIDE DEF q
      <4> QED
        BY <1>1, <2>1, <2>5, UpdatedTable DEF Ind, ServerInd
    <3>2. HasStream(f)'
      <4> HIDE DEF q
      <4> QED
        BY <2>1, <2>5, <3>1, ServerAssumption DEF HasStream, Known
    <3>3. shown'[f] = shown[f]
      BY <1>1, <3>2 DEF ServerWithHistory, ReadAnswered
    <3>4. InRead(f)'
      BY <1>0, <2>7 DEF InRead
    <3>5. PICK got, i, L : got = Got(f)' /\ i = Stat(fidtab[f].path)' /\ L = Listing(fidtab[f].dir)'
      OBVIOUS
    <3>6. i = Stat(p.path) /\ L = Listing(p.dir)
      <4> HIDE DEF q
      <4>1. fidtab'[f].path = fidtab[f].path
        BY <1>0, <2>5, <3>1
      <4> QED
        BY <1>0, <1>1, <2>5, <3>1, <3>5, <4>1, SameStat DEF Listing
    <3>7. got = IF q.diroffset = 0 THEN <<>> ELSE shown[f]
      <4> HIDE DEF q
      <4> QED
        BY <1>2, <2>7, <3>1, <3>3, <3>4, <3>5 DEF Got
    <3>8. ASSUME steady'[f] PROVE i = q.dir /\ Parts(got, q.dirent, q.todo, L)
      <4>1. CASE req.offset = p.diroffset
        <5>1. q = p /\ ~Rewinding
          BY <1>0, <4>1 DEF Rewinding
        <5>2. steady[f]
          BY <1>1, <2>2, <3>2, <3>8, <5>1 DEF ServerWithHistory
        <5>3. Stat(p.path) = p.dir /\ Parts(Got(f), p.dirent, p.todo, Listing(p.dir))
          BY <1>0, <2>1, <2>3, <5>2 DEF FidListing
        <5>4. Got(f) = shown[f]
          BY <1>1 DEF Got, InRead
        <5>5. p.diroffset = 0 => shown[f] = <<>>
          BY <1>0, <1>1, <2>1, <2>3 DEF FidListing, InRead
        <5>6. got = shown[f]
          BY <3>7, <5>1, <5>5
        <5> HIDE DEF q
        <5> QED
          BY <3>6, <5>1, <5>3, <5>4, <5>6
      <4>2. CASE req.offset # p.diroffset
        <5>1. q = Rewound(p) /\ Rewinding
          BY <1>0, <1>1, <2>7, <4>2 DEF Rewinding
        <5>2. p.dirent = Nothing /\ Stat(p.path) = p.dir
          BY <1>0, <1>1, <2>2, <3>2, <3>8, <5>1 DEF ServerWithHistory
        <5>3. got = <<>> /\ q.dirent = Nothing /\ q.todo = Listing(p.dir)
          <6> HIDE DEF q
          <6> QED
            BY <2>4, <3>7, <5>1, <5>2
        <5>4. Listing(p.dir) \in SUBSET Names
          BY DEF Listing
        <5> HIDE DEF q
        <5> QED
          BY <2>5, <3>6, <5>2, <5>3, <5>4, PartsFirst
      <4> QED
        BY <4>1, <4>2
    <3>9. FidListing(f)'
      <4>1. kind'[q.dir] = "dir" /\ q.dir # Nothing /\ q.omode # Closed
        BY <1>0, <1>1, <2>1, <2>3, <2>5 DEF FidListing
      <4> HIDE DEF q
      <4> QED
        BY <2>7, <3>1, <3>4, <3>5, <3>8, <4>1, FidPrimed
    <3>10. ASSUME NEW g \in FidIds, g # f, Known(g)' PROVE FidListing(g)'
      BY <1>0, <2>7, <3>1, <3>10, OtherFid
    <3>11. HasStream(req.fid)'
      BY <1>0, <2>7, <3>2
    <3> QED
      BY <2>7, <3>9, <3>10, <3>11, ListingFrame
  <2> HIDE DEF q
  <2> QED
    BY <2>1, <2>6, <2>7
<1> QED
  BY <1>0, <1>3, <1>4 DEF rread

(* What the fid being read is known to be.                                 *)
LEMMA ReadFid ==
  ASSUME Ind, ListingInd, srv = "dir", NEW f, f = req.fid, NEW p, p = fidtab[f]
  PROVE  /\ f \in FidIds /\ Known(f) /\ HasStream(f) /\ InRead(f) /\ FidListing(f)
         /\ p \in FidRec /\ p.path \in Paths /\ p.dir \in Inodes /\ p.omode # Closed
         /\ kind[p.dir] = "dir" /\ ~p.direof /\ Got(f) \in Seq(Names) /\ list \in Seq(Names)
         /\ steady[f] => Stat(p.path) = p.dir /\ Parts(Got(f), p.dirent, p.todo, Listing(p.dir))
<1>1. f \in FidIds /\ HasStream(f) /\ InRead(f) /\ Known(f)
  BY StepFields DEF Ind, ListingInd, InRead, HasStream
<1>2. p \in FidRec /\ p.path \in Paths /\ FidListing(f) /\ p.dir # Nothing
  BY <1>1, KnownFid DEF Ind, ServerInd, ListingInd, HasStream, Path
<1>3. p.dir \in Inodes
  BY <1>2, FidFields
<1>4. p.omode # Closed
  BY <1>1, <1>2 DEF Ind, ServerInd, HandleInd, Matches, Held
<1>5. list \in Seq(Names) /\ shown[f] \in Seq(Names)
  BY <1>1 DEF Ind, ServerInd, ServerTypeOK, ListingInd
<1>6. Got(f) \in Seq(Names)
  BY <1>1, <1>5 DEF Got
<1> QED
  BY <1>1, <1>2, <1>3, <1>4, <1>5, <1>6 DEF FidListing

(* A turn of the loop after which it goes on.                              *)
LEMMA TurnListing ==
  ASSUME Ind, ListingInd, ServerWithHistory, srv = "dir", srv' = "dir", UNCHANGED <<req, kind, ent>>,
         NEW f, f = req.fid, NEW p, p = fidtab[f], NEW q \in FidRec,
         fidtab' = [fidtab EXCEPT ![f] = q],
         q.path = p.path, q.dir = p.dir, q.omode = p.omode, q.diroffset = p.diroffset, q.direof = p.direof,
         steady[f] =>
           Parts((IF p.diroffset = 0 THEN <<>> ELSE shown[f]) \o list', q.dirent, q.todo, Listing(p.dir))
  PROVE  ListingInd'
<1>1. /\ f \in FidIds /\ HasStream(f) /\ p.dir \in Inodes /\ p.omode # Closed /\ kind[p.dir] = "dir"
      /\ ~p.direof /\ (steady[f] => Stat(p.path) = p.dir)
  BY ReadFid
<1>2. fidtab'[f] = q /\ \A g \in FidIds \ {f} : fidtab'[g] = fidtab[g]
  BY <1>1, UpdatedTable DEF Ind, ServerInd
<1>3. HasStream(f)' /\ InRead(f)'
  BY <1>1, <1>2, ServerAssumption, HostAssumption DEF HasStream, Known, InRead
<1>4. shown'[f] = shown[f] /\ (steady'[f] => steady[f])
  BY <1>1, <1>3, QuietHistory DEF ReadAnswered, Rewinding
<1>5. PICK got, i, L : got = Got(f)' /\ i = Stat(fidtab[f].path)' /\ L = Listing(fidtab[f].dir)'
  OBVIOUS
<1>6. got = (IF p.diroffset = 0 THEN <<>> ELSE shown[f]) \o list'
  BY <1>2, <1>3, <1>4, <1>5 DEF Got
<1>7. i = Stat(p.path) /\ L = Listing(p.dir)
  BY <1>2, <1>5, SameStat DEF Listing
<1>8. FidListing(f)'
  <2>1. q.dir # Nothing /\ q.omode # Closed /\ kind'[q.dir] = "dir" /\ ~q.direof
    BY <1>1, HostAssumption
  <2>2. steady'[f] => i = q.dir /\ Parts(got, q.dirent, q.todo, L)
    BY <1>1, <1>4, <1>6, <1>7
  <2> QED
    BY <1>2, <1>3, <1>5, <2>1, <2>2, FidPrimed
<1>9. ASSUME NEW g \in FidIds, g # f, Known(g)' PROVE FidListing(g)'
  BY <1>2, <1>9, OtherFid
<1>10. HasStream(req.fid)'
  BY <1>3
<1> QED
  BY <1>8, <1>9, <1>10, ListingFrame

(* One that answers.                                                       *)
LEMMA DirDoneListing ==
  ASSUME Ind, ListingInd, ServerWithHistory, srv = "dir", UNCHANGED <<kind, ent>>,
         NEW f, f = req.fid, NEW p, p = fidtab[f], NEW q \in FidRec, DirDone(f, q),
         q.path = p.path, q.dir = p.dir, q.omode = p.omode, q.diroffset = p.diroffset,
         q.direof => q.todo = {} /\ q.dirent = Nothing,
         steady[f] => Parts(Got(f), q.dirent, q.todo, Listing(p.dir))
  PROVE  ListingInd'
<1>1. /\ f \in FidIds /\ HasStream(f) /\ p.dir \in Inodes /\ p.omode # Closed /\ kind[p.dir] = "dir"
      /\ p.dir # Nothing /\ (steady[f] => Stat(p.path) = p.dir) /\ InRead(f) /\ list \in Seq(Names)
  BY ReadFid, HostAssumption
<1>2. Filled \in Nat /\ (Filled = 0 => list = <<>>) /\ q.diroffset \in Nat
  BY <1>1, FilledType, FidFields
<1>3. PICK n : n = q.diroffset + Filled
  OBVIOUS
<1> DEFINE r == [q EXCEPT !.diroffset = n]
<1>4. fidtab' = [fidtab EXCEPT ![f] = r] /\ srv' = "idle" /\ list' = <<>>
  BY <1>3 DEF DirDone, Answer, AnswerIn
<1>5. /\ r \in FidRec /\ r.path = q.path /\ r.dir = q.dir /\ r.omode = q.omode /\ r.diroffset = n
      /\ r.direof = q.direof /\ r.todo = q.todo /\ r.dirent = q.dirent
  <2>1. n \in Nat
    BY <1>2, <1>3
  <2> QED
    BY <2>1 DEF FidRec
<1> HIDE DEF r
<1>6. fidtab'[f] = r /\ \A g \in FidIds \ {f} : fidtab'[g] = fidtab[g]
  BY <1>1, <1>4, <1>5, UpdatedTable DEF Ind, ServerInd
<1>7. HasStream(f)' /\ ~InRead(f)'
  BY <1>1, <1>4, <1>5, <1>6, ServerAssumption DEF HasStream, Known, InRead
<1>8. /\ shown'[f] = IF lost' # "no" THEN <<>>
                     ELSE IF p.diroffset = 0 THEN list ELSE shown[f] \o list
      /\ steady'[f] => steady[f] /\ lost' = "no"
  BY <1>1, <1>4, <1>7 DEF ServerWithHistory, ReadAnswered, Rewinding
<1>9. PICK got, i, L : got = Got(f)' /\ i = Stat(fidtab[f].path)' /\ L = Listing(fidtab[f].dir)'
  OBVIOUS
<1>10. lost' = "no" => got = Got(f)
  <2>1. got = shown'[f]
    BY <1>7, <1>9 DEF Got
  <2>2. Got(f) = (IF p.diroffset = 0 THEN <<>> ELSE shown[f]) \o list
    BY <1>1 DEF Got
  <2>3. <<>> \o list = list
    BY <1>1
  <2> QED
    BY <1>8, <2>1, <2>2, <2>3
<1>11. i = Stat(p.path) /\ L = Listing(p.dir)
  BY <1>5, <1>6, <1>9, SameStat DEF Listing
<1>12. n = 0 => shown'[f] = <<>>
  BY <1>2, <1>3, <1>8
<1>13. FidListing(f)'
  <2>1. r.dir # Nothing /\ r.omode # Closed /\ kind'[r.dir] = "dir"
        /\ (r.direof => r.todo = {} /\ r.dirent = Nothing)
    BY <1>1, <1>5
  <2>2. steady'[f] => i = r.dir /\ Parts(got, r.dirent, r.todo, L)
    BY <1>1, <1>5, <1>8, <1>10, <1>11
  <2> QED
    BY <1>5, <1>6, <1>7, <1>9, <1>12, <2>1, <2>2, FidPrimed
<1>14. ASSUME NEW g \in FidIds, g # f, Known(g)' PROVE FidListing(g)'
  BY <1>4, <1>6, <1>14, OtherFid
<1> QED
  BY <1>4, <1>13, <1>14, ListingFrame

(* An entry is looked at.                                                  *)
LEMMA DirTurnListing ==
  ASSUME Ind, ListingInd, ServerWithHistory, srv = "dir", UNCHANGED <<kind, ent>>,
         NEW f, f = req.fid, NEW p, p = fidtab[f], NEW name \in Names, NEW rest \in SUBSET Names,
         DirTurn(f, name, rest),
         steady[f] => Parts(Got(f), name, rest, Listing(p.dir))
  PROVE  ListingInd'
<1> DEFINE q == [p EXCEPT !.dirent = name, !.todo = rest]
           r == [q EXCEPT !.dirent = Nothing]
<1>1. /\ f \in FidIds /\ p \in FidRec /\ p.path \in Paths /\ p.dir \in Inodes /\ kind[p.dir] = "dir"
      /\ p.dir # Nothing /\ (steady[f] => Stat(p.path) = p.dir) /\ InRead(f) /\ list \in Seq(Names)
      /\ ~p.direof /\ Got(f) \in Seq(Names) /\ shown[f] \in Seq(Names)
  BY ReadFid, HostAssumption DEF ListingInd
<1>2. /\ q \in FidRec /\ q.path = p.path /\ q.dir = p.dir /\ q.omode = p.omode /\ q.dirent = name
      /\ q.diroffset = p.diroffset /\ q.direof = p.direof /\ q.todo = rest
  BY <1>1 DEF FidRec
<1>3. /\ r \in FidRec /\ r.path = p.path /\ r.dir = p.dir /\ r.omode = p.omode /\ r.dirent = Nothing
      /\ r.diroffset = p.diroffset /\ r.direof = p.direof /\ r.todo = rest
  <2> HIDE DEF q
  <2> QED
    BY <1>2 DEF FidRec
<1>4. Got(f) = (IF p.diroffset = 0 THEN <<>> ELSE shown[f]) \o list
  BY <1>1 DEF Got
<1>5. CASE ~Exists(Append(p.path, name))
  <2>1. fidtab' = [fidtab EXCEPT ![f] = r] /\ UNCHANGED <<req, srv, list>>
    BY <1>5 DEF DirTurn, PassOver, link
  <2>2. ~steady[f]
    <3> SUFFICES ASSUME steady[f] PROVE FALSE
      OBVIOUS
    <3>1. Stat(p.path) = p.dir /\ Parts(Got(f), name, rest, Listing(p.dir))
      BY <1>1
    <3>2. name \in Listing(p.dir)
      BY <3>1 DEF Parts
    <3>3. Enter(p.dir, name) # Nothing
      BY <1>1, <3>2 DEF Enter, Listing
    <3>4. Stat(Append(p.path, name)) = Enter(Stat(p.path), name)
      BY <1>1, StatAppend DEF Ind, ServerInd
    <3> QED
      BY <1>5, <3>1, <3>3, <3>4 DEF Exists
  <2> HIDE DEF r
  <2> QED
    BY <1>3, <2>1, <2>2, TurnListing
<1>6. CASE DirDone(f, KeepWaiting(q))
  <2> HIDE DEF q
  <2> QED
    BY <1>1, <1>2, <1>6, DirDoneListing DEF KeepWaiting
<1>7. CASE /\ fidtab' = [fidtab EXCEPT ![f] = r]
           /\ list' = Append(list, name) /\ UNCHANGED <<req, srv>>
  <2> DEFINE base == IF p.diroffset = 0 THEN <<>> ELSE shown[f]
  <2>1. base \in Seq(Names)
    BY <1>1
  <2> HIDE DEF base
  <2>2. base \o Append(list, name) = Append(base \o list, name)
    BY <1>1, <2>1
  <2>3. steady[f] => Parts(base \o list', Nothing, rest, Listing(p.dir))
    BY <1>1, <1>4, <1>7, <2>2, PartsShow DEF base
  <2> HIDE DEF r
  <2> QED
    BY <1>3, <1>7, <2>3, TurnListing DEF base
<1> QED
  BY <1>5, <1>6, <1>7 DEF DirTurn, link

(* Every turn of the loop.                                                 *)
LEMMA ReadDirListing ==
  ASSUME Ind, ListingInd, ServerWithHistory, readdir
  PROVE  ListingInd'
<1>0. PICK f, p : f = req.fid /\ p = fidtab[f]
  OBVIOUS
<1>1. srv = "dir" /\ UNCHANGED <<kind, ent>>
  BY DEF readdir, fsVars
<1>2. /\ p \in FidRec /\ ~p.direof /\ Got(f) \in Seq(Names)
      /\ steady[f] => Parts(Got(f), p.dirent, p.todo, Listing(p.dir))
  BY <1>0, <1>1, ReadFid
<1>3. p.todo \in SUBSET Names /\ p.dirent \in Names \cup {Nothing}
  BY <1>2, FidFields
<1>4. CASE DirDone(f, p)
  BY <1>0, <1>1, <1>2, <1>4, DirDoneListing
<1>5. CASE p.dirent # Nothing /\ DirTurn(f, p.dirent, p.todo)
  BY <1>0, <1>1, <1>2, <1>3, <1>5, DirTurnListing
<1>6. ASSUME p.dirent = Nothing, NEW name \in p.todo, DirTurn(f, name, p.todo \ {name})
      PROVE  ListingInd'
  <2>1. steady[f] => Parts(Got(f), name, p.todo \ {name}, Listing(p.dir))
    BY <1>2, <1>3, <1>6, PartsTake
  <2> QED
    BY <1>0, <1>1, <1>3, <1>6, <2>1, DirTurnListing
<1>7. CASE p.dirent = Nothing /\ p.todo = {} /\ DirDone(f, [p EXCEPT !.direof = TRUE])
  <2> DEFINE q == [p EXCEPT !.direof = TRUE]
  <2>1. /\ q \in FidRec /\ q.path = p.path /\ q.dir = p.dir /\ q.omode = p.omode
        /\ q.diroffset = p.diroffset /\ q.todo = p.todo /\ q.dirent = p.dirent
    BY <1>2 DEF FidRec
  <2> HIDE DEF q
  <2> QED
    BY <1>0, <1>1, <1>2, <1>7, <2>1, DirDoneListing DEF q
<1> QED
  BY <1>0, <1>4, <1>5, <1>6, <1>7 DEF readdir

(* Every step of the server keeps the invariant.                           *)
LEMMA ServerListing ==
  ASSUME Ind, Ind', ListingInd, ServerWithHistory
  PROVE  ListingInd'
<1>1. CASE rversion \/ rauth \/ rwalk \/ ropen \/ rcreate \/ rcreated \/ rwrite \/ rstat \/ rwstat
  BY <1>1, LooksPlain
<1>2. CASE rattach \/ userwalk \/ rclunk \/ rremove
  BY <1>2, NamesPlain
<1>3. CASE created \/ wstat
  BY <1>3, CreatedPlain, WstatPlain
<1>4. CASE useropen \/ usercreate
  BY <1>4, OpenListing, CreateListing
<1>5. CASE rread \/ readdir
  BY <1>5, BeginListing, ReadDirListing
<1> QED
  BY <1>1, <1>2, <1>3, <1>4, <1>5 DEF ServerWithHistory, ServerStep

-----------------------------------------------------------------------------
(* What the others do. *)

(* A step of which the server notices nothing, but perhaps a request.      *)
LEMMA SameListing ==
  ASSUME ListingInd, UNCHANGED <<fsVars, srvVars, shown, steady>>, UNCHANGED req \/ srv # "dir"
  PROVE  ListingInd'
<1>1. UNCHANGED <<kind, ent, fidtab, srv, list, shown, steady>>
  BY DEF fsVars, srvVars
<1>2. ASSUME NEW f \in FidIds, Known(f)' PROVE FidListing(f)'
  <2>1. FidListing(f) /\ (InRead(f)' <=> InRead(f))
    BY <1>1, <1>2 DEF ListingInd, Known, InRead
  <2>2. PICK got, i, L : got = Got(f)' /\ i = Stat(fidtab[f].path)' /\ L = Listing(fidtab[f].dir)'
    OBVIOUS
  <2>3. got = Got(f) /\ L = Listing(fidtab[f].dir)
    BY <1>1, <2>1, <2>2 DEF Got, Listing
  <2>4. i = Stat(fidtab[f].path)
    BY <1>1, <2>2, SameStat
  <2>5. PICK p : p = fidtab[f]
    OBVIOUS
  <2>6. p.dir = Nothing \/ p.omode = Closed => NoListing(p)
    BY <2>1, <2>5 DEF FidListing
  <2>7. p.dir # Nothing =>
          /\ kind'[p.dir] = "dir"
          /\ p.direof => p.todo = {} /\ p.dirent = Nothing /\ ~InRead(f)'
          /\ p.diroffset = 0 /\ ~InRead(f)' => shown'[f] = <<>>
          /\ steady'[f] => i = p.dir /\ Parts(got, p.dirent, p.todo, L)
    BY <1>1, <2>1, <2>3, <2>4, <2>5 DEF FidListing
  <2> QED
    BY <1>1, <2>2, <2>5, <2>6, <2>7, FidPrimed
<1>3. FreeIsEmpty'
  BY <1>1 DEF ListingInd, FreeIsEmpty, Listing
<1>4. \A f \in FidIds : HasStream(f)' <=> HasStream(f)
  BY <1>1 DEF HasStream, Known
<1>5. srv' = "dir" => HasStream(req.fid)'
  BY <1>1 DEF ListingInd, HasStream, Known
<1> QED
  BY <1>1, <1>2, <1>3, <1>4, <1>5 DEF ListingInd

(* Other programs make and remove files.                                   *)
LEMMA OutsideHost ==
  ASSUME Ind, Outside
  PROVE  HostStep
<1>1. PICK path \in Menus[menu].touched :
        \/ Unlink(path)
        \/ \E k \in {"dir", "file"} :
             CanMake(Front(path), Last(path)) /\ Make(Front(path), Last(path), k)
  BY DEF Outside
<1>2. path \in Seq(Names) /\ path # <<>>
  BY RequestAssumption DEF Ind
<1>3. path \in Paths /\ Last(path) \in Names
  BY <1>2 DEF Paths, Last
<1>4. Front(path) \in Paths
  BY <1>2, <1>3, FrontType
<1> QED
  BY <1>1, <1>3, <1>4 DEF HostStep

(* That ends the peace of every stream.                                    *)
LEMMA OutsideListing ==
  ASSUME Ind, ListingInd, Outside
  PROVE  ListingInd'
<1>1. UNCHANGED <<fidtab, srv, list, req, shown>> /\ steady' = [f \in FidIds |-> ~HasStream(f)]
  BY DEF Outside, srvVars, link
<1>2. Grows
  BY OutsideHost, HostGrows DEF Ind, ServerInd, ListingInd
<1>3. ASSUME NEW f \in FidIds, Known(f)' PROVE FidListing(f)'
  <2>1. FidListing(f) /\ (InRead(f)' <=> InRead(f)) /\ Known(f)
    BY <1>1, <1>3 DEF ListingInd, Known, InRead
  <2>2. PICK got, i, L : got = Got(f)' /\ i = Stat(fidtab[f].path)' /\ L = Listing(fidtab[f].dir)'
    OBVIOUS
  <2>3. PICK p : p = fidtab[f]
    OBVIOUS
  <2>4. p.dir = Nothing \/ p.omode = Closed => NoListing(p)
    BY <2>1, <2>3 DEF FidListing
  <2>5. p.dir # Nothing => p.dir \in Inodes
    BY <2>1, <2>3, KnownFid, FidFields DEF Ind, ServerInd
  <2>6. p.dir # Nothing => ~steady'[f]
    BY <1>1, <2>1, <2>3 DEF HasStream
  <2>7. p.dir # Nothing =>
          /\ kind'[p.dir] = "dir"
          /\ p.direof => p.todo = {} /\ p.dirent = Nothing /\ ~InRead(f)'
          /\ p.diroffset = 0 /\ ~InRead(f)' => shown'[f] = <<>>
    BY <1>1, <1>2, <2>1, <2>3, <2>5 DEF FidListing, Grows
  <2> QED
    BY <1>1, <2>2, <2>3, <2>4, <2>6, <2>7, FidPrimed
<1>4. FreeIsEmpty'
  BY <1>2 DEF Grows, FreeIsEmpty
<1>5. \A f \in FidIds : HasStream(f)' <=> HasStream(f)
  BY <1>1 DEF HasStream, Known
<1>6. srv' = "dir" => HasStream(req.fid)'
  BY <1>1 DEF ListingInd, HasStream, Known
<1>7. steady' \in [FidIds -> BOOLEAN]
  BY <1>1 DEF HasStream
<1> QED
  BY <1>1, <1>3, <1>4, <1>5, <1>6, <1>7 DEF ListingInd

(* An inode that the file system found does not use has no entries.        *)
UnusedEmpty(k, e) == \A i \in Inodes : k[i] = "free" => \A n \in Names : e[i][n] = Nothing

(* So the invariant holds at the start.                                    *)
LEMMA InitListing ==
  ASSUME NEW k, NEW e, NEW d, UnusedEmpty(k, e), Init(k, e, d)
  PROVE  ListingInd
<1>1. \A f \in FidIds : ~Known(f) /\ ~HasStream(f)
  BY DEF Init, ServerInit, Known, HasStream
<1>2. FreeIsEmpty
  BY DEF UnusedEmpty, Init, FreeIsEmpty, Listing
<1>3. shown \in [FidIds -> Seq(Names)] /\ steady \in [FidIds -> BOOLEAN]
      /\ \A f \in FidIds : shown[f] = <<>>
  BY DEF Init
<1> QED
  BY <1>1, <1>2, <1>3 DEF Init, ServerInit, ListingInd

(* A directory read to its end shows every name once, however the counts   *)
(* cut it up and although an entry that did not fit waits in the cache,    *)
(* unless names come and go meanwhile or the directory was renamed.        *)
THEOREM ListingsWhole ==
  ASSUME NEW k, NEW e, NEW d, FileSystem(k, e, d), UnusedEmpty(k, e)
  PROVE  Behaviour(k, e, d) => []ListsEachOnce
<1>1. Init(k, e, d) => ListingInd
  BY InitListing
<1>2. Ind /\ Ind' /\ ListingInd /\ [Next]_vars => ListingInd'
  <2> SUFFICES ASSUME Ind, Ind', ListingInd, [Next]_vars PROVE ListingInd'
    OBVIOUS
  <2>1. CASE Ask
    BY <2>1, SameListing DEF Ask
  <2>2. CASE ServerWithHistory
    BY <2>2, ServerListing
  <2>3. CASE Outside
    BY <2>3, OutsideListing
  <2>4. CASE UNCHANGED vars
    BY <2>4, SameListing DEF vars, link, histVars
  <2> QED
    BY <2>1, <2>2, <2>3, <2>4 DEF Next
<1>3. Ind /\ ListingInd => ListsEachOnce
  <2> SUFFICES ASSUME Ind, ListingInd, NEW f \in FidIds, Known(f), fidtab[f].direof, steady[f]
               PROVE  /\ ToSet(shown[f]) = Listing(fidtab[f].dir)
                      /\ Len(shown[f]) = Cardinality(Listing(fidtab[f].dir))
    BY DEF ListsEachOnce
  <2> DEFINE p == fidtab[f]
  <2>1. FidListing(f) /\ shown[f] \in Seq(Names)
    BY DEF ListingInd
  <2>2. p.todo = {} /\ p.dirent = Nothing /\ ~InRead(f) /\ Parts(Got(f), p.dirent, p.todo, Listing(p.dir))
    BY <2>1 DEF FidListing, NoListing
  <2>3. Parts(shown[f], Nothing, {}, Listing(p.dir))
    BY <2>2 DEF Got
  <2>4. Listing(p.dir) \in SUBSET Names
    BY DEF Listing
  <2> QED
    BY <2>1, <2>3, <2>4, PartsDone
<1> QED
  BY <1>1, <1>2, <1>3, AlwaysInd, PTL DEF Behaviour
=============================================================================
