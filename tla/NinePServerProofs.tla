-------------------------- MODULE NinePServerProofs --------------------------
(***************************************************************************)
(* Lemmas about the steps of the 9P server, whoever talks to it.           *)
(***************************************************************************)
EXTENDS NinePServer, FoldLemmas

Paths == Seq(Names \cup {Dot})

-----------------------------------------------------------------------------
(* What the folds of the model compute. *)

(* To follow a path is a fold over its elements.                           *)
Follow(path, X) == [p \in (1..Len(path)) \X X |-> Enter(p[2], path[p[1]])]

(* stat follows a path one element at a time.                            *)
LEMMA StatFolds ==
  ASSUME NEW path \in Paths, NEW X, Root \in X,
         \A i \in X : \A name \in Names \cup {Dot} : Enter(i, name) \in X
  PROVE  \E it : /\ FoldsIn(it, 1..Len(path), X, Root, LastOf(Len(path)), Follow(path, X))
                 /\ it[1..Len(path)] = Stat(path)
<1> DEFINE n == Len(path)
           c == LastOf(n)
           h == Follow(path, X)
           F(g) == [s \in SUBSET (1..n) |-> IF s = {} THEN Root ELSE Enter(g[s \ {Max(s)}], path[Max(s)])]
           it == CHOOSE g : g = F(g)
<1>1. DOMAIN path = 1..n /\ n \in Nat /\ IsFiniteSet(1..n)
  BY FS_Interval DEF Paths
<1>2. Stat(path) = it[1..n]
  BY <1>1 DEF Stat, FoldLeft, MapThenFoldSet
<1>3. Chooses(c, 1..n) /\ \A s \in SUBSET (1..n) : c[s] = Max(s)
  BY <1>1, LastIsChosen
<1>4. h \in [(1..n) \X X -> X] /\ \A k \in 1..n : \A x \in X : h[<<k, x>>] = Enter(x, path[k])
  <2>1. \A k \in 1..n : path[k] \in Names \cup {Dot}
    BY DEF Paths
  <2> QED
    BY <2>1 DEF Follow
<1>5. it = F(it)
  <2>1. PICK g \in [SUBSET (1..n) -> X] : Folds(g, 1..n, Root, c, h)
    <3> HIDE DEF h, c
    <3> QED
      BY <1>1, <1>3, <1>4, FoldExists
  <2>2. ASSUME NEW s \in SUBSET (1..n) PROVE g[s] = F(g)[s]
    <3>1. CASE s = {}
      BY <2>1, <3>1 DEF Folds
    <3>2. CASE s # {}
      <4>1. c[s] = Max(s) /\ Max(s) \in 1..n
        BY <1>3, <3>2 DEF Chooses
      <4>2. s \ {Max(s)} \in SUBSET (1..n)
        OBVIOUS
      <4>3. g[s \ {Max(s)}] \in X
        BY <2>1, <4>2
      <4>4. g[s] = h[<<c[s], g[s \ {c[s]}]>>]
        BY <2>1, <3>2 DEF Folds
      <4> HIDE DEF h, c
      <4>5. g[s] = Enter(g[s \ {Max(s)}], path[Max(s)])
        BY <1>4, <4>1, <4>3, <4>4
      <4> QED
        BY <3>2, <4>5
    <3> QED
      BY <3>1, <3>2
  <2>3. g = F(g)
    BY <2>2
  <2> QED
    BY <2>3
<1>6. it[{}] = Root
  BY <1>5
<1>7. ASSUME NEW s \in SUBSET (1..n), s # {}, it[s \ {c[s]}] \in X
      PROVE  it[s] = h[<<c[s], it[s \ {c[s]}]>>]
  <2>1. it[s] = Enter(it[s \ {Max(s)}], path[Max(s)])
    BY <1>5, <1>7
  <2> HIDE DEF c, it, h
  <2>2. c[s] = Max(s) /\ Max(s) \in 1..n
    BY <1>3, <1>7 DEF Chooses
  <2> QED
    BY <1>4, <1>7, <2>1, <2>2
<1>8. FoldsIn(it, 1..n, X, Root, c, h)
  <2> HIDE DEF c, h, it
  <2> QED
    BY <1>1, <1>3, <1>4, <1>6, <1>7 DEF FoldsIn
<1> HIDE DEF it
<1> QED
  BY <1>2, <1>8

(* A path leads to something that every step of the way leads to.          *)
LEMMA StatIn ==
  ASSUME NEW path \in Paths, NEW X, Root \in X,
         \A i \in X : \A name \in Names \cup {Dot} : Enter(i, name) \in X
  PROVE  Stat(path) \in X
<1>1. PICK it : /\ FoldsIn(it, 1..Len(path), X, Root, LastOf(Len(path)), Follow(path, X))
                /\ it[1..Len(path)] = Stat(path)
  BY StatFolds
<1>2. it[1..Len(path)] \in X
  BY <1>1, FoldType
<1> QED
  BY <1>1, <1>2

(* A path leads to an inode or nowhere.                                    *)
LEMMA StatType ==
  ASSUME HostTypeOK, NEW path \in Paths
  PROVE  Stat(path) \in Inodes \cup {Nothing}
<1> DEFINE X == Inodes \cup {Nothing}
<1>1. Root \in X
  BY HostAssumption
<1>2. \A i \in X : \A name \in Names \cup {Dot} : Enter(i, name) \in X
  BY DEF Enter, HostTypeOK
<1> HIDE DEF X
<1>3. Stat(path) \in X
  BY <1>1, <1>2, StatIn
<1> QED
  BY <1>3 DEF X

(* The inodes on the way, from the root on.                                *)
Way == Inodes \cup {Nothing}
OnWay(p, path) == /\ p \in [0..Len(path) -> Way] /\ p[0] = Root
                  /\ \A k \in 1..Len(path) : p[k] = Enter(p[k - 1], path[k])

(* There is such a way along every path.                                 *)
LEMMA StatSteps ==
  \A path \in Paths : HostTypeOK => \E p : OnWay(p, path) /\ p[Len(path)] = Stat(path)
<1> SUFFICES ASSUME NEW path \in Paths, HostTypeOK
             PROVE  \E p : OnWay(p, path) /\ p[Len(path)] = Stat(path)
  OBVIOUS
<1> DEFINE n == Len(path)
           h == Follow(path, Way)
<1>1. n \in Nat /\ \A k \in 1..n : path[k] \in Names \cup {Dot}
  BY DEF Paths
<1>2. Root \in Way /\ \A i \in Way : \A name \in Names \cup {Dot} : Enter(i, name) \in Way
  BY HostAssumption DEF Enter, HostTypeOK, Way
<1>3. PICK it : FoldsIn(it, 1..n, Way, Root, LastOf(n), h) /\ it[1..n] = Stat(path)
  BY <1>2, StatFolds
<1>4. PICK p \in [0..n -> Way] : /\ p[0] = Root
                                 /\ \A k \in 1..n : p[k] = h[<<k, p[k - 1]>>]
                                 /\ p[n] = it[1..n]
  <2> HIDE DEF h, n
  <2> QED
    BY <1>1, <1>3, FoldPrefixes
<1>5. ASSUME NEW k \in 1..n PROVE p[k] = Enter(p[k - 1], path[k])
  <2>1. k - 1 \in 0..n
    BY <1>1
  <2>2. p[k - 1] \in Way
    BY <1>4, <2>1
  <2>3. h[<<k, p[k - 1]>>] = Enter(p[k - 1], path[k])
    BY <2>2 DEF Follow
  <2>4. p[k] = h[<<k, p[k - 1]>>]
    BY <1>4
  <2> HIDE DEF h
  <2> QED
    BY <2>3, <2>4
<1>6. OnWay(p, path)
  BY <1>4, <1>5 DEF OnWay
<1>7. p[n] = Stat(path)
  BY <1>3, <1>4
<1> QED
  BY <1>6, <1>7

(* The same of the next state.                                             *)
LEMMA StatStepsNext ==
  (\A path \in Paths : HostTypeOK => \E p : OnWay(p, path) /\ p[Len(path)] = Stat(path))'
BY StatSteps, PTL

(* There is only one way.                                                  *)
LEMMA OneWay ==
  ASSUME NEW path \in Paths, NEW longer \in Paths, NEW p, NEW q,
         OnWay(p, path), OnWay(q, longer), Len(path) <= Len(longer),
         \A k \in 1..Len(path) : longer[k] = path[k]
  PROVE  \A k \in 0..Len(path) : q[k] = p[k]
<1> DEFINE P == {k \in 0..Len(path) : q[k] = p[k]}
<1>1. Len(path) \in Nat /\ Len(longer) \in Nat
  BY DEF Paths
<1>2. 0 \in P
  BY <1>1 DEF OnWay
<1>3. ASSUME NEW k \in 0..Len(path) - 1, k \in P PROVE k + 1 \in P
  <2>1. k + 1 \in 1..Len(path) /\ k + 1 \in 1..Len(longer) /\ (k + 1) - 1 = k
    BY <1>1
  <2>2. p[k + 1] = Enter(p[k], path[k + 1]) /\ q[k + 1] = Enter(q[k], longer[k + 1])
    BY <2>1 DEF OnWay
  <2> QED
    BY <1>3, <2>1, <2>2
<1> HIDE DEF P
<1>4. \A k \in 0..Len(path) : k \in P
  BY <1>1, <1>2, <1>3, UpTo
<1> QED
  BY <1>4 DEF P

(* One name more is one step more.                                         *)
LEMMA StatAppend ==
  ASSUME HostTypeOK, NEW path \in Paths, NEW name \in Names \cup {Dot}
  PROVE  Stat(Append(path, name)) = Enter(Stat(path), name)
<1> DEFINE longer == Append(path, name)
           n == Len(path)
<1>1. /\ longer \in Paths /\ n \in Nat /\ Len(longer) = n + 1 /\ longer[n + 1] = name
      /\ \A k \in 1..n : longer[k] = path[k]
  BY DEF Paths
<1> HIDE DEF longer
<1>2. PICK p : OnWay(p, path) /\ p[n] = Stat(path)
  BY StatSteps
<1>3. PICK q : OnWay(q, longer) /\ q[Len(longer)] = Stat(longer)
  BY <1>1, StatSteps
<1>4. q[n] = p[n]
  BY <1>1, <1>2, <1>3, OneWay
<1>5. q[n + 1] = Enter(q[(n + 1) - 1], longer[n + 1])
  BY <1>1, <1>3 DEF OnWay
<1> QED
  BY <1>1, <1>2, <1>3, <1>4, <1>5 DEF longer

(* All of the way to something is through directories.                     *)
LEMMA WayIsThrough ==
  ASSUME HostTypeOK, NEW path \in Paths, NEW p, OnWay(p, path), p[Len(path)] # Nothing
  PROVE  \A k \in 1..Len(path) : p[k] # Nothing /\ p[k - 1] \in Inodes /\ kind[p[k - 1]] = "dir"
<1> DEFINE n == Len(path)
           P == {k \in 0..n : p[n - k] # Nothing}
<1>1. n \in Nat
  BY DEF Paths
<1>2. ASSUME NEW k \in 1..n, p[k] # Nothing
      PROVE  p[k - 1] \in Inodes /\ kind[p[k - 1]] = "dir" /\ p[k - 1] # Nothing
  <2>1. k - 1 \in 0..n /\ p[k] = Enter(p[k - 1], path[k])
    BY <1>1 DEF OnWay
  <2>2. p[k - 1] \in Way
    BY <2>1 DEF OnWay
  <2> QED
    BY <1>2, <2>1, <2>2, HostAssumption DEF Enter, Way
<1>3. 0 \in P
  BY <1>1
<1>4. ASSUME NEW k \in 0..n - 1, k \in P PROVE k + 1 \in P
  <2>1. n - k \in 1..n /\ (n - k) - 1 = n - (k + 1) /\ k + 1 \in 0..n
    BY <1>1
  <2>2. p[n - (k + 1)] # Nothing
    BY <1>2, <1>4, <2>1
  <2> QED
    BY <2>1, <2>2
<1>5. \A k \in 0..n : k \in P
  <2> HIDE DEF P, n
  <2> QED
    BY <1>1, <1>3, <1>4, UpTo
<1>6. ASSUME NEW k \in 1..n PROVE p[k] # Nothing
  <2>1. n - k \in 0..n /\ n - (n - k) = k
    BY <1>1
  <2>2. n - k \in P
    BY <1>5, <2>1
  <2> QED
    BY <2>1, <2>2
<1> QED
  BY <1>2, <1>6

(* What is made next to a path does not move what the path leads to.       *)
LEMMA MakeKeeps ==
  ASSUME HostTypeOK, HostTypeOK', NEW dir \in Paths, NEW name \in Names, NEW k, CanMake(dir, name),
         Make(dir, name, k), NEW path \in Paths, Exists(path)
  PROVE  Stat(path)' = Stat(path)
<1> DEFINE n == Len(path)
           d == Stat(dir)
           new == NextInode
<1>1. /\ n \in Nat /\ \A i \in 1..n : path[i] \in Names \cup {Dot}
      /\ d \in Inodes /\ kind[d] = "dir" /\ new \in Inodes /\ kind[new] = "free"
  <2>1. Fresh # {} /\ IsDir(dir)
    BY DEF CanMake
  <2> QED
    BY <2>1, StatType DEF Paths, IsDir, Exists, NextInode, Fresh
<1>2. name # Dot /\ ent[d][name] = Nothing
  <2>1. dir \o <<name>> = Append(dir, name)
    BY DEF Paths
  <2>2. Stat(Append(dir, name)) = Nothing
    BY <2>1 DEF CanMake, Exists
  <2>3. Enter(d, name) = Nothing
    BY <2>2, StatAppend
  <2> QED
    BY <1>1, <2>3, HostAssumption DEF Enter
<1>3. kind' = [kind EXCEPT ![new] = k] /\ ent' = [ent EXCEPT ![d][name] = new]
  BY DEF Make
<1>4. PICK p : OnWay(p, path) /\ p[n] = Stat(path)
  BY StatSteps
<1>5. PICK q : OnWay(q, path)' /\ q[n] = Stat(path)'
  BY StatStepsNext
<1>6. \A i \in 1..n : p[i] # Nothing /\ p[i - 1] \in Inodes /\ kind[p[i - 1]] = "dir"
  BY <1>4, WayIsThrough DEF Exists
<1> DEFINE P == {i \in 0..n : q[i] = p[i]}
<1>7. 0 \in P
  BY <1>1, <1>4, <1>5 DEF OnWay
<1>8. ASSUME NEW i \in 0..n - 1, i \in P PROVE i + 1 \in P
  <2>1. i + 1 \in 1..n /\ (i + 1) - 1 = i /\ i + 1 \in 0..n
    BY <1>1
  <2>2. p[i + 1] = Enter(p[i], path[i + 1]) /\ q[i + 1] = Enter(q[i], path[i + 1])'
    BY <1>4, <1>5, <2>1 DEF OnWay
  <2>3. p[i + 1] # Nothing /\ p[i] \in Inodes /\ kind[p[i]] = "dir" /\ q[i] = p[i]
    BY <1>6, <1>8, <2>1
  <2> DEFINE at == p[i]
             elem == path[i + 1]
  <2>4. elem \in Names \cup {Dot}
    BY <1>1, <2>1
  <2> HIDE DEF at, elem, d, new, P
  <2>5. at \in Inodes /\ kind[at] = "dir" /\ q[i] = at /\ p[i + 1] = Enter(at, elem)
        /\ p[i + 1] # Nothing /\ q[i + 1] = Enter(q[i], elem)'
    BY <2>2, <2>3 DEF at, elem
  <2>6. at # new /\ kind'[at] = kind[at] /\ at # Nothing
    BY <1>1, <1>3, <2>5, HostAssumption DEF HostTypeOK
  <2>7. elem # Dot => ent'[at][elem] = ent[at][elem]
    <3>1. elem # Dot => ent[at][elem] # Nothing /\ elem \in Names
      BY <2>4, <2>5, <2>6 DEF Enter
    <3> QED
      BY <1>1, <1>2, <1>3, <2>5, <3>1 DEF HostTypeOK
  <2>8. Enter(q[i], elem)' = Enter(at, elem)
    BY <2>5, <2>6, <2>7 DEF Enter
  <2> QED
    BY <2>1, <2>5, <2>8 DEF P
<1>9. \A i \in 0..n : i \in P
  <2> HIDE DEF P, n
  <2> QED
    BY <1>1, <1>7, <1>8, UpTo
<1> QED
  BY <1>1, <1>4, <1>5, <1>9

(* A walk leads to a path, by so many names.                               *)
Walked == [path : Paths, n : Nat, ok : BOOLEAN]
WalkOn(w, elem) ==
  IF w.ok /\ Exists(Extend(w.path, elem))
  THEN [path |-> Extend(w.path, elem), n |-> w.n + 1, ok |-> TRUE]
  ELSE [w EXCEPT !.ok = FALSE]

(* The last element of a path can be taken away again.                     *)
LEMMA FrontOfAppend ==
  ASSUME NEW path \in Paths, NEW elem \in Names \cup {Dot}
  PROVE  Append(path, elem) \in Paths /\ Front(Append(path, elem)) = path
BY DEF Paths, Front

(* A path that is not the root has one above it.                           *)
LEMMA FrontType ==
  ASSUME NEW path \in Paths, path # <<>>
  PROVE  Front(path) \in Paths
BY DEF Paths, Front

(* One element more is a walk again.                                       *)
LEMMA WalkOnType ==
  ASSUME NEW w \in Walked, NEW elem \in Names \cup {Dot, DotDot}
  PROVE  WalkOn(w, elem) \in Walked
<1>1. Extend(w.path, elem) \in Paths
  <2>1. w.path \in Paths
    BY DEF Walked
  <2>2. CASE elem # DotDot
    BY <2>1, <2>2, FrontOfAppend DEF Extend
  <2>3. CASE elem = DotDot
    BY <2>1, <2>3, FrontType DEF Extend
  <2> QED
    BY <2>2, <2>3
<1>2. CASE w.ok /\ Exists(Extend(w.path, elem))
  <2> DEFINE path == Extend(w.path, elem)
             n == w.n + 1
  <2>1. path \in Paths /\ n \in Nat
    BY <1>1 DEF Walked
  <2>2. WalkOn(w, elem) = [path |-> path, n |-> n, ok |-> TRUE]
    BY <1>2 DEF WalkOn
  <2> HIDE DEF path, n
  <2> QED
    BY <2>1, <2>2 DEF Walked
<1>3. CASE ~(w.ok /\ Exists(Extend(w.path, elem)))
  BY <1>3 DEF WalkOn, Walked
<1> QED
  BY <1>2, <1>3

(* And so the whole walk.                                                  *)
LEMMA WalkType ==
  ASSUME NEW path \in Paths, NEW wname \in Seq(Names \cup {Dot, DotDot})
  PROVE  WalkFrom(path, wname) \in Walked
<1> DEFINE n == Len(wname)
           c == LastOf(n)
           start == [path |-> path, n |-> 0, ok |-> TRUE]
           h == [p \in (1..n) \X Walked |-> WalkOn(p[2], wname[p[1]])]
           F(g) == [s \in SUBSET (1..n) |-> IF s = {} THEN start ELSE WalkOn(g[s \ {Max(s)}], wname[Max(s)])]
           it == CHOOSE g : g = F(g)
<1>1. DOMAIN wname = 1..n /\ n \in Nat /\ IsFiniteSet(1..n) /\ start \in Walked
  BY FS_Interval DEF Walked
<1>2. WalkFrom(path, wname) = it[1..n]
  BY <1>1 DEF WalkFrom, FoldLeft, MapThenFoldSet, WalkOn
<1>3. Chooses(c, 1..n) /\ \A s \in SUBSET (1..n) : c[s] = Max(s)
  BY <1>1, LastIsChosen
<1>4. h \in [(1..n) \X Walked -> Walked]
  BY WalkOnType
<1>5. it = F(it)
  <2>1. PICK g \in [SUBSET (1..n) -> Walked] : Folds(g, 1..n, start, c, h)
    BY <1>1, <1>3, <1>4, FoldExists
  <2>2. \A s \in SUBSET (1..n) : g[s] = F(g)[s]
    BY <1>3, <2>1 DEF Folds, Chooses
  <2>3. g = F(g)
    BY <2>2
  <2> QED
    BY <2>3
<1>6. it[{}] = start
  BY <1>5
<1>7. ASSUME NEW s \in SUBSET (1..n), s # {}, it[s \ {c[s]}] \in Walked
      PROVE  it[s] = h[<<c[s], it[s \ {c[s]}]>>]
  <2> HIDE DEF c, it
  <2>1. c[s] = Max(s) /\ Max(s) \in 1..n
    BY <1>3, <1>7 DEF Chooses
  <2>2. it[s] = WalkOn(it[s \ {Max(s)}], wname[Max(s)])
    BY <1>5, <1>7
  <2> QED
    BY <1>7, <2>1, <2>2
<1>8. FoldsIn(it, 1..n, Walked, start, c, h)
  <2> HIDE DEF c, h, it, start
  <2> QED
    BY <1>1, <1>3, <1>4, <1>6, <1>7 DEF FoldsIn
<1>9. it[1..n] \in Walked
  <2> HIDE DEF c, h, it, start
  <2> QED
    BY <1>8, FoldType
<1> QED
  BY <1>2, <1>9

(* The entries in the buffer take a number of bytes, added up one by one.  *)
LEMMA FilledFolds ==
  ASSUME list \in Seq(Names)
  PROVE  \E it, c, h : /\ FoldsIn(it, DOMAIN list, Nat, 0, c, h) /\ it[DOMAIN list] = Filled
                       /\ \A i \in DOMAIN list, n \in Nat : h[<<i, n>>] = EntrySize[list[i]] + n
<1> DEFINE S == DOMAIN list
           c == [s \in SUBSET S |-> CHOOSE x \in s : TRUE]
           h == [p \in S \X Nat |-> EntrySize[list[p[1]]] + p[2]]
           F(g) == [s \in SUBSET S |->
                      IF s = {} THEN 0
                      ELSE EntrySize[list[CHOOSE x \in s : TRUE]] + g[s \ {CHOOSE x \in s : TRUE}]]
           it == CHOOSE g : g = F(g)
<1>1. S = 1..Len(list) /\ IsFiniteSet(S)
  BY FS_Interval
<1>2. Filled = it[S]
  BY DEF Filled, MapThenSumSet, MapThenFoldSet
<1> HIDE DEF S
<1>3. Chooses(c, S) /\ \A s \in SUBSET S : c[s] = CHOOSE x \in s : TRUE
  BY DEF Chooses
<1>4. h \in [S \X Nat -> Nat]
  BY <1>1, ServerAssumption
<1>5. it = F(it)
  <2>1. PICK g \in [SUBSET S -> Nat] : Folds(g, S, 0, c, h)
    BY <1>1, <1>3, <1>4, FoldExists
  <2>2. \A s \in SUBSET S : g[s] = F(g)[s]
    BY <1>3, <2>1 DEF Folds, Chooses
  <2>3. g = F(g)
    BY <2>2
  <2> QED
    BY <2>3
<1>6. it[{}] = 0
  BY <1>5
<1>7. ASSUME NEW s \in SUBSET S, s # {}, it[s \ {c[s]}] \in Nat
      PROVE  it[s] = h[<<c[s], it[s \ {c[s]}]>>]
  <2> DEFINE x == CHOOSE y \in s : TRUE
  <2>1. it[s] = EntrySize[list[x]] + it[s \ {x}]
    BY <1>5, <1>7
  <2>2. c[s] = x /\ x \in S
    BY <1>3, <1>7 DEF Chooses
  <2> HIDE DEF c, it, x
  <2> QED
    BY <1>7, <2>1, <2>2
<1>8. FoldsIn(it, S, Nat, 0, c, h)
  <2> HIDE DEF c, h, it
  <2> QED
    BY <1>1, <1>3, <1>4, <1>6, <1>7 DEF FoldsIn
<1>9. \A i \in S, n \in Nat : h[<<i, n>>] = EntrySize[list[i]] + n
  OBVIOUS
<1> HIDE DEF c, h, it
<1> QED
  BY <1>2, <1>8, <1>9 DEF S

(* So many, and none only when there is no entry.                          *)
LEMMA FilledType ==
  ASSUME list \in Seq(Names)
  PROVE  Filled \in Nat /\ (Filled = 0 => list = <<>>)
<1> DEFINE S == DOMAIN list
<1>1. PICK it, c, h : /\ FoldsIn(it, S, Nat, 0, c, h) /\ it[S] = Filled
                      /\ \A i \in S, n \in Nat : h[<<i, n>>] = EntrySize[list[i]] + n
  BY FilledFolds
<1>2. S # {} => Filled # 0
  <2> SUFFICES ASSUME S # {} PROVE Filled # 0
    OBVIOUS
  <2> HIDE DEF S
  <2>1. \A s \in SUBSET S : it[s] \in Nat
    BY <1>1, FoldTypes
  <2>2. c[S] \in S /\ it[S \ {c[S]}] \in Nat
    BY <1>1, <2>1 DEF FoldsIn, Chooses
  <2>3. it[S] = h[<<c[S], it[S \ {c[S]}]>>]
    BY <1>1, <2>2 DEF FoldsIn
  <2>4. list[c[S]] \in Names
    BY <2>2 DEF S
  <2>5. EntrySize[list[c[S]]] \in Nat /\ EntrySize[list[c[S]]] > 0
    BY <2>4, ServerAssumption
  <2> QED
    BY <1>1, <2>2, <2>3, <2>5
<1>3. Filled \in Nat
  <2> HIDE DEF S
  <2> QED
    BY <1>1, FoldType
<1>4. S = {} => list = <<>>
  OBVIOUS
<1> QED
  BY <1>2, <1>3, <1>4

(* What rversion agrees on is no more than before.                         *)
LEMMA AgreedType ==
  ASSUME ServerTypeOK, NEW offer \in Nat
  PROVE  Agreed(offer) \in 0..ServerMsize
<1>1. msize \in 0..ServerMsize /\ ServerMsize \in Nat
  BY ServerAssumption DEF ServerTypeOK
<1>2. \E x \in {msize, offer} : \A y \in {msize, offer} : x =< y
  BY <1>1
<1>3. Agreed(offer) \in {msize, offer} /\ Agreed(offer) <= msize
  BY <1>2 DEF Agreed, Min
<1> QED
  BY <1>1, <1>3

-----------------------------------------------------------------------------
(* What is always so between two steps of the server.  It knows the fid it *)
(* works for, which is not open yet where it is to be opened, and has a    *)
(* descriptor, or a directory stream, when and only when it is open.       *)

At(step, type) == srv = step => req.type = type /\ Known(req.fid)
RequestInd ==
  /\ req = Idle \/ req \in Requests
  /\ req = Idle => srv = "idle"
  /\ At("walk", "Twalk") /\ At("open", "Topen") /\ At("create", "Tcreate")
  /\ At("created", "Tcreate") /\ At("qid", "Tcreate") /\ At("dir", "Tread") /\ At("wstat", "Twstat")
  /\ srv \in {"walk", "open", "create", "created"} => fidtab[req.fid].omode = Closed
  /\ srv \in {"created", "wstat"} => Path(req.fid) # <<>>

Held(p) == p.fd # Nothing \/ p.dir # Nothing
OneHandle(p) == p.fd = Nothing \/ p.dir = Nothing
Matches(p) == OneHandle(p) /\ (p.omode # Closed <=> Held(p))
HandleInd ==
  \A f \in FidIds : Known(f) =>
    IF srv = "created" /\ req.fid = f THEN OneHandle(fidtab[f]) /\ Held(fidtab[f])
    ELSE Matches(fidtab[f])

ServerInd == HostTypeOK /\ ServerTypeOK /\ RequestInd /\ HandleInd

(* A request says which fid, and what its handler needs to know.           *)
LEMMA RequestFields ==
  ASSUME req \in Requests
  PROVE  /\ req # Idle
         /\ req.type = "Tversion" => req.msize \in Nat
         /\ req.type \in {"Tattach", "Tclunk", "Tremove", "Tstat", "Twalk", "Topen", "Tcreate",
                          "Tread", "Twrite", "Twstat"} => req.fid \in FidIds
         /\ req.type = "Twalk" => req.newfid \in FidIds /\ req.wname \in Seq(Names \cup {Dot, DotDot})
         /\ req.type \in {"Topen", "Tcreate"} => req.mode \in Modes /\ req.rclose \in BOOLEAN
         /\ req.type = "Tcreate" => req.name \in Names
         /\ req.type = "Tread" => req.offset \in Nat /\ req.count \in Nat
         /\ req.type = "Twrite" => req.offset \in Nat /\ req.data \in Seq(Byte)
         /\ req.type = "Twstat" => req.name \in Names \cup {Nothing} /\ req.length \in Nat \cup {Nothing}
BY DEF Requests, Idle

(* An entry of the fid table.                                              *)
LEMMA FidFields ==
  ASSUME NEW p \in FidRec
  PROVE  /\ p.path \in Paths /\ p.omode \in Modes \cup {Closed} /\ p.rclose \in BOOLEAN
         /\ p.fd \in Inodes \cup {Nothing} /\ p.dir \in Inodes \cup {Nothing}
         /\ p.todo \in SUBSET Names /\ p.dirent \in Names \cup {Nothing}
         /\ p.diroffset \in Nat /\ p.direof \in BOOLEAN
BY DEF FidRec, Paths

(* An entry just made is a name and nothing more.                          *)
LEMMA NewFidType ==
  ASSUME NEW path \in Paths
  PROVE  NewFid(path) \in FidRec /\ Matches(NewFid(path)) /\ NewFid(path).omode = Closed
BY DEF NewFid, FidRec, Paths, Matches, OneHandle, Held

(* A handler changes its entry in one of these ways.                       *)
LEMMA RenamedFid ==
  ASSUME NEW p \in FidRec, NEW path \in Paths
  PROVE  LET q == [p EXCEPT !.path = path]
         IN  q \in FidRec /\ (Matches(p) => Matches(q))
BY DEF FidRec, Paths, Matches, OneHandle, Held

(* It is opened with the mode asked for.                                   *)
LEMMA OpenedFid ==
  ASSUME NEW p \in FidRec, NEW mode \in Modes, NEW rclose \in BOOLEAN
  PROVE  LET q == [p EXCEPT !.omode = mode, !.rclose = rclose]
         IN  /\ q \in FidRec /\ q.omode # Closed /\ q.fd = p.fd /\ q.dir = p.dir
             /\ q.path = p.path
BY DEF FidRec, Modes, Closed

(* It gets a descriptor.                                                   *)
LEMMA FileFid ==
  ASSUME NEW p \in FidRec, NEW fd \in Inodes
  PROVE  LET q == [p EXCEPT !.fd = fd]
         IN  q \in FidRec /\ q.fd = fd /\ q.dir = p.dir /\ q.omode = p.omode
BY DEF FidRec

-----------------------------------------------------------------------------
(* The host's file system. *)

(* What making, removing, renaming and writing leave is a file system.     *)
LEMMA MakeType ==
  ASSUME HostTypeOK, NEW dir, NEW name, Fresh # {}, NEW k \in {"dir", "file"}, Make(dir, name, k)
  PROVE  HostTypeOK' /\ NextInode \in Inodes
<1>1. NextInode \in Inodes
  BY DEF NextInode, Fresh
<1>2. kind' \in [Inodes -> {"free", "dir", "file"}]
  BY <1>1 DEF HostTypeOK, Make
<1>3. ent' \in [Inodes -> [Names -> Inodes \cup {Nothing}]]
  <2> DEFINE at == Stat(dir)
             new == NextInode
  <2>1. ent' = [ent EXCEPT ![at][name] = new] /\ new \in Inodes
    BY <1>1 DEF Make
  <2> HIDE DEF at, new
  <2> QED
    BY <2>1 DEF HostTypeOK
<1> QED
  BY <1>1, <1>2, <1>3 DEF HostTypeOK, Make

(* So does a remove.                                                       *)
LEMMA UnlinkType ==
  ASSUME HostTypeOK, NEW path, Unlink(path)
  PROVE  HostTypeOK'
<1> DEFINE at == Stat(Front(path))
           name == Last(path)
<1>1. ent' = [ent EXCEPT ![at][name] = Nothing]
  BY DEF Unlink
<1> HIDE DEF at, name
<1>2. ent' \in [Inodes -> [Names -> Inodes \cup {Nothing}]]
  BY <1>1 DEF HostTypeOK
<1> QED
  BY <1>2 DEF HostTypeOK, Unlink

(* So does a rename.                                                       *)
LEMMA RenameType ==
  ASSUME HostTypeOK, NEW path \in Paths, NEW name, Rename(path, name)
  PROVE  HostTypeOK'
<1> DEFINE at == Stat(Front(path))
           old == Last(path)
           i == Stat(path)
<1>1. ent' = [ent EXCEPT ![at] = [@ EXCEPT ![old] = Nothing, ![name] = i]]
  BY DEF Rename
<1>2. i \in Inodes \cup {Nothing}
  BY StatType
<1> HIDE DEF at, old, i
<1>3. \A e \in [Names -> Inodes \cup {Nothing}] :
        [e EXCEPT ![old] = Nothing, ![name] = i] \in [Names -> Inodes \cup {Nothing}]
  BY <1>2
<1>4. ent' \in [Inodes -> [Names -> Inodes \cup {Nothing}]]
  BY <1>1, <1>3 DEF HostTypeOK
<1> QED
  BY <1>4 DEF HostTypeOK, Rename

(* And so does a write.                                                    *)
LEMMA WriteType ==
  ASSUME HostTypeOK, NEW i, NEW bytes, i \in Inodes => bytes \in Seq(Byte), Write(i, bytes)
  PROVE  HostTypeOK'
<1>1. data' \in [Inodes -> Seq(Byte)]
  BY DEF HostTypeOK, Write
<1> QED
  BY <1>1 DEF HostTypeOK, Write

(* What pwrite and truncate make of a file's bytes are bytes.              *)
LEMMA OverlayType ==
  ASSUME NEW s \in Seq(Byte), NEW offset \in Nat, NEW bytes \in Seq(Byte)
  PROVE  Overlay(s, offset, bytes) \in Seq(Byte)
<1> DEFINE a == Len(s)
           b == offset + Len(bytes)
           n == Max({a, b})
<1>1. a \in Nat /\ b \in Nat
  OBVIOUS
<1>2. n \in {a, b}
  <2> HIDE DEF a, b
  <2>1. \E x \in {a, b} : \A y \in {a, b} : x >= y
    BY <1>1
  <2> QED
    BY <2>1 DEF Max
<1> HIDE DEF n
<1>3. \A i \in 1..n : (IF i \in offset + 1..offset + Len(bytes) THEN bytes[i - offset]
                       ELSE IF i <= Len(s) THEN s[i] ELSE 0) \in Byte
  BY HostAssumption
<1>4. n \in Nat
  BY <1>1, <1>2
<1>5. Overlay(s, offset, bytes) = [i \in 1..n |-> IF i \in offset + 1..offset + Len(bytes) THEN bytes[i - offset]
                                                  ELSE IF i <= Len(s) THEN s[i] ELSE 0]
  BY DEF Overlay, n
<1> QED
  BY <1>3, <1>4, <1>5

(* The same of truncate.                                                   *)
LEMMA ResizedType ==
  ASSUME NEW s \in Seq(Byte), NEW n \in Nat
  PROVE  Resized(s, n) \in Seq(Byte)
<1>1. \A i \in 1..n : (IF i <= Len(s) THEN s[i] ELSE 0) \in Byte
  BY HostAssumption
<1> QED
  BY <1>1 DEF Resized

-----------------------------------------------------------------------------
(* The fid table. *)

(* An entry in use is a record with a path.                                *)
LEMMA KnownFid ==
  ASSUME ServerTypeOK, NEW f \in FidIds, Known(f)
  PROVE  fidtab[f] \in FidRec /\ Path(f) \in Paths
<1>1. fidtab[f] \in FidRec
  BY DEF ServerTypeOK, Known
<1> QED
  BY <1>1, FidFields DEF Path

Table == [FidIds -> FidRec \cup {NoFid}]
(* An entry changes, the others stay.                                      *)
LEMMA UpdatedTable ==
  ASSUME ServerTypeOK, NEW f \in FidIds, NEW q \in FidRec \cup {NoFid},
         fidtab' = [fidtab EXCEPT ![f] = q]
  PROVE  fidtab' \in Table /\ fidtab'[f] = q /\ \A g \in FidIds \ {f} : fidtab'[g] = fidtab[g]
BY DEF ServerTypeOK, Table

(* A handler that answers is done: the open fids have their handles.       *)
LEMMA AnsweredInd ==
  ASSUME ServerInd, NEW reply, NEW limit, AnswerIn(reply, limit), msize' \in 0..ServerMsize, HostTypeOK',
         fidtab' \in Table, \A f \in FidIds : fidtab'[f] # NoFid => Matches(fidtab'[f])
  PROVE  ServerInd'
<1>1. req' = Idle /\ srv' = "idle" /\ seen' = "free" /\ list' = <<>>
  BY DEF AnswerIn
<1>2. ServerTypeOK'
  BY <1>1 DEF ServerTypeOK, Table
<1>3. RequestInd'
  BY <1>1 DEF RequestInd, At
<1>4. HandleInd'
  BY <1>1 DEF HandleInd, Known
<1> QED
  BY <1>2, <1>3, <1>4 DEF ServerInd

(* When the table is as it was, or an entry is new or gone, that is so.    *)
LEMMA KeptTable ==
  ASSUME ServerInd, srv # "created", UNCHANGED fidtab
  PROVE  fidtab' \in Table /\ \A f \in FidIds : fidtab'[f] # NoFid => Matches(fidtab'[f])
BY DEF ServerInd, ServerTypeOK, HandleInd, Known, Table

(* The same when one entry changes.                                        *)
LEMMA ChangedTable ==
  ASSUME ServerInd, NEW f \in FidIds, srv # "created" \/ req.fid = f, NEW q \in FidRec \cup {NoFid},
         q # NoFid => Matches(q), fidtab' = [fidtab EXCEPT ![f] = q]
  PROVE  fidtab' \in Table /\ \A g \in FidIds : fidtab'[g] # NoFid => Matches(fidtab'[g])
<1>1. fidtab' \in Table /\ fidtab'[f] = q /\ \A g \in FidIds \ {f} : fidtab'[g] = fidtab[g]
  BY UpdatedTable DEF ServerInd
<1>2. \A g \in FidIds \ {f} : fidtab[g] # NoFid => Matches(fidtab[g])
  BY DEF ServerInd, HandleInd, Known
<1> QED
  BY <1>1, <1>2

(* A handler that answers and changes no fid keeps ServerInd.              *)
LEMMA KeptInd ==
  ASSUME ServerInd, NEW reply, Answer(reply), msize' \in 0..ServerMsize, HostTypeOK',
         srv # "created", UNCHANGED fidtab
  PROVE  ServerInd'
BY KeptTable, AnsweredInd DEF Answer

(* So does one that changes one fid.                                       *)
LEMMA ChangedInd ==
  ASSUME ServerInd, NEW reply, Answer(reply), msize' \in 0..ServerMsize, HostTypeOK',
         NEW f \in FidIds, srv # "created" \/ req.fid = f, NEW q \in FidRec \cup {NoFid},
         q # NoFid => Matches(q), fidtab' = [fidtab EXCEPT ![f] = q]
  PROVE  ServerInd'
BY ChangedTable, AnsweredInd DEF Answer

(* So does one that has looked at the file.                                *)
LEMMA LookedInd ==
  ASSUME ServerInd, srv = "idle", req \in Requests, req.fid \in FidIds, Known(req.fid),
         Exists(Path(req.fid)), UNCHANGED <<fsVars, msize>>, NEW next, Look(req.fid, next),
         \/ next = "walk" /\ req.type = "Twalk"
         \/ next = "open" /\ req.type = "Topen"
         \/ next = "create" /\ req.type = "Tcreate"
         \/ next = "wstat" /\ req.type = "Twstat",
         next # "wstat" => fidtab[req.fid].omode = Closed, next = "wstat" => Path(req.fid) # <<>>
  PROVE  ServerInd'
<1>1. /\ srv' = next /\ UNCHANGED <<fidtab, req, list, msize, kind, ent, data>>
      /\ seen' = kind[Stat(Path(req.fid))]
  BY DEF Look, fsVars, link
<1>2. HostTypeOK'
  BY <1>1 DEF ServerInd, HostTypeOK
<1>3. seen' \in {"free", "dir", "file"}
  <2>1. Stat(Path(req.fid)) \in Inodes
    BY KnownFid, StatType DEF ServerInd, Exists
  <2> QED
    BY <1>1, <2>1 DEF ServerInd, HostTypeOK
<1>4. ServerTypeOK'
  BY <1>1, <1>3 DEF ServerInd, ServerTypeOK
<1>5. RequestInd'
  BY <1>1, RequestFields DEF RequestInd, At, Known, Path
<1>6. HandleInd'
  BY <1>1 DEF ServerInd, HandleInd, Known
<1> QED
  BY <1>2, <1>4, <1>5, <1>6 DEF ServerInd

-----------------------------------------------------------------------------
(* Every step of the server keeps ServerInd. *)

(* There is a request when one is being handled.                           *)
LEMMA AskedFields ==
  ASSUME ServerInd, req.type # "none"
  PROVE  req \in Requests
BY DEF ServerInd, RequestInd, Idle

(* A handler at work knows its request and its fid.                        *)
LEMMA StepFields ==
  ASSUME ServerInd, srv # "idle"
  PROVE  req \in Requests /\ req.fid \in FidIds
<1>1. req \in Requests
  BY DEF ServerInd, RequestInd
<1>2. srv \in {"walk", "open", "create", "created", "qid", "dir", "wstat"}
  BY DEF ServerInd, ServerTypeOK
<1>3. req.type \in {"Twalk", "Topen", "Tcreate", "Tread", "Twstat"}
  BY <1>2 DEF ServerInd, RequestInd, At
<1> QED
  BY <1>1, <1>3, RequestFields

(* What the file system is does not depend on the server.                  *)
LEMMA SameFS ==
  ASSUME HostTypeOK, UNCHANGED fsVars
  PROVE  HostTypeOK'
BY DEF HostTypeOK, fsVars

(* Nor does the message size but for rversion.                             *)
LEMMA SameSize ==
  ASSUME ServerInd, UNCHANGED msize
  PROVE  msize' \in 0..ServerMsize
BY DEF ServerInd, ServerTypeOK

(* rversion agrees on a size and forgets no fid.                           *)
LEMMA VersionInd ==
  ASSUME ServerInd, rversion
  PROVE  ServerInd'
<1>1. srv = "idle" /\ req.msize \in Nat /\ UNCHANGED fidtab
  BY AskedFields, RequestFields DEF rversion, Asked
<1>2. msize' \in 0..ServerMsize
  BY <1>1, AgreedType DEF rversion, ServerInd
<1>3. HostTypeOK'
  BY SameFS DEF rversion, ServerInd
<1>4. PICK reply : AnswerIn(reply, msize')
  BY DEF rversion
<1>5. fidtab' \in Table /\ \A f \in FidIds : fidtab'[f] # NoFid => Matches(fidtab'[f])
  BY <1>1, KeptTable
<1> QED
  BY <1>2, <1>3, <1>4, <1>5, AnsweredInd

(* rauth, rflush and rstat change nothing.                                 *)
LEMMA AuthInd ==
  ASSUME ServerInd, rauth \/ rstat
  PROVE  ServerInd'
<1>1. srv = "idle" /\ UNCHANGED <<fsVars, fidtab, msize>> /\ \E reply : Answer(reply)
  BY DEF rauth, rstat, Asked, Refuse
<1>2. HostTypeOK'
  BY <1>1, SameFS DEF ServerInd
<1> QED
  BY <1>1, <1>2, SameSize, KeptInd

(* rattach makes an entry for the root.                                    *)
LEMMA AttachInd ==
  ASSUME ServerInd, rattach
  PROVE  ServerInd'
<1>1. srv = "idle" /\ req.fid \in FidIds /\ UNCHANGED <<fsVars, msize>>
  BY AskedFields, RequestFields DEF rattach, Asked
<1>2. HostTypeOK'
  BY <1>1, SameFS DEF ServerInd
<1>3. CASE Refuse
  BY <1>1, <1>2, <1>3, SameSize, KeptInd DEF Refuse
<1>4. CASE fidtab' = [fidtab EXCEPT ![req.fid] = NewFid(<<>>)] /\ Answer([type |-> "Rattach"])
  <2>1. NewFid(<<>>) \in FidRec /\ Matches(NewFid(<<>>))
    <3>1. <<>> \in Paths
      BY DEF Paths
    <3> QED
      BY <3>1, NewFidType
  <2> QED
    BY <1>1, <1>2, <1>4, <2>1, SameSize, ChangedInd
<1> QED
  BY <1>3, <1>4 DEF rattach

(* rwalk looks at the directory it starts from.                            *)
LEMMA WalkInd ==
  ASSUME ServerInd, rwalk
  PROVE  ServerInd'
<1>1. /\ srv = "idle" /\ req \in Requests /\ req.fid \in FidIds /\ req.type = "Twalk"
      /\ UNCHANGED <<fsVars, msize>>
  BY AskedFields, RequestFields DEF rwalk, Asked
<1>2. CASE CanWalk(req.fid, req.newfid, req.wname) /\ Look(req.fid, "walk")
  <2>1. Known(req.fid) /\ fidtab[req.fid].omode = Closed /\ Exists(Path(req.fid))
    BY <1>2 DEF CanWalk, OldFid
  <2> QED
    BY <1>1, <1>2, <2>1, LookedInd
<1>3. CASE Refuse
  <2>1. HostTypeOK'
    BY <1>1, SameFS DEF ServerInd
  <2> QED
    BY <1>1, <1>3, <2>1, SameSize, KeptInd DEF Refuse
<1> QED
  BY <1>2, <1>3 DEF rwalk

(* userwalk renames its fid or makes the new one, or neither.              *)
LEMMA UserWalkInd ==
  ASSUME ServerInd, userwalk
  PROVE  ServerInd'
<1> DEFINE w == WalkFrom(Path(req.fid), req.wname)
<1>1. /\ srv = "walk" /\ req \in Requests /\ req.fid \in FidIds /\ req.type = "Twalk"
      /\ Known(req.fid) /\ UNCHANGED <<fsVars, msize>>
  BY StepFields DEF userwalk, ServerInd, RequestInd, At
<1>2. HostTypeOK' /\ msize' \in 0..ServerMsize
  BY <1>1, SameFS, SameSize DEF ServerInd
<1>3. req.newfid \in FidIds /\ req.wname \in Seq(Names \cup {Dot, DotDot})
  BY <1>1, RequestFields
<1>4. fidtab[req.fid] \in FidRec /\ w \in Walked /\ w.path \in Paths
  BY <1>1, <1>3, KnownFid, WalkType DEF ServerInd, Walked
<1>5. PICK reply : Answer(reply)
  BY DEF userwalk
<1>6. CASE UNCHANGED fidtab
  BY <1>1, <1>2, <1>5, <1>6, KeptInd
<1>7. CASE fidtab' = [fidtab EXCEPT ![req.newfid] =
                        IF req.newfid = req.fid THEN [@ EXCEPT !.path = w.path] ELSE NewFid(w.path)]
  <2> DEFINE q == IF req.newfid = req.fid THEN [fidtab[req.newfid] EXCEPT !.path = w.path] ELSE NewFid(w.path)
  <2>1. q \in FidRec /\ Matches(q)
    <3>1. Matches(fidtab[req.fid])
      BY <1>1 DEF ServerInd, HandleInd
    <3> HIDE DEF w
    <3>2. CASE req.newfid = req.fid
      BY <1>4, <3>1, <3>2, RenamedFid
    <3>3. CASE req.newfid # req.fid
      BY <1>4, <3>3, NewFidType
    <3> QED
      BY <3>2, <3>3
  <2>2. fidtab' = [fidtab EXCEPT ![req.newfid] = q]
    BY <1>7
  <2> HIDE DEF q
  <2> QED
    BY <1>1, <1>2, <1>3, <1>5, <2>1, <2>2, ChangedInd
<1> QED
  BY <1>6, <1>7 DEF userwalk

(* ropen looks at the file.                                                *)
LEMMA OpenInd ==
  ASSUME ServerInd, ropen
  PROVE  ServerInd'
<1>1. /\ srv = "idle" /\ req \in Requests /\ req.fid \in FidIds /\ req.type = "Topen"
      /\ UNCHANGED <<fsVars, msize>>
  BY AskedFields, RequestFields DEF ropen, Asked
<1>2. CASE OldFid(req.fid) /\ Exists(Path(req.fid)) /\ Look(req.fid, "open")
  <2>1. Known(req.fid) /\ fidtab[req.fid].omode = Closed /\ Exists(Path(req.fid))
    BY <1>2 DEF OldFid
  <2> QED
    BY <1>1, <1>2, <2>1, LookedInd
<1>3. CASE Refuse
  <2>1. HostTypeOK'
    BY <1>1, SameFS DEF ServerInd
  <2> QED
    BY <1>1, <1>3, <2>1, SameSize, KeptInd DEF Refuse
<1> QED
  BY <1>2, <1>3 DEF ropen

(* useropen opens a directory or a file, or nothing at all.                *)
LEMMA UserOpenInd ==
  ASSUME ServerInd, useropen
  PROVE  ServerInd'
<1> DEFINE f == req.fid
           p == fidtab[f]
<1>1. /\ srv = "open" /\ req \in Requests /\ f \in FidIds /\ req.type = "Topen"
      /\ Known(f) /\ p.omode = Closed /\ UNCHANGED msize
  BY StepFields DEF useropen, ServerInd, RequestInd, At
<1>2. /\ p \in FidRec /\ Path(f) \in Paths /\ p.fd = Nothing /\ p.dir = Nothing
      /\ Stat(Path(f)) \in Inodes \cup {Nothing}
  <2>1. Matches(p)
    BY <1>1 DEF ServerInd, HandleInd
  <2> QED
    BY <1>1, <2>1, KnownFid, StatType DEF ServerInd, Matches, Held
<1>3. req.mode \in Modes /\ req.rclose \in BOOLEAN
  BY <1>1, RequestFields
<1> DEFINE o == Opened(f, p)
           i == Stat(Path(f))
<1>4. o \in FidRec /\ o.omode # Closed /\ o.fd = Nothing /\ o.dir = Nothing
  BY <1>2, <1>3, OpenedFid DEF Opened
<1>5. msize' \in 0..ServerMsize
  BY <1>1, SameSize
<1>6. CASE OpenDir(f) /\ Answer([type |-> "Ropen"])
  <2>1. i \in Inodes
    BY <1>2, <1>6 DEF OpenDir, IsDir, Exists
  <2> DEFINE todo == Listing(i)
             q == [o EXCEPT !.dir = i, !.todo = todo]
  <2>2. todo \in SUBSET Names
    BY DEF Listing
  <2>3. fidtab' = [fidtab EXCEPT ![f] = q] /\ UNCHANGED fsVars
    BY <1>6 DEF OpenDir
  <2> HIDE DEF o, i, todo, p
  <2>4. q \in FidRec /\ q.fd = o.fd /\ q.dir = i /\ q.omode = o.omode
    BY <1>4, <2>1, <2>2 DEF FidRec
  <2> HIDE DEF q
  <2>5. Matches(q)
    BY <1>4, <2>1, <2>4, HostAssumption DEF Matches, OneHandle, Held
  <2>6. HostTypeOK'
    BY <2>3, SameFS DEF ServerInd
  <2> HIDE DEF f
  <2> QED
    BY <1>1, <1>5, <1>6, <2>3, <2>4, <2>5, <2>6, ChangedInd
<1>7. CASE OpenFile(f) /\ Answer([type |-> "Ropen"])
  <2>1. i \in Inodes
    BY <1>2, <1>7 DEF OpenFile, Exists
  <2> DEFINE q == [o EXCEPT !.fd = i]
  <2>2. /\ fidtab' = [fidtab EXCEPT ![f] = q]
        /\ Write(i, <<>>) \/ UNCHANGED fsVars
    BY <1>7 DEF OpenFile
  <2>3. HostTypeOK'
    <3>1. <<>> \in Seq(Byte)
      OBVIOUS
    <3> HIDE DEF i
    <3> QED
      BY <2>2, <3>1, SameFS, WriteType DEF ServerInd
  <2> HIDE DEF o, i
  <2>4. q \in FidRec /\ q.fd = i /\ q.dir = o.dir /\ q.omode = o.omode
    BY <1>4, <2>1, FileFid
  <2> HIDE DEF q
  <2>5. Matches(q)
    BY <1>4, <2>1, <2>4, HostAssumption DEF Matches, OneHandle, Held
  <2> HIDE DEF f
  <2> QED
    BY <1>1, <1>5, <1>7, <2>2, <2>3, <2>4, <2>5, ChangedInd
<1>8. CASE Answer(Rerror) /\ UNCHANGED <<fsVars, fidtab>>
  <2>1. HostTypeOK'
    BY <1>8, SameFS DEF ServerInd
  <2> QED
    BY <1>1, <1>5, <1>8, <2>1, KeptInd
<1> QED
  BY <1>6, <1>7, <1>8 DEF useropen

(* rcreate looks at the directory.                                         *)
LEMMA CreateInd ==
  ASSUME ServerInd, rcreate
  PROVE  ServerInd'
<1>1. /\ srv = "idle" /\ req \in Requests /\ req.fid \in FidIds /\ req.type = "Tcreate"
      /\ UNCHANGED <<fsVars, msize>>
  BY AskedFields, RequestFields DEF rcreate, Asked
<1>2. CASE OldFid(req.fid) /\ IsDir(Path(req.fid)) /\ Look(req.fid, "create")
  <2>1. Known(req.fid) /\ fidtab[req.fid].omode = Closed /\ Exists(Path(req.fid))
    BY <1>2 DEF OldFid, IsDir
  <2> QED
    BY <1>1, <1>2, <2>1, LookedInd
<1>3. CASE Refuse
  <2>1. HostTypeOK'
    BY <1>1, SameFS DEF ServerInd
  <2> QED
    BY <1>1, <1>3, <2>1, SameSize, KeptInd DEF Refuse
<1> QED
  BY <1>2, <1>3 DEF rcreate

(* usercreate gives the fid a handle before it is open.                    *)
LEMMA UserCreateInd ==
  ASSUME ServerInd, usercreate
  PROVE  ServerInd'
<1> DEFINE f == req.fid
           p == fidtab[f]
<1>1. /\ srv = "create" /\ req \in Requests /\ f \in FidIds /\ req.type = "Tcreate"
      /\ Known(f) /\ p.omode = Closed /\ UNCHANGED msize
  BY StepFields DEF usercreate, ServerInd, RequestInd, At
<1>2. p \in FidRec /\ Path(f) \in Paths /\ p.path = Path(f) /\ req.name \in Names
  BY <1>1, KnownFid, RequestFields DEF ServerInd, Path
<1>3. msize' \in 0..ServerMsize
  BY <1>1, SameSize
<1>4. CASE Answer(Rerror) /\ UNCHANGED <<fsVars, fidtab>>
  <2>1. HostTypeOK'
    BY <1>4, SameFS DEF ServerInd
  <2> QED
    BY <1>1, <1>3, <1>4, <2>1, KeptInd
<1>5. CASE /\ CanMake(Path(f), req.name)
           /\ req.isdir => req.mode = "read" /\ ~req.trunc
           /\ Make(Path(f), req.name, IF req.isdir THEN "dir" ELSE "file")
           /\ fidtab' = [fidtab EXCEPT ![f] = Made(@)]
           /\ srv' = "created"
           /\ UNCHANGED <<req, seen, list>>
  <2>1. HostTypeOK' /\ NextInode \in Inodes
    <3>1. Fresh # {}
      BY <1>5 DEF CanMake
    <3> QED
      BY <1>5, <3>1, MakeType DEF ServerInd
  <2> DEFINE path == Append(Path(f), req.name)
             dir == IF req.isdir THEN NextInode ELSE Nothing
             fd == IF req.isdir THEN Nothing ELSE NextInode
             q == [p EXCEPT !.path = path, !.dir = dir, !.fd = fd]
  <2>2. path \in Paths /\ path # <<>>
    BY <1>2, FrontOfAppend DEF Paths
  <2>3. /\ fd \in Inodes \cup {Nothing} /\ dir \in Inodes \cup {Nothing}
        /\ fd = Nothing \/ dir = Nothing
        /\ fd # Nothing \/ dir # Nothing
    BY <2>1, HostAssumption
  <2>4. fidtab' = [fidtab EXCEPT ![f] = q]
    <3>1. q = Made(p)
      BY <1>2 DEF Made
    <3> HIDE DEF q
    <3> QED
      BY <1>5, <3>1
  <2> HIDE DEF path, dir, fd, p
  <2>5. q \in FidRec /\ q.fd = fd /\ q.dir = dir /\ q.omode = p.omode /\ q.path = path
    BY <1>2, <2>2, <2>3 DEF FidRec, Paths
  <2> HIDE DEF q
  <2>6. OneHandle(q) /\ Held(q) /\ q.omode = Closed /\ q # NoFid
    <3>1. q # NoFid
      BY <2>5, ServerAssumption
    <3> QED
      BY <1>1, <2>3, <2>5, <3>1 DEF OneHandle, Held
  <2>7. fidtab' \in Table /\ fidtab'[f] = q /\ \A g \in FidIds \ {f} : fidtab'[g] = fidtab[g]
    <3> HIDE DEF f
    <3> QED
      BY <1>1, <2>4, <2>5, UpdatedTable DEF ServerInd
  <2>8. ServerTypeOK'
    BY <1>3, <1>5, <2>7 DEF ServerInd, ServerTypeOK, Table
  <2>9. RequestInd'
    BY <1>1, <1>5, <2>2, <2>5, <2>6, <2>7, RequestFields DEF RequestInd, At, Known, Path
  <2>10. HandleInd'
    BY <1>1, <1>5, <2>6, <2>7 DEF ServerInd, HandleInd, Known
  <2> QED
    BY <2>1, <2>8, <2>9, <2>10 DEF ServerInd
<1> QED
  BY <1>4, <1>5 DEF usercreate, link

(* The fidstat that follows opens the fid or undoes all of it.             *)
LEMMA CreatedInd ==
  ASSUME ServerInd, created
  PROVE  ServerInd'
<1> DEFINE f == req.fid
           p == fidtab[f]
<1>1. /\ srv = "created" /\ req \in Requests /\ f \in FidIds /\ req.type = "Tcreate"
      /\ Known(f) /\ p.omode = Closed /\ Path(f) # <<>> /\ UNCHANGED <<fsVars, msize>>
  BY StepFields DEF created, ServerInd, RequestInd, At
<1>2. p \in FidRec /\ p.path \in Paths /\ p.path # <<>> /\ OneHandle(p) /\ Held(p)
  BY <1>1, KnownFid DEF ServerInd, HandleInd, Path
<1>3. HostTypeOK' /\ msize' \in 0..ServerMsize
  BY <1>1, SameFS, SameSize DEF ServerInd
<1>4. CASE /\ Exists(Path(f))
           /\ fidtab' = [fidtab EXCEPT ![f] = Opened(f, @)]
           /\ srv' = "qid"
           /\ UNCHANGED <<req, seen, list>>
  <2> DEFINE q == Opened(f, p)
  <2>1. q \in FidRec /\ Matches(q) /\ q # NoFid
    <3>1. req.mode \in Modes /\ req.rclose \in BOOLEAN
      BY <1>1, RequestFields
    <3>2. q \in FidRec /\ q.omode # Closed /\ q.fd = p.fd /\ q.dir = p.dir
      BY <1>2, <3>1, OpenedFid DEF Opened
    <3> HIDE DEF q
    <3> QED
      BY <1>2, <3>2, ServerAssumption DEF Matches, OneHandle, Held
  <2>2. fidtab' = [fidtab EXCEPT ![f] = q]
    BY <1>4
  <2> HIDE DEF q
  <2>3. fidtab' \in Table /\ fidtab'[f] = q /\ \A g \in FidIds \ {f} : fidtab'[g] = fidtab[g]
    <3> HIDE DEF f
    <3> QED
      BY <1>1, <2>1, <2>2, UpdatedTable DEF ServerInd
  <2>4. ServerTypeOK'
    BY <1>3, <1>4, <2>3 DEF ServerInd, ServerTypeOK, Table
  <2>5. RequestInd'
    BY <1>1, <1>4, <2>1, <2>3, RequestFields DEF RequestInd, At, Known
  <2>6. HandleInd'
    BY <1>1, <1>4, <2>1, <2>3 DEF ServerInd, HandleInd, Known
  <2> QED
    BY <1>3, <2>4, <2>5, <2>6 DEF ServerInd
<1>5. CASE fidtab' = [fidtab EXCEPT ![f] = Undone(@)] /\ Answer(Rerror)
  <2> DEFINE q == Undone(p)
  <2>1. q \in FidRec /\ Matches(q)
    <3>1. Front(p.path) \in Paths
      BY <1>2, FrontType
    <3> HIDE DEF p
    <3>2. q \in FidRec /\ q.fd = Nothing /\ q.dir = Nothing /\ q.omode = p.omode
      BY <1>2, <3>1 DEF Undone, FidRec, Paths
    <3> QED
      BY <1>1, <3>2 DEF Matches, OneHandle, Held
  <2>2. fidtab' = [fidtab EXCEPT ![f] = q]
    BY <1>5
  <2> HIDE DEF q, f
  <2> QED
    BY <1>1, <1>3, <1>5, <2>1, <2>2, ChangedInd DEF f
<1> QED
  BY <1>4, <1>5 DEF created, link

(* The reply changes no fid.                                               *)
LEMMA RcreatedInd ==
  ASSUME ServerInd, rcreated
  PROVE  ServerInd'
<1>1. srv = "qid" /\ UNCHANGED <<fsVars, fidtab, msize>> /\ \E reply : Answer(reply)
  BY DEF rcreated
<1>2. HostTypeOK'
  BY <1>1, SameFS DEF ServerInd
<1> QED
  BY <1>1, <1>2, SameSize, KeptInd

(* rread reads a file, or begins with a directory, maybe from the start.   *)
LEMMA ReadInd ==
  ASSUME ServerInd, rread
  PROVE  ServerInd'
<1> DEFINE f == req.fid
           p == fidtab[f]
<1>1. /\ srv = "idle" /\ req \in Requests /\ f \in FidIds /\ req.type = "Tread"
      /\ UNCHANGED <<fsVars, msize>>
  BY AskedFields, RequestFields DEF rread, Asked
<1>2. HostTypeOK' /\ msize' \in 0..ServerMsize
  BY <1>1, SameFS, SameSize DEF ServerInd
<1>3. CASE Refuse
  BY <1>1, <1>2, <1>3, KeptInd DEF Refuse
<1>4. CASE ReadFile(f)
  <2>1. UNCHANGED fidtab /\ \E reply : Answer(reply)
    BY <1>4 DEF ReadFile
  <2> QED
    BY <1>1, <1>2, <2>1, KeptInd
<1>5. CASE CanRead(f) /\ ReadDir(f)
  <2> DEFINE q == IF req.offset = p.diroffset THEN p ELSE Rewound(p)
  <2>1. Known(f) /\ p \in FidRec /\ Matches(p)
    BY <1>1, <1>5, KnownFid DEF CanRead, Readable, ServerInd, HandleInd
  <2>2. q \in FidRec /\ Matches(q) /\ q # NoFid
    <3> HIDE DEF p
    <3>1. CASE q = p
      BY <2>1, <3>1, ServerAssumption
    <3>2. CASE q = Rewound(p)
      <4>1. Listing(p.dir) \in SUBSET Names
        BY DEF Listing
      <4> DEFINE todo == Listing(p.dir)
      <4>2. q = [p EXCEPT !.todo = todo, !.diroffset = 0, !.direof = FALSE]
        BY <3>2 DEF Rewound
      <4> HIDE DEF q, todo
      <4>3. q \in FidRec /\ q.fd = p.fd /\ q.dir = p.dir /\ q.omode = p.omode
        BY <2>1, <4>1, <4>2 DEF FidRec, todo
      <4> QED
        BY <2>1, <4>3, ServerAssumption DEF Matches, OneHandle, Held
    <3> QED
      BY <3>1, <3>2
  <2>3. /\ fidtab' = [fidtab EXCEPT ![f] = q]
        /\ \/ \E reply : Answer(reply)
           \/ srv' = "dir" /\ UNCHANGED <<req, seen, list>>
    BY <1>5 DEF ReadDir, link
  <2> HIDE DEF q
  <2>4. CASE \E reply : Answer(reply)
    <3> HIDE DEF f
    <3> QED
      BY <1>1, <1>2, <2>2, <2>3, <2>4, ChangedInd
  <2>5. CASE srv' = "dir" /\ UNCHANGED <<req, seen, list>>
    <3>1. fidtab' \in Table /\ fidtab'[f] = q /\ \A g \in FidIds \ {f} : fidtab'[g] = fidtab[g]
      <4> HIDE DEF f
      <4> QED
        BY <1>1, <2>2, <2>3, UpdatedTable DEF ServerInd
    <3>2. ServerTypeOK'
      BY <1>2, <2>5, <3>1 DEF ServerInd, ServerTypeOK, Table
    <3>3. RequestInd'
      BY <1>1, <2>2, <2>5, <3>1, RequestFields DEF RequestInd, At, Known
    <3>4. HandleInd'
      BY <1>1, <2>2, <2>5, <3>1 DEF ServerInd, HandleInd, Known
    <3> QED
      BY <1>2, <3>2, <3>3, <3>4 DEF ServerInd
  <2> QED
    BY <2>3, <2>4, <2>5
<1> QED
  BY <1>3, <1>4, <1>5 DEF rread

(* A directory read ends and moves the offset on.                          *)
LEMMA DirDoneInd ==
  ASSUME ServerInd, srv = "dir", req.fid \in FidIds, UNCHANGED <<fsVars, msize>>,
         NEW p \in FidRec, Matches(p), DirDone(req.fid, p)
  PROVE  ServerInd'
<1> DEFINE n == p.diroffset + Filled
           q == [p EXCEPT !.diroffset = n]
<1>1. HostTypeOK' /\ msize' \in 0..ServerMsize
  BY SameFS, SameSize DEF ServerInd
<1>2. n \in Nat
  BY FilledType, FidFields DEF ServerInd, ServerTypeOK
<1>3. fidtab' = [fidtab EXCEPT ![req.fid] = q] /\ \E reply : Answer(reply)
  BY DEF DirDone
<1> HIDE DEF n
<1>4. q \in FidRec /\ q.fd = p.fd /\ q.dir = p.dir /\ q.omode = p.omode
  BY <1>2 DEF FidRec
<1> HIDE DEF q
<1>5. Matches(q)
  BY <1>4 DEF Matches, OneHandle, Held
<1> QED
  BY <1>1, <1>3, <1>4, <1>5, ChangedInd

(* One entry is put in the buffer, kept for the next read, or passed over. *)
LEMMA DirTurnInd ==
  ASSUME ServerInd, srv = "dir", req.fid \in FidIds, UNCHANGED <<fsVars, msize>>,
         NEW name \in Names, NEW rest \in SUBSET Names, DirTurn(req.fid, name, rest)
  PROVE  ServerInd'
<1> DEFINE f == req.fid
           p == fidtab[f]
           t == [p EXCEPT !.dirent = name, !.todo = rest]
           u == [t EXCEPT !.dirent = Nothing]
<1>1. HostTypeOK' /\ msize' \in 0..ServerMsize /\ Known(f) /\ req \in Requests /\ req.type = "Tread"
  BY SameFS, SameSize, StepFields DEF ServerInd, RequestInd, At
<1>2. p \in FidRec /\ Matches(p)
  BY <1>1, KnownFid DEF ServerInd, HandleInd
<1>3. t \in FidRec /\ t.fd = p.fd /\ t.dir = p.dir /\ t.omode = p.omode
  <2> HIDE DEF p
  <2> QED
    BY <1>2 DEF FidRec
<1>4. u \in FidRec /\ u.fd = p.fd /\ u.dir = p.dir /\ u.omode = p.omode
  <2> HIDE DEF t
  <2> QED
    BY <1>3 DEF FidRec
<1>5. CASE DirDone(f, t)
  <2> HIDE DEF t, p
  <2>1. Matches(t)
    BY <1>2, <1>3 DEF Matches, OneHandle, Held
  <2> QED
    BY <1>3, <1>5, <2>1, DirDoneInd
<1>6. CASE /\ fidtab' = [fidtab EXCEPT ![f] = u]
           /\ list' \in Seq(Names) /\ UNCHANGED <<req, srv, seen>>
  <2> HIDE DEF u, t, p
  <2>1. Matches(u) /\ u # NoFid
    BY <1>2, <1>4, ServerAssumption DEF Matches, OneHandle, Held
  <2>2. fidtab' \in Table /\ fidtab'[f] = u /\ \A g \in FidIds \ {f} : fidtab'[g] = fidtab[g]
    <3> HIDE DEF f
    <3>1. f \in FidIds
      BY DEF f
    <3> QED
      BY <1>4, <1>6, <3>1, UpdatedTable DEF ServerInd
  <2>3. ServerTypeOK'
    BY <1>1, <1>6, <2>2 DEF ServerInd, ServerTypeOK, Table
  <2>4. RequestInd'
    BY <1>1, <1>6, <2>1, <2>2, RequestFields DEF ServerInd, RequestInd, At, Known
  <2>5. HandleInd'
    BY <1>6, <2>1, <2>2 DEF ServerInd, HandleInd, Known
  <2> QED
    BY <1>1, <2>3, <2>4, <2>5 DEF ServerInd
<1>7. CASE ~Exists(Append(t.path, name))
  <2>1. fidtab' = [fidtab EXCEPT ![f] = PassOver(t)] /\ UNCHANGED <<req, srv, seen, list>>
    BY <1>7 DEF DirTurn, link
  <2>2. list' \in Seq(Names)
    BY <2>1 DEF ServerInd, ServerTypeOK
  <2> QED
    BY <1>6, <2>1, <2>2 DEF PassOver
<1>8. CASE Exists(Append(t.path, name)) /\ Filled + EntrySize[name] > req.count
  BY <1>5, <1>8 DEF DirTurn, KeepWaiting
<1>9. CASE Exists(Append(t.path, name)) /\ ~(Filled + EntrySize[name] > req.count)
  <2>1. /\ fidtab' = [fidtab EXCEPT ![f] = u]
        /\ list' = Append(list, name) /\ UNCHANGED <<req, srv, seen>>
    BY <1>9 DEF DirTurn, link
  <2>2. list' \in Seq(Names)
    BY <2>1 DEF ServerInd, ServerTypeOK
  <2> QED
    BY <1>6, <2>1, <2>2
<1> QED
  BY <1>7, <1>8, <1>9

(* The loop over readdir.                                                  *)
LEMMA ReadDirInd ==
  ASSUME ServerInd, readdir
  PROVE  ServerInd'
<1> DEFINE f == req.fid
           p == fidtab[f]
           e == [p EXCEPT !.direof = TRUE]
<1>1. srv = "dir" /\ f \in FidIds /\ Known(f) /\ UNCHANGED <<fsVars, msize>>
  BY StepFields DEF readdir, ServerInd, RequestInd, At
<1>2. p \in FidRec /\ Matches(p)
  BY <1>1, KnownFid DEF ServerInd, HandleInd
<1>3. p.dirent \in Names \cup {Nothing} /\ p.todo \in SUBSET Names
  BY <1>2, FidFields
<1>4. CASE DirDone(f, p)
  BY <1>1, <1>2, <1>4, DirDoneInd
<1>5. CASE p.dirent # Nothing /\ DirTurn(f, p.dirent, p.todo)
  BY <1>1, <1>3, <1>5, DirTurnInd
<1>6. CASE \E name \in p.todo : DirTurn(f, name, p.todo \ {name})
  BY <1>1, <1>3, <1>6, DirTurnInd
<1>7. CASE DirDone(f, e)
  <2>1. e \in FidRec /\ Matches(e)
    <3> HIDE DEF p
    <3> QED
      BY <1>2 DEF FidRec, Matches, OneHandle, Held
  <2> HIDE DEF e
  <2> QED
    BY <1>1, <1>7, <2>1, DirDoneInd
<1> QED
  BY <1>4, <1>5, <1>6, <1>7 DEF readdir

(* rwrite writes through the descriptor, or nothing.                       *)
LEMMA WriteInd ==
  ASSUME ServerInd, rwrite
  PROVE  ServerInd'
<1> DEFINE i == fidtab[req.fid].fd
<1>1. /\ srv = "idle" /\ req \in Requests /\ req.fid \in FidIds /\ req.type = "Twrite"
      /\ req.offset \in Nat /\ req.data \in Seq(Byte) /\ UNCHANGED msize
  BY AskedFields, RequestFields DEF rwrite, Asked
<1>2. CASE Refuse /\ UNCHANGED fsVars
  <2>1. HostTypeOK'
    BY <1>2, SameFS DEF ServerInd
  <2> QED
    BY <1>1, <1>2, <2>1, SameSize, KeptInd DEF Refuse
<1>3. CASE /\ \E n \in 1..Len(req.data) :
                /\ Write(i, Overlay(data[i], req.offset, SubSeq(req.data, 1, n)))
                /\ Answer([type |-> "Rwrite", count |-> n])
           /\ UNCHANGED fidtab
  <2>1. PICK n \in 1..Len(req.data) :
          /\ Write(i, Overlay(data[i], req.offset, SubSeq(req.data, 1, n)))
          /\ Answer([type |-> "Rwrite", count |-> n])
    BY <1>3
  <2>2. UNCHANGED fidtab
    BY <1>3
  <2>3. i \in Inodes => data[i] \in Seq(Byte)
    BY DEF ServerInd, HostTypeOK
  <2>4. SubSeq(req.data, 1, n) \in Seq(Byte)
    BY <1>1
  <2> HIDE DEF i
  <2>5. HostTypeOK'
    BY <1>1, <2>1, <2>3, <2>4, OverlayType, WriteType DEF ServerInd
  <2> QED
    BY <1>1, <2>1, <2>2, <2>5, SameSize, KeptInd
<1> QED
  BY <1>2, <1>3 DEF rwrite

(* An entry is given back.                                                 *)
LEMMA FreedInd ==
  ASSUME ServerInd, srv = "idle", req.fid \in FidIds, Free(req.fid), HostTypeOK',
         UNCHANGED msize, NEW reply, Answer(reply)
  PROVE  ServerInd'
<1>1. fidtab' = [fidtab EXCEPT ![req.fid] = NoFid]
  BY DEF Free
<1> QED
  BY <1>1, SameSize, ChangedInd

(* rclunk and rremove do that, whatever the remove says.                   *)
LEMMA ClunkInd ==
  ASSUME ServerInd, rclunk \/ rremove
  PROVE  ServerInd'
<1>1. srv = "idle" /\ req.fid \in FidIds /\ UNCHANGED msize
  BY AskedFields, RequestFields DEF rclunk, rremove, Asked
<1>2. Unlink(Path(req.fid)) \/ UNCHANGED fsVars
  BY DEF rclunk, rremove
<1>3. HostTypeOK'
  BY <1>2, SameFS, UnlinkType DEF ServerInd
<1>4. \E reply : Answer(reply)
  BY DEF rclunk, rremove, Refuse
<1>5. CASE Free(req.fid)
  BY <1>1, <1>3, <1>4, <1>5, FreedInd
<1>6. CASE UNCHANGED fidtab
  BY <1>1, <1>3, <1>4, <1>6, SameSize, KeptInd
<1> QED
  BY <1>5, <1>6 DEF rclunk, rremove, Refuse

(* rwstat looks at the file, which is not the root.                        *)
LEMMA LookWstatInd ==
  ASSUME ServerInd, rwstat
  PROVE  ServerInd'
<1>1. /\ srv = "idle" /\ req \in Requests /\ req.fid \in FidIds /\ req.type = "Twstat"
      /\ UNCHANGED <<fsVars, msize>>
  BY AskedFields, RequestFields DEF rwstat, Asked
<1>2. CASE Known(req.fid) /\ Exists(Path(req.fid)) /\ Path(req.fid) # <<>> /\ Look(req.fid, "wstat")
  BY <1>1, <1>2, LookedInd
<1>3. CASE Refuse
  <2>1. HostTypeOK'
    BY <1>1, SameFS DEF ServerInd
  <2> QED
    BY <1>1, <1>3, <2>1, SameSize, KeptInd DEF Refuse
<1> QED
  BY <1>2, <1>3 DEF rwstat

(* What truncate does to the file system.                                  *)
LEMMA TruncateType ==
  ASSUME HostTypeOK, NEW f, Path(f) \in Paths, req.length \in Nat, WstatTruncate(f)
  PROVE  HostTypeOK'
<1> DEFINE i == Stat(Path(f))
<1>1. i \in Inodes
  BY StatType DEF WstatTruncate, Exists
<1>2. Write(i, Resized(data[i], req.length))
  BY DEF WstatTruncate
<1> HIDE DEF i
<1>3. Resized(data[i], req.length) \in Seq(Byte)
  BY <1>1, ResizedType DEF HostTypeOK
<1> QED
  BY <1>2, <1>3, WriteType

(* wstat renames, truncates, or does neither.                              *)
LEMMA WstatInd ==
  ASSUME ServerInd, wstat
  PROVE  ServerInd'
<1> DEFINE f == req.fid
           p == fidtab[f]
<1>1. /\ srv = "wstat" /\ f \in FidIds /\ Known(f) /\ Path(f) # <<>> /\ UNCHANGED msize
      /\ req.name \in Names \cup {Nothing} /\ req.length \in Nat \cup {Nothing}
  BY StepFields, RequestFields DEF wstat, ServerInd, RequestInd, At
<1>2. p \in FidRec /\ Matches(p) /\ p.path \in Paths /\ Path(f) \in Paths /\ p.path # <<>>
  BY <1>1, KnownFid DEF ServerInd, HandleInd, Path
<1>3. msize' \in 0..ServerMsize
  BY <1>1, SameSize
<1>4. CASE req.length # Nothing /\ WstatTruncate(f) /\ UNCHANGED fidtab /\ \E reply : Answer(reply)
  <2>1. HostTypeOK'
    BY <1>1, <1>2, <1>4, TruncateType DEF ServerInd
  <2> QED
    BY <1>1, <1>3, <1>4, <2>1, KeptInd
<1>5. CASE UNCHANGED <<fsVars, fidtab>> /\ \E reply : Answer(reply)
  <2>1. HostTypeOK'
    BY <1>5, SameFS DEF ServerInd
  <2> QED
    BY <1>1, <1>3, <1>5, <2>1, KeptInd
<1>6. CASE req.name # Nothing /\ WstatRename(f) /\ \E reply : Answer(reply)
  <2> DEFINE path == Front(p.path) \o <<req.name>>
             q == [p EXCEPT !.path = path]
  <2>1. path \in Paths
    <3>1. Front(p.path) \in Paths /\ req.name \in Names
      BY <1>1, <1>2, <1>6, FrontType
    <3> HIDE DEF p
    <3> QED
      BY <3>1 DEF Paths
  <2>2. q \in FidRec /\ Matches(q)
    <3> HIDE DEF p, path
    <3> QED
      BY <1>2, <2>1, RenamedFid
  <2>3. fidtab' = [fidtab EXCEPT ![f] = q] /\ (Rename(Path(f), req.name) \/ UNCHANGED fsVars)
    BY <1>6 DEF WstatRename
  <2>4. HostTypeOK'
    <3> HIDE DEF f
    <3> QED
      BY <1>2, <2>3, SameFS, RenameType DEF ServerInd
  <2> HIDE DEF q, f
  <2> QED
    BY <1>1, <1>3, <1>6, <2>2, <2>3, <2>4, ChangedInd
<1> QED
  BY <1>4, <1>5, <1>6 DEF wstat

(* Whatever the server does, ServerInd stays.                              *)
LEMMA ServerStepInd ==
  ASSUME ServerInd, ServerStep
  PROVE  ServerInd'
BY VersionInd, AuthInd, AttachInd, WalkInd, UserWalkInd, OpenInd, UserOpenInd, CreateInd,
   UserCreateInd, CreatedInd, RcreatedInd, ReadInd, ReadDirInd, WriteInd, ClunkInd, LookWstatInd,
   WstatInd DEF ServerStep
=============================================================================
