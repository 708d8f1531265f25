-------------------------- MODULE FlashBootProofs --------------------------
(***************************************************************************)
(* Proofs about FlashBoot, for every value of its constants.               *)
(***************************************************************************)
EXTENDS FlashBoot, FoldLemmas, SequenceTheorems

-----------------------------------------------------------------------------
(* Checksums. *)

(* A checksum is what adding up one long after the other comes to.         *)
LEMMA SumOfPrefixes ==
  ASSUME NEW s \in Seq(Int)
  PROVE  \E p \in [0..Len(s) -> Int] : /\ p[0] = 0
                                     /\ \A k \in 1..Len(s) : p[k] = p[k - 1] + s[k]
                                     /\ p[Len(s)] = SumOf(s)
<1> DEFINE n == Len(s)
           c == LastOf(n)
           h == [p \in (1..n) \X Int |-> p[2] + s[p[1]]]
           F(g) == [t \in SUBSET (1..n) |-> IF t = {} THEN 0 ELSE g[t \ {Max(t)}] + s[Max(t)]]
           it == CHOOSE g : g = F(g)
<1>1. DOMAIN s = 1..n /\ n \in Nat /\ IsFiniteSet(1..n)
  BY FS_Interval
<1>2. SumOf(s) = it[1..n]
  BY <1>1 DEF SumOf, FoldLeft, MapThenFoldSet
<1>3. Chooses(c, 1..n) /\ \A t \in SUBSET (1..n) : c[t] = Max(t)
  BY <1>1, LastIsChosen
<1>4. h \in [(1..n) \X Int -> Int]
  OBVIOUS
<1>5. it = F(it)
  <2>1. PICK g \in [SUBSET (1..n) -> Int] : Folds(g, 1..n, 0, c, h)
    <3> HIDE DEF c, h, n
    <3>1. 0 \in Int
      OBVIOUS
    <3> QED
      BY <1>1, <1>3, <1>4, <3>1, FoldExists, Zenon
  <2>2. \A t \in SUBSET (1..n) : g[t] = F(g)[t]
    BY <1>3, <2>1 DEF Folds, Chooses
  <2>3. g = F(g)
    BY <2>2
  <2> QED
    BY <2>3
<1>6. it[{}] = 0
  BY <1>5
<1>7. ASSUME NEW t \in SUBSET (1..n), t # {}, it[t \ {c[t]}] \in Int
      PROVE  it[t] = h[<<c[t], it[t \ {c[t]}]>>]
  <2> HIDE DEF c, it
  <2>1. c[t] = Max(t) /\ Max(t) \in 1..n
    BY <1>3, <1>7 DEF Chooses
  <2>2. it[t] = it[t \ {Max(t)}] + s[Max(t)]
    BY <1>5, <1>7
  <2> QED
    BY <1>7, <2>1, <2>2
<1>8. FoldsIn(it, 1..n, Int, 0, c, h)
  <2>1. 0 \in Int
    OBVIOUS
  <2> HIDE DEF c, h, it, n
  <2> QED
    BY <1>1, <1>3, <1>4, <1>6, <1>7, <2>1, Zenon DEF FoldsIn
<1>9. PICK p \in [0..n -> Int] : /\ p[0] = 0
                                 /\ \A k \in 1..n : p[k] = h[<<k, p[k - 1]>>]
                                 /\ p[n] = it[1..n]
  <2> HIDE DEF h, it
  <2> QED
    BY <1>1, <1>8, FoldPrefixes
<1>10. \A k \in 1..n : p[k] = p[k - 1] + s[k]
  <2> HIDE DEF it, c
  <2> SUFFICES ASSUME NEW k \in 1..n PROVE p[k] = p[k - 1] + s[k]
    OBVIOUS
  <2>1. k - 1 \in 0..n /\ p[k - 1] \in Int
    BY <1>1
  <2> QED
    BY <1>9, <2>1
<1> QED
  BY <1>2, <1>9, <1>10

(* It is a number.                                                         *)
LEMMA SumOfType ==
  ASSUME NEW s \in Seq(Int)
  PROVE  SumOf(s) \in Int
BY SumOfPrefixes

(* A long that is replaced changes it by the difference.                   *)
LEMMA SumOfReplaced ==
  ASSUME NEW s \in Seq(Int), NEW t \in Seq(Int), Len(t) = Len(s),
         NEW j \in 1..Len(s), \A i \in 1..Len(s) : i # j => t[i] = s[i]
  PROVE  SumOf(t) = SumOf(s) - s[j] + t[j]
<1> DEFINE n == Len(s)
<1>1. PICK p \in [0..n -> Int] : p[0] = 0 /\ (\A k \in 1..n : p[k] = p[k - 1] + s[k]) /\ p[n] = SumOf(s)
  BY SumOfPrefixes
<1>2. PICK q \in [0..n -> Int] : q[0] = 0 /\ (\A k \in 1..n : q[k] = q[k - 1] + t[k]) /\ q[n] = SumOf(t)
  BY SumOfPrefixes
<1>3. n \in Nat /\ s[j] \in Int /\ t[j] \in Int
  OBVIOUS
<1> DEFINE P == {k \in 0..n : q[k] = IF k < j THEN p[k] ELSE p[k] - s[j] + t[j]}
<1>4. \A k \in 0..n : k \in P
  <2>1. 0 \in P
    BY <1>1, <1>2
  <2>2. ASSUME NEW k \in 0..n - 1, k \in P PROVE k + 1 \in P
    <3>1. k + 1 \in 1..n /\ (k + 1) - 1 = k
      OBVIOUS
    <3>2. p[k + 1] = p[k] + s[k + 1] /\ q[k + 1] = q[k] + t[k + 1]
      BY <1>1, <1>2, <3>1
    <3>3. p[k] \in Int /\ q[k] \in Int /\ s[k + 1] \in Int /\ t[k + 1] \in Int
      <4>1. k \in 0..n
        BY <1>3
      <4> HIDE DEF P
      <4>2. p[k] \in Int /\ q[k] \in Int
        BY <4>1
      <4>3. k + 1 \in 1..Len(s) /\ k + 1 \in 1..Len(t)
        BY <3>1
      <4> QED
        BY <4>2, <4>3, ElementOfSeq
    <3>4. q[k] = IF k < j THEN p[k] ELSE p[k] - s[j] + t[j]
      BY <2>2
    <3>5. k + 1 # j => t[k + 1] = s[k + 1]
      BY <3>1
    <3>6. q[k + 1] = IF k + 1 < j THEN p[k + 1] ELSE p[k + 1] - s[j] + t[j]
      <4> HIDE DEF P
      <4>1. j \in Nat /\ k \in Nat
        BY <1>3
      <4>2. CASE k + 1 < j
        BY <1>3, <3>2, <3>3, <3>4, <3>5, <4>1, <4>2
      <4>3. CASE k + 1 = j
        BY <1>3, <3>2, <3>3, <3>4, <4>1, <4>3
      <4>4. CASE k + 1 > j
        <5>1. ~(k < j) /\ ~(k + 1 < j) /\ k + 1 # j
          BY <4>1, <4>4
        <5>2. q[k] = p[k] - s[j] + t[j] /\ t[k + 1] = s[k + 1]
          BY <3>4, <3>5, <5>1
        <5>3. PICK a \in Int, b \in Int, u \in Int, x \in Int, y \in Int :
                a = p[k] /\ b = q[k] /\ u = t[k + 1] /\ x = s[j] /\ y = t[j]
          BY <1>3, <3>3
        <5>6. b = a - x + y
          BY <5>2, <5>3
        <5>4. b + u = (a + u) - x + y
          BY <5>6
        <5>5. q[k + 1] = p[k + 1] - s[j] + t[j]
          BY <3>2, <5>2, <5>3, <5>4
        <5> QED
          BY <5>1, <5>5
      <4> QED
        BY <4>1, <4>2, <4>3, <4>4
    <3> QED
      BY <3>1, <3>6
  <2> HIDE DEF P
  <2> QED
    BY <1>3, <2>1, <2>2, UpTo
<1>5. n \in P
  BY <1>3, <1>4
<1> QED
  BY <1>1, <1>2, <1>3, <1>5

-----------------------------------------------------------------------------
(* Files. *)

(* A part of a sequence of numbers is one.                                 *)
LEMMA PartType ==
  ASSUME NEW S, NEW s \in Seq(S), NEW a \in Nat \ {0}, NEW b \in Nat, b <= Len(s), a <= b + 1
  PROVE  /\ SubSeq(s, a, b) \in Seq(S)
         /\ Len(SubSeq(s, a, b)) = b - a + 1
         /\ \A i \in 1..b - a + 1 : SubSeq(s, a, b)[i] = s[a + i - 1]
<1>1. \A i \in a..b : s[i] \in S
  <2>1. \A i \in a..b : i \in 1..Len(s)
    OBVIOUS
  <2> QED
    BY <2>1, ElementOfSeq
<1> QED
  BY <1>1, SubSeqProperties

(* The bytes of a long make a number.                                      *)
LEMMA BytesType ==
  ASSUME NEW s \in Seq(Nat)
  PROVE  AsLong(s) \in Nat
<1> DEFINE n == Len(s)
           c == FirstOf(n)
           h == [p \in (1..n) \X Nat |-> s[p[1]] + 100 * p[2]]
           F(g) == [t \in SUBSET (1..n) |-> IF t = {} THEN 0 ELSE s[Min(t)] + 100 * g[t \ {Min(t)}]]
           it == CHOOSE g : g = F(g)
<1>1. DOMAIN s = 1..n /\ n \in Nat /\ IsFiniteSet(1..n)
  BY FS_Interval
<1>2. AsLong(s) = it[1..n]
  BY <1>1 DEF AsLong, FoldRight, MapThenFoldSet
<1>3. Chooses(c, 1..n) /\ \A t \in SUBSET (1..n) : c[t] = Min(t)
  BY <1>1, FirstIsChosen
<1>4. h \in [(1..n) \X Nat -> Nat] /\ 0 \in Nat
  OBVIOUS
<1>5. it = F(it)
  <2>1. PICK g \in [SUBSET (1..n) -> Nat] : Folds(g, 1..n, 0, c, h)
    <3> HIDE DEF c, h, n
    <3> QED
      BY <1>1, <1>3, <1>4, FoldExists, Zenon
  <2>2. \A t \in SUBSET (1..n) : g[t] = F(g)[t]
    BY <1>3, <2>1 DEF Folds, Chooses
  <2>3. g = F(g)
    BY <2>2
  <2> QED
    BY <2>3
<1>6. it[{}] = 0
  BY <1>5
<1>7. ASSUME NEW t \in SUBSET (1..n), t # {}, it[t \ {c[t]}] \in Nat
      PROVE  it[t] = h[<<c[t], it[t \ {c[t]}]>>]
  <2> HIDE DEF c, it
  <2>1. c[t] = Min(t) /\ Min(t) \in 1..n
    BY <1>3, <1>7 DEF Chooses
  <2>2. it[t] = s[Min(t)] + 100 * it[t \ {Min(t)}]
    BY <1>5, <1>7
  <2> QED
    BY <1>7, <2>1, <2>2
<1>8. FoldsIn(it, 1..n, Nat, 0, c, h)
  <2> HIDE DEF c, h, it, n
  <2> QED
    BY <1>1, <1>3, <1>4, <1>6, <1>7, Zenon DEF FoldsIn
<1>9. it[1..n] \in Nat
  <2> HIDE DEF c, h, it
  <2> QED
    BY <1>8, FoldType
<1> QED
  BY <1>2, <1>9

(* And the longs of a file are numbers.                                    *)
LEMMA LongsType ==
  ASSUME NEW s \in Seq(Nat)
  PROVE  Longs(s) \in Seq(Int) /\ Len(Longs(s)) = Len(s) \div LongSize
<1>1. LongSize \in Nat \ {0}
  BY FilesAssumption
<1> DEFINE n == Len(s) \div LongSize
<1>2. n \in Nat /\ n * LongSize <= Len(s)
  <2>1. PICK l \in Nat : l = Len(s)
    OBVIOUS
  <2>2. PICK q \in Nat \ {0} : q = LongSize
    BY <1>1
  <2>3. l \div q \in Nat /\ q * (l \div q) <= l
    OBVIOUS
  <2>4. (l \div q) * q = q * (l \div q)
    BY <2>3
  <2> QED
    BY <2>1, <2>2, <2>3, <2>4
<1>3. ASSUME NEW i \in 1..n PROVE LongAt(s, i) \in Int
  <2>1. PICK a \in Nat, b \in Nat, e \in Nat :
          a = (i - 1) * LongSize /\ b = i * LongSize /\ e = n * LongSize /\ b = a + LongSize /\ b <= e
    <3>1. i \in Nat \ {0} /\ i <= n
      BY <1>2
    <3>2. PICK q \in Nat \ {0} : q = LongSize
      BY <1>1
    <3>3. i * q = (i - 1) * q + q /\ i * q \in Nat /\ (i - 1) * q \in Nat /\ n * q \in Nat
      BY <1>2, <3>1
    <3>4. PICK d \in Nat : n = i + d
      BY <1>2, <3>1
    <3>5. n * q = i * q + d * q /\ d * q \in Nat
      BY <3>1, <3>4
    <3>6. i * q <= n * q
      BY <3>3, <3>5
    <3> QED
      BY <3>2, <3>3, <3>6
  <2>2. SubSeq(s, a + 1, b) \in Seq(Nat)
    <3>1. b <= Len(s) /\ a + 1 <= b + 1 /\ a + 1 \in Nat \ {0}
      <4> HIDE DEF n
      <4>1. e <= Len(s) /\ b <= e /\ b = a + LongSize /\ Len(s) \in Nat
        BY <1>2, <2>1
      <4> QED
        BY <1>1, <4>1
    <3> QED
      BY <3>1, PartType
  <2>3. AsLong(SubSeq(s, a + 1, b)) \in Nat
    BY <2>2, BytesType
  <2> QED
    BY <2>1, <2>3 DEF LongAt
<1> QED
  BY <1>2, <1>3 DEF Longs

(* The greatest number of a finite set of them, and the least.             *)
LEMMA Extremes ==
  ASSUME NEW T \in SUBSET Nat, IsFiniteSet(T), T # {}
  PROVE  /\ Max(T) \in T /\ \A x \in T : x <= Max(T)
         /\ Min(T) \in T /\ \A x \in T : Min(T) <= x
<1>1. PICK least \in T : \A x \in T : least <= x
  BY Least
<1>2. \E m \in T : \A x \in T : x <= m
  <2> DEFINE c == [s \in SUBSET T |-> CHOOSE x \in s : TRUE]
             P == {s \in SUBSET T : s = {} \/ \E m \in s : \A x \in s : x <= m}
  <2>1. Chooses(c, T)
    BY DEF Chooses
  <2>2. {} \in P
    OBVIOUS
  <2>3. ASSUME NEW s \in SUBSET T, s # {}, s \ {c[s]} \in P PROVE s \in P
    <3>1. c[s] \in s /\ c[s] \in Nat
      BY <2>1, <2>3 DEF Chooses
    <3> HIDE DEF c
    <3>2. CASE s \ {c[s]} = {}
      <4>1. \A x \in s : x <= c[s]
        BY <3>1, <3>2
      <4> QED
        BY <3>1, <4>1
    <3>3. CASE s \ {c[s]} # {}
      <4>1. PICK m \in s \ {c[s]} : \A x \in s \ {c[s]} : x <= m
        BY <2>3, <3>3
      <4>2. m \in Nat
        OBVIOUS
      <4>3. CASE m <= c[s]
        <5>1. \A x \in s : x <= c[s]
          BY <3>1, <4>1, <4>2, <4>3
        <5> QED
          BY <3>1, <5>1
      <4>4. CASE c[s] <= m
        <5>1. \A x \in s : x <= m
          BY <3>1, <4>1, <4>2, <4>4
        <5> QED
          BY <4>1, <5>1
      <4> QED
        BY <3>1, <4>2, <4>3, <4>4
    <3> QED
      BY <3>2, <3>3
  <2>4. T \in P
    <3> HIDE DEF P, c
    <3> QED
      BY <2>1, <2>2, <2>3, FoldInduction
  <2> QED
    BY <2>4
<1> QED
  BY <1>1, <1>2 DEF Max, Min

(* A function has finitely many values on a finite set.                    *)
LEMMA ImageFinite ==
  ASSUME NEW S, IsFiniteSet(S), NEW g, g = [x \in S |-> g[x]]
  PROVE  IsFiniteSet({g[x] : x \in S})
<1>1. g \in Surjection(S, {g[x] : x \in S})
  BY DEF Surjection
<1> QED
  BY <1>1, FS_Surjection

(* The entries of a program table are finitely many.                       *)
LEMMA EntriesFinite ==
  ASSUME NEW phdrs \in Seq(Entry)
  PROVE  IsFiniteSet(ToSet(phdrs)) /\ ToSet(phdrs) \subseteq Entry
<1>1. DOMAIN phdrs = 1..Len(phdrs) /\ \A i \in 1..Len(phdrs) : phdrs[i] \in Entry
  OBVIOUS
<1>2. ToSet(phdrs) = {phdrs[i] : i \in 1..Len(phdrs)}
  BY <1>1 DEF ToSet
<1>3. IsFiniteSet(1..Len(phdrs))
  BY FS_Interval
<1>4. IsFiniteSet({phdrs[i] : i \in 1..Len(phdrs)})
  <2>1. phdrs = [i \in 1..Len(phdrs) |-> phdrs[i]]
    BY <1>1
  <2> QED
    BY <1>3, <2>1, ImageFinite
<1> QED
  BY <1>1, <1>2, <1>4

(* The highest of finitely many numbers and 0.                             *)
LEMMA Highest ==
  ASSUME NEW S, IsFiniteSet(S), NEW g, g = [x \in S |-> g[x]], \A x \in S : g[x] \in Nat
  PROVE  /\ Max({g[x] : x \in S} \cup {0}) \in Nat
         /\ \A x \in S : g[x] <= Max({g[y] : y \in S} \cup {0})
<1> DEFINE B == {g[x] : x \in S} \cup {0}
<1>1. IsFiniteSet(B) /\ B \in SUBSET Nat /\ 0 \in B
  <2>1. IsFiniteSet({g[x] : x \in S})
    BY ImageFinite
  <2>2. IsFiniteSet({g[x] : x \in S} \cup {0})
    BY <2>1, FS_AddElement
  <2> QED
    BY <2>2
<1>2. \A x \in S : g[x] \in B
  OBVIOUS
<1>3. Max(B) \in B /\ \A x \in B : x <= Max(B)
  <2> HIDE DEF B
  <2> QED
    BY <1>1, Extremes
<1> QED
  BY <1>1, <1>2, <1>3

(* An entry lies within the file, and within a memory of n bytes from base *)
(* on; only some are loaded.                                               *)
Fits(f, base, n, p) ==
  /\ f.data \in Seq(Nat) /\ base \in Nat
  /\ base <= p.paddr /\ p.paddr + p.filesz <= base + n /\ Whole(f, p)
Does(p) == Loaded(p) /\ p.filesz # 0

(* Segments lie between the lowest and the highest address.                *)
LEMMA LoadsLie ==
  ASSUME NEW f, f.phdrs \in Seq(Entry)
  PROVE  /\ Top(f) \in Nat
         /\ \A p \in Loads(f) : /\ p \in Entry /\ Base(f) \in Nat
                                /\ Base(f) <= p.paddr /\ p.paddr + p.memsz <= Top(f)
<1>1. IsFiniteSet(Loads(f)) /\ Loads(f) \subseteq Entry
  BY EntriesFinite, FS_Subset DEF Loads
<1>2. \A p \in Loads(f) : p.paddr \in Nat /\ p.memsz \in Nat
  BY <1>1 DEF Entry
<1> DEFINE A == {p.paddr : p \in Loads(f)}
<1>3. IsFiniteSet(A) /\ A \in SUBSET Nat
  <2> DEFINE g == [p \in Loads(f) |-> p.paddr]
  <2>1. IsFiniteSet({g[p] : p \in Loads(f)})
    <3>1. g = [p \in Loads(f) |-> g[p]]
      OBVIOUS
    <3> HIDE DEF g
    <3> QED
      BY <1>1, <3>1, ImageFinite
  <2>2. {g[p] : p \in Loads(f)} = A
    OBVIOUS
  <2> HIDE DEF g
  <2> QED
    BY <1>2, <2>1, <2>2
<1>4. Top(f) \in Nat /\ \A p \in Loads(f) : p.paddr + p.memsz <= Top(f)
  <2> DEFINE g == [p \in Loads(f) |-> p.paddr + p.memsz]
  <2>1. g = [p \in Loads(f) |-> g[p]] /\ \A p \in Loads(f) : g[p] \in Nat /\ g[p] = p.paddr + p.memsz
    BY <1>2
  <2>2. {g[p] : p \in Loads(f)} = {p.paddr + p.memsz : p \in Loads(f)}
    OBVIOUS
  <2>3. Top(f) = Max({g[p] : p \in Loads(f)} \cup {0})
    BY <2>2 DEF Top
  <2> HIDE DEF g
  <2> QED
    BY <1>1, <2>1, <2>3, Highest
<1>5. ASSUME NEW p \in Loads(f) PROVE Base(f) \in A /\ Base(f) <= p.paddr /\ p.paddr \in A
  <2>1. p.paddr \in A
    OBVIOUS
  <2>2. Base(f) = Min(A)
    BY DEF Base
  <2> HIDE DEF A
  <2>3. A # {}
    BY <2>1
  <2>4. Min(A) \in A /\ \A x \in A : Min(A) <= x
    BY <1>3, <2>3, Extremes
  <2> QED
    BY <2>1, <2>2, <2>4
<1> QED
  BY <1>1, <1>3, <1>4, <1>5

(* A loaded entry puts its bytes where the image has them.                 *)
LEMMA EntryLaid ==
  ASSUME NEW f, NEW base, NEW n \in Nat, NEW p \in Entry, Fits(f, base, n, p), Does(p),
         NEW mem \in Seq(Nat), Len(mem) = n
  PROVE  /\ LoadEntry(f, base, mem, p) \in Seq(Nat) /\ Len(LoadEntry(f, base, mem, p)) = n
         /\ \A i \in 1..n : LoadEntry(f, base, mem, p)[i] = IF Covers(base, p, i) THEN From(f, base, p, i) ELSE mem[i]
<1>1. /\ base \in Nat /\ base <= p.paddr /\ p.paddr + p.filesz <= base + n
      /\ p.offset + p.filesz <= Len(f.data) /\ f.data \in Seq(Nat)
  BY DEF Fits, Whole
<1>2. p.paddr \in Nat /\ p.filesz \in Nat /\ p.offset \in Nat
  BY DEF Entry
<1> DEFINE at == p.paddr - base
           part == Slice(f.data, p.offset, p.filesz)
<1>3. at \in Nat /\ at + p.filesz <= n
  BY <1>1, <1>2
<1>4. /\ part \in Seq(Nat) /\ Len(part) = p.filesz
      /\ \A i \in 1..p.filesz : part[i] = f.data[p.offset + i]
  <2>1. Min({p.offset + p.filesz, Len(f.data)}) = p.offset + p.filesz
    BY <1>1, <1>2 DEF Min
  <2>2. part = SubSeq(f.data, p.offset + 1, p.offset + p.filesz)
    BY <2>1 DEF Slice
  <2>3. p.offset + 1 \in Nat \ {0} /\ p.offset + p.filesz \in Nat /\ p.offset + 1 <= p.offset + p.filesz + 1
    BY <1>2
  <2>4. /\ part \in Seq(Nat) /\ Len(part) = (p.offset + p.filesz) - (p.offset + 1) + 1
        /\ \A i \in 1..(p.offset + p.filesz) - (p.offset + 1) + 1 : part[i] = f.data[(p.offset + 1) + i - 1]
    <3> HIDE DEF part
    <3>1. PICK a \in Nat \ {0}, b \in Nat : a = p.offset + 1 /\ b = p.offset + p.filesz
      BY <2>3
    <3>2. b <= Len(f.data) /\ a <= b + 1
      BY <1>1, <2>3, <3>1
    <3>3. /\ SubSeq(f.data, a, b) \in Seq(Nat) /\ Len(SubSeq(f.data, a, b)) = b - a + 1
          /\ \A i \in 1..b - a + 1 : SubSeq(f.data, a, b)[i] = f.data[a + i - 1]
      BY <1>1, <3>2, PartType
    <3> QED
      BY <2>2, <3>1, <3>3
  <2>5. (p.offset + p.filesz) - (p.offset + 1) + 1 = p.filesz
    BY <1>2
  <2>6. \A i \in 1..p.filesz : (p.offset + 1) + i - 1 = p.offset + i
    BY <1>2
  <2> HIDE DEF part
  <2> QED
    BY <2>4, <2>5, <2>6
<1>5. Max({Len(mem), at + Len(part)}) = n
  <2> HIDE DEF at, part
  <2> QED
    BY <1>1, <1>2, <1>3, <1>4 DEF Max
<1>6. LoadEntry(f, base, mem, p) =
        [i \in 1..n |-> IF i \in at + 1..at + Len(part) THEN part[i - at]
                        ELSE IF i <= Len(mem) THEN mem[i] ELSE 0]
  BY <1>5 DEF Does, LoadEntry, Overlay
<1>7. ASSUME NEW i \in 1..n
      PROVE  /\ LoadEntry(f, base, mem, p)[i] = IF Covers(base, p, i) THEN From(f, base, p, i) ELSE mem[i]
             /\ LoadEntry(f, base, mem, p)[i] \in Nat
  <2> HIDE DEF at, part
  <2>1. i \in Nat /\ i <= Len(mem) /\ mem[i] \in Nat
    BY <1>1
  <2>2. LoadEntry(f, base, mem, p)[i] = IF i \in at + 1..at + p.filesz THEN part[i - at] ELSE mem[i]
    BY <1>4, <1>6, <2>1
  <2>3. Covers(base, p, i) <=> i \in at + 1..at + p.filesz
    <3>1. PICK bs \in Nat, pa \in Nat, fs \in Nat, j \in Nat :
            bs = base /\ pa = p.paddr /\ fs = p.filesz /\ j = i
      BY <1>1, <1>2, <2>1
    <3>2. at \in Nat /\ at = pa - bs
      BY <1>3, <3>1 DEF at
    <3>3. j - 1 + bs \in pa..pa + fs - 1 <=> j \in at + 1..at + fs
      BY <3>2
    <3> QED
      BY <3>1, <3>3 DEF Covers
  <2>4. ASSUME i \in at + 1..at + p.filesz PROVE part[i - at] = From(f, base, p, i) /\ part[i - at] \in Nat
    <3>1. i - at \in 1..p.filesz
      <4>1. PICK fs \in Nat : fs = p.filesz
        BY <1>2
      <4>2. at \in Nat /\ i \in at + 1..at + fs
        BY <1>3, <2>4, <4>1
      <4>3. i - at \in 1..fs
        BY <4>2
      <4> QED
        BY <4>1, <4>3
    <3>2. p.offset + (i - at) = p.offset + i + base - p.paddr
      BY <1>1, <1>2, <2>1 DEF at
    <3>3. part[i - at] = f.data[p.offset + (i - at)]
      BY <1>4, <3>1
    <3>4. part[i - at] \in Nat
      BY <1>4, <3>1, ElementOfSeq
    <3> QED
      BY <3>2, <3>3, <3>4 DEF From
  <2> QED
    BY <2>1, <2>2, <2>3, <2>4
<1> QED
  <2> HIDE DEF at, part
  <2>1. LoadEntry(f, base, mem, p) \in Seq(Nat) /\ Len(LoadEntry(f, base, mem, p)) = n
    BY <1>1, <1>6, <1>7
  <2> QED
    BY <1>7, <2>1

(* A memory in which the first k entries are laid: the bytes of each, and  *)
(* what was there before where none of them is.                            *)
LaidUpto(f, phdrs, base, before, k, mem) ==
  \A i \in 1..Len(before) :
     \/ \E j \in 1..k : /\ Does(phdrs[j]) /\ Covers(base, phdrs[j], i)
                        /\ mem[i] = From(f, base, phdrs[j], i)
     \/ (\A j \in 1..k : ~(Does(phdrs[j]) /\ Covers(base, phdrs[j], i))) /\ mem[i] = before[i]

(* The table of a file whose loaded entries fit.                           *)
TableFits(f, phdrs, base, before) ==
  /\ phdrs \in Seq(Entry) /\ before \in Seq(Nat)
  /\ \A j \in 1..Len(phdrs) : Does(phdrs[j]) => Fits(f, base, Len(before), phdrs[j])

(* The next one is laid over them.                                         *)
LEMMA LaidNext ==
  ASSUME NEW f, NEW phdrs, NEW base, NEW before, TableFits(f, phdrs, base, before),
         NEW k \in 1..Len(phdrs), NEW mem \in Seq(Nat), Len(mem) = Len(before),
         LaidUpto(f, phdrs, base, before, k - 1, mem)
  PROVE  /\ LoadEntry(f, base, mem, phdrs[k]) \in Seq(Nat)
         /\ Len(LoadEntry(f, base, mem, phdrs[k])) = Len(before)
         /\ LaidUpto(f, phdrs, base, before, k, LoadEntry(f, base, mem, phdrs[k]))
<1> DEFINE p == phdrs[k]
           new == LoadEntry(f, base, mem, p)
<1>1. p \in Entry /\ k \in 1..k /\ k \in Nat /\ \A j \in 1..k : j = k \/ j \in 1..(k - 1)
  BY DEF TableFits
<1>2. \A j \in 1..(k - 1) : j \in 1..k
  BY <1>1
<1>3. CASE Does(p)
  <2>1. PICK n \in Nat : n = Len(before)
    BY DEF TableFits
  <2>2. /\ new \in Seq(Nat) /\ Len(new) = n
        /\ \A i \in 1..n : new[i] = IF Covers(base, p, i) THEN From(f, base, p, i) ELSE mem[i]
    <3>1. Fits(f, base, n, p)
      BY <1>3, <2>1 DEF TableFits
    <3>2. PICK e \in Entry : e = p
      BY <1>1
    <3>3. Fits(f, base, n, e) /\ Does(e) /\ Len(mem) = n
      BY <1>3, <2>1, <3>1, <3>2
    <3>4. /\ LoadEntry(f, base, mem, e) \in Seq(Nat) /\ Len(LoadEntry(f, base, mem, e)) = n
          /\ \A i \in 1..n : LoadEntry(f, base, mem, e)[i] = IF Covers(base, e, i) THEN From(f, base, e, i) ELSE mem[i]
      BY <3>3, EntryLaid
    <3> HIDE DEF p
    <3> QED
      BY <3>2, <3>4
  <2>3. LaidUpto(f, phdrs, base, before, k, new)
    <3> HIDE DEF new
    <3> SUFFICES ASSUME NEW i \in 1..Len(before)
                 PROVE  \/ \E j \in 1..k : /\ Does(phdrs[j]) /\ Covers(base, phdrs[j], i)
                                           /\ new[i] = From(f, base, phdrs[j], i)
                        \/ (\A j \in 1..k : ~(Does(phdrs[j]) /\ Covers(base, phdrs[j], i))) /\ new[i] = before[i]
      BY DEF LaidUpto
    <3>1. CASE Covers(base, p, i)
      BY <1>1, <1>3, <2>1, <2>2, <3>1
    <3>2. CASE ~Covers(base, p, i)
      <4>1. new[i] = mem[i]
        BY <2>1, <2>2, <3>2
      <4>2. \/ \E j \in 1..(k - 1) : /\ Does(phdrs[j]) /\ Covers(base, phdrs[j], i)
                                     /\ mem[i] = From(f, base, phdrs[j], i)
            \/ (\A j \in 1..(k - 1) : ~(Does(phdrs[j]) /\ Covers(base, phdrs[j], i))) /\ mem[i] = before[i]
        BY DEF LaidUpto
      <4> QED
        BY <1>1, <1>2, <3>2, <4>1, <4>2
    <3> QED
      BY <3>1, <3>2
  <2> QED
    BY <2>1, <2>2, <2>3
<1>4. CASE ~Does(p)
  <2>1. new = mem
    BY <1>4 DEF LoadEntry, Does
  <2>2. LaidUpto(f, phdrs, base, before, k, mem)
    BY <1>1, <1>2, <1>4 DEF LaidUpto
  <2> QED
    BY <2>1, <2>2
<1> QED
  BY <1>3, <1>4

(* All of them are laid.                                                   *)
LEMMA LaidAll ==
  ASSUME NEW f, NEW phdrs, NEW base, NEW before, TableFits(f, phdrs, base, before)
  PROVE  /\ Laid(f, phdrs, base, before) \in Seq(Nat)
         /\ Len(Laid(f, phdrs, base, before)) = Len(before)
         /\ LaidUpto(f, phdrs, base, before, Len(phdrs), Laid(f, phdrs, base, before))
<1> DEFINE n == Len(phdrs)
           X == {mem \in Seq(Nat) : Len(mem) = Len(before)}
           c == LastOf(n)
           keep(k, mem) == LoadEntry(f, base, mem, phdrs[k])
           h == [q \in (1..n) \X X |-> keep(q[1], q[2])]
           F(g) == [s \in SUBSET (1..n) |-> IF s = {} THEN before ELSE keep(Max(s), g[s \ {Max(s)}])]
           it == CHOOSE g : g = F(g)
<1>1. DOMAIN phdrs = 1..n /\ n \in Nat /\ IsFiniteSet(1..n)
  BY FS_Interval DEF TableFits
<1>2. Laid(f, phdrs, base, before) = it[1..n]
  BY <1>1 DEF Laid, FoldLeft, MapThenFoldSet
<1>3. Chooses(c, 1..n) /\ \A s \in SUBSET (1..n) : c[s] = Max(s)
  BY <1>1, LastIsChosen
<1>4. before \in X
  BY DEF TableFits
<1>5. ASSUME NEW k \in 1..n, NEW mem \in X PROVE keep(k, mem) \in X
  <2>1. mem \in Seq(Nat) /\ Len(mem) = Len(before) /\ phdrs[k] \in Entry /\ Len(before) \in Nat
    BY DEF TableFits
  <2>2. CASE Does(phdrs[k])
    <3>1. PICK e \in Entry, l \in Nat : e = phdrs[k] /\ l = Len(before)
      BY <2>1
    <3>2. Fits(f, base, l, e) /\ Does(e) /\ Len(mem) = l
      BY <2>1, <2>2, <3>1 DEF TableFits
    <3>3. LoadEntry(f, base, mem, e) \in Seq(Nat) /\ Len(LoadEntry(f, base, mem, e)) = l
      BY <2>1, <3>2, EntryLaid
    <3> QED
      BY <3>1, <3>3
  <2>3. CASE ~Does(phdrs[k])
    BY <2>3 DEF LoadEntry, Does
  <2> QED
    BY <2>2, <2>3
<1>6. h \in [(1..n) \X X -> X]
  <2> HIDE DEF keep, X
  <2> QED
    BY <1>5
<1>7. it = F(it)
  <2>1. PICK g \in [SUBSET (1..n) -> X] : Folds(g, 1..n, before, c, h)
    <3> HIDE DEF c, h, n, X
    <3> QED
      BY <1>1, <1>3, <1>4, <1>6, FoldExists, Zenon
  <2>2. \A s \in SUBSET (1..n) : g[s] = F(g)[s]
    <3> HIDE DEF X, keep
    <3> QED
      BY <1>3, <2>1 DEF Folds, Chooses
  <2>3. g = F(g)
    <3> HIDE DEF X, keep
    <3> QED
      BY <2>2
  <2> HIDE DEF F
  <2> QED
    BY <2>3
<1>8. it[{}] = before
  <2> HIDE DEF keep, it
  <2> QED
    BY <1>7
<1>9. ASSUME NEW s \in SUBSET (1..n), s # {}, it[s \ {c[s]}] \in X
      PROVE  it[s] = h[<<c[s], it[s \ {c[s]}]>>]
  <2> HIDE DEF c, it, X, keep
  <2>1. c[s] = Max(s) /\ Max(s) \in 1..n
    BY <1>3, <1>9 DEF Chooses
  <2>2. it[s] = keep(Max(s), it[s \ {Max(s)}])
    BY <1>7, <1>9
  <2> QED
    BY <1>9, <2>1, <2>2
<1>10. FoldsIn(it, 1..n, X, before, c, h)
  <2> HIDE DEF c, h, it, n, X
  <2> QED
    BY <1>1, <1>3, <1>4, <1>6, <1>8, <1>9, Zenon DEF FoldsIn
<1>11. PICK p \in [0..n -> X] : /\ p[0] = before
                                /\ \A k \in 1..n : p[k] = h[<<k, p[k - 1]>>]
                                /\ p[n] = it[1..n]
  <2> HIDE DEF h, it, X
  <2> QED
    BY <1>1, <1>10, FoldPrefixes
<1>12. \A k \in 1..n : k - 1 \in 0..n /\ p[k - 1] \in X /\ p[k] = keep(k, p[k - 1])
  <2> HIDE DEF it, c, keep, X
  <2> SUFFICES ASSUME NEW k \in 1..n PROVE k - 1 \in 0..n /\ p[k - 1] \in X /\ p[k] = keep(k, p[k - 1])
    OBVIOUS
  <2>1. k - 1 \in 0..n /\ p[k - 1] \in X
    BY <1>1
  <2> QED
    BY <1>11, <2>1
<1> DEFINE P == {k \in 0..n : LaidUpto(f, phdrs, base, before, k, p[k])}
<1>13. \A k \in 0..n : k \in P
  <2>1. 0 \in P
    <3>1. \A i \in 1..Len(before) : p[0][i] = before[i]
      BY <1>11
    <3>2. 1..0 = {}
      OBVIOUS
    <3>3. LaidUpto(f, phdrs, base, before, 0, p[0])
      BY <3>1, <3>2 DEF LaidUpto
    <3> QED
      BY <1>1, <3>3
  <2>2. ASSUME NEW k \in 0..n - 1, k \in P PROVE k + 1 \in P
    <3>1. k + 1 \in 1..n /\ (k + 1) - 1 = k /\ k + 1 \in 0..n
      BY <1>1
    <3>2. p[k] \in Seq(Nat) /\ Len(p[k]) = Len(before) /\ p[k + 1] = LoadEntry(f, base, p[k], phdrs[k + 1])
      BY <1>12, <3>1
    <3>3. LaidUpto(f, phdrs, base, before, (k + 1) - 1, p[k])
      BY <2>2, <3>1
    <3>4. LaidUpto(f, phdrs, base, before, k + 1, LoadEntry(f, base, p[k], phdrs[k + 1]))
      <4>1. PICK m \in 1..Len(phdrs) : m = k + 1
        BY <3>1
      <4>2. LaidUpto(f, phdrs, base, before, m - 1, p[k])
        BY <3>3, <4>1
      <4>3. LaidUpto(f, phdrs, base, before, m, LoadEntry(f, base, p[k], phdrs[m]))
        BY <3>2, <4>2, LaidNext
      <4> QED
        BY <4>1, <4>3
    <3> QED
      BY <3>1, <3>2, <3>4
  <2> HIDE DEF P
  <2> QED
    BY <1>1, <2>1, <2>2, UpTo
<1>14. LaidUpto(f, phdrs, base, before, n, p[n]) /\ p[n] \in X
  <2>1. n \in 0..n
    BY <1>1
  <2>2. n \in P
    BY <1>13, <2>1
  <2> QED
    BY <2>1, <2>2
<1> HIDE DEF it, n, LaidUpto
<1> QED
  BY <1>2, <1>11, <1>14 DEF n

(* The memory has every entry that is loaded at its place.                 *)
LEMMA LaidPlaces ==
  ASSUME NEW f, NEW phdrs, NEW base, NEW before, TableFits(f, phdrs, base, before)
  PROVE  LaidOver(f, {p \in ToSet(phdrs) : Does(p)}, base, before, Laid(f, phdrs, base, before))
<1> DEFINE mem == Laid(f, phdrs, base, before)
           E == {p \in ToSet(phdrs) : Does(p)}
<1>1. mem \in Seq(Nat) /\ Len(mem) = Len(before) /\ LaidUpto(f, phdrs, base, before, Len(phdrs), mem)
  BY LaidAll
<1>2. E = {p \in {phdrs[j] : j \in 1..Len(phdrs)} : Does(p)}
  BY DEF ToSet, TableFits
<1> HIDE DEF mem
<1>3. ASSUME NEW i \in 1..Len(mem)
      PROVE  IF \E p \in E : Covers(base, p, i)
             THEN \E p \in E : Covers(base, p, i) /\ mem[i] = From(f, base, p, i)
             ELSE mem[i] = before[i]
  <2>1. \/ \E j \in 1..Len(phdrs) : /\ Does(phdrs[j]) /\ Covers(base, phdrs[j], i)
                                    /\ mem[i] = From(f, base, phdrs[j], i)
        \/ (\A j \in 1..Len(phdrs) : ~(Does(phdrs[j]) /\ Covers(base, phdrs[j], i))) /\ mem[i] = before[i]
    BY <1>1 DEF LaidUpto
  <2> HIDE DEF E
  <2> QED
    BY <1>2, <2>1
<1> HIDE DEF E
<1>4. LaidOver(f, E, base, before, mem)
  BY <1>3 DEF LaidOver
<1> QED
  BY <1>4 DEF E, mem

(* The image of an ELF file that is sent in one piece is laid out.         *)
LEMMA IsLaidOut ==
  ASSUME NEW f, f.data \in Seq(Nat), f.phdrs \in Seq(Entry), NEW image \in readElfFileToMem(f)
  PROVE  image \in Seq(Nat) /\ LaidOut(f, image)
<1>1. \A p \in Loads(f) : p.memsz >= p.filesz /\ Whole(f, p)
  BY DEF readElfFileToMem
<1>2. image = Laid(f, f.phdrs, Base(f), Zeros(Top(f)))
  BY DEF readElfFileToMem, ImageSize
<1>3. Top(f) \in Nat /\ Zeros(Top(f)) \in Seq(Nat) /\ Len(Zeros(Top(f))) = Top(f)
  BY LoadsLie DEF Zeros
<1>4. TableFits(f, f.phdrs, Base(f), Zeros(Top(f)))
  <2> SUFFICES ASSUME NEW j \in 1..Len(f.phdrs), Does(f.phdrs[j])
               PROVE  Fits(f, Base(f), Top(f), f.phdrs[j])
    BY <1>3 DEF TableFits
  <2>1. PICK p : p = f.phdrs[j] /\ p \in Loads(f)
    BY DEF Loads, Does, ToSet
  <2>2. /\ p \in Entry /\ Base(f) \in Nat /\ Base(f) <= p.paddr /\ p.paddr + p.memsz <= Top(f)
        /\ p.memsz >= p.filesz /\ Whole(f, p)
    BY <1>1, <2>1, LoadsLie
  <2>3. p.paddr \in Nat /\ p.memsz \in Nat /\ p.filesz \in Nat
    BY <2>2 DEF Entry
  <2>4. p.paddr + p.filesz <= Base(f) + Top(f)
    BY <1>3, <2>2, <2>3
  <2> QED
    BY <2>1, <2>2, <2>4 DEF Fits
<1>5. image \in Seq(Nat) /\ Len(image) = Top(f)
  BY <1>2, <1>3, <1>4, LaidAll
<1> DEFINE E == {p \in ToSet(f.phdrs) : Does(p)}
<1>6. LaidOver(f, E, Base(f), Zeros(Top(f)), image)
  BY <1>2, <1>4, LaidPlaces
<1>7. ASSUME NEW i \in 1..Len(image), NEW p \in Loads(f) PROVE Covers(Base(f), p, i) => p \in E
  <2>1. p \in Entry /\ Base(f) \in Nat
    BY LoadsLie
  <2>2. p.paddr \in Nat /\ p.filesz \in Nat
    BY <2>1 DEF Entry
  <2>3. Covers(Base(f), p, i) => p.filesz # 0
    <3>1. PICK pa \in Nat, fs \in Nat : pa = p.paddr /\ fs = p.filesz
      BY <2>2
    <3>2. fs = 0 => pa..pa + fs - 1 = {}
      OBVIOUS
    <3> QED
      BY <3>1, <3>2 DEF Covers
  <2> QED
    BY <2>3 DEF Loads, Does
<1>8. E \subseteq Loads(f)
  BY DEF Does, Loads
<1>9. LaidOver(f, Loads(f), Base(f), Zeros(Top(f)), image)
  <2> HIDE DEF E
  <2> QED
    BY <1>6, <1>7, <1>8 DEF LaidOver
<1> QED
  BY <1>5, <1>9 DEF LaidOut

(* A number of bytes rounded up to longs.                                  *)
LEMMA RoundedUpToLongs ==
  ASSUME NEW n \in Nat
  PROVE  /\ RoundUp(n) \in Nat /\ n <= RoundUp(n) /\ RoundUp(n) < n + LongSize
         /\ RoundUp(n) % LongSize = 0
<1>1. PICK q \in Nat \ {0} : q = LongSize
  BY FilesAssumption
<1>2. PICK x \in Int : x = -n
  OBVIOUS
<1>3. PICK d \in Int, r \in Nat : d = x \div q /\ r = x % q
  OBVIOUS
<1>4. x = q * d + r /\ r < q
  BY <1>3
<1>5. PICK e \in Int : e = -d
  OBVIOUS
<1>6. n + r = q * e
  <2>1. PICK v \in Int, w \in Int : v = q * d /\ w = q * e
    OBVIOUS
  <2>2. w = -v
    BY <1>5, <2>1
  <2> QED
    BY <1>2, <1>4, <2>1, <2>2
<1>7. (q * e) % q = 0
  OBVIOUS
<1>8. RoundUp(n) = n + r
  BY <1>1, <1>2, <1>3 DEF RoundUp
<1>9. RoundUp(n) \in Nat /\ n <= RoundUp(n) /\ RoundUp(n) < n + q
  BY <1>4, <1>8
<1> QED
  BY <1>1, <1>6, <1>7, <1>8, <1>9

(* The beginning of a sequence.                                            *)
LEMMA BeginningIs ==
  ASSUME NEW S, NEW s \in Seq(S), NEW k \in Nat, k <= Len(s)
  PROVE  SubSeq(s, 1, k) \in Seq(S) /\ Len(SubSeq(s, 1, k)) = k /\ \A i \in 1..k : SubSeq(s, 1, k)[i] = s[i]
<1>1. 1 \in Nat \ {0} /\ 1 <= k + 1
  OBVIOUS
<1>2. /\ SubSeq(s, 1, k) \in Seq(S) /\ Len(SubSeq(s, 1, k)) = k - 1 + 1
      /\ \A i \in 1..k - 1 + 1 : SubSeq(s, 1, k)[i] = s[1 + i - 1]
  BY <1>1, PartType
<1>3. k - 1 + 1 = k /\ \A i \in 1..k : 1 + i - 1 = i
  OBVIOUS
<1> QED
  BY <1>2, <1>3

(* A program table of which so many entries can be read.                   *)
Table(f) ==
  /\ f.data \in Seq(Nat) /\ f.phdrs \in Seq(Entry)
  /\ f.readable \in 0..Len(f.phdrs)

(* The sections lie below the highest address of one.                      *)
LEMMA SectionsLie ==
  ASSUME NEW f, Table(f)
  PROVE  /\ Readable(f) \in Seq(Entry) /\ ToSet(Readable(f)) \subseteq ToSet(f.phdrs)
         /\ SectionsTop(f) \in Nat
         /\ \A p \in Sections(f) : p \in Entry /\ p.paddr + p.filesz <= SectionsTop(f)
<1>1. PICK k \in Nat : k = f.readable /\ k <= Len(f.phdrs)
  BY DEF Table
<1>2. Readable(f) \in Seq(Entry) /\ Len(Readable(f)) = k /\ \A i \in 1..k : Readable(f)[i] = f.phdrs[i]
  BY <1>1, BeginningIs DEF Readable, Table
<1>3. ToSet(Readable(f)) \subseteq ToSet(f.phdrs)
  BY <1>1, <1>2 DEF ToSet, Table
<1>4. IsFiniteSet(Sections(f)) /\ Sections(f) \subseteq Entry
  BY <1>2, EntriesFinite, FS_Subset DEF Sections
<1>5. \A p \in Sections(f) : p.paddr \in Nat /\ p.filesz \in Nat
  BY <1>4 DEF Entry
<1>6. SectionsTop(f) \in Nat /\ \A p \in Sections(f) : p.paddr + p.filesz <= SectionsTop(f)
  <2> DEFINE g == [p \in Sections(f) |-> p.paddr + p.filesz]
  <2>1. g = [p \in Sections(f) |-> g[p]] /\ \A p \in Sections(f) : g[p] \in Nat /\ g[p] = p.paddr + p.filesz
    BY <1>5
  <2>2. {g[p] : p \in Sections(f)} = {p.paddr + p.filesz : p \in Sections(f)}
    OBVIOUS
  <2>3. SectionsTop(f) = Max({g[p] : p \in Sections(f)} \cup {0})
    BY <2>2 DEF SectionsTop
  <2> HIDE DEF g
  <2> QED
    BY <1>4, <2>1, <2>3, Highest
<1> QED
  BY <1>2, <1>3, <1>4, <1>6

(* The sections are at their places, and between them what was there.      *)
LEMMA AreSectionsLaid ==
  ASSUME NEW f, Table(f), NEW held \in Seq(Nat), RoundUp(SectionsTop(f)) <= Len(held),
         NEW mem \in loadElfSections(f, held)
  PROVE  LET image == SubSeq(mem, 1, RoundUp(SectionsTop(f)))
         IN  image \in Seq(Nat) /\ SectionsLaid(f, held, image)
<1>1. PICK t \in Nat, k \in Nat, n \in Nat :
        t = SectionsTop(f) /\ k = RoundUp(t) /\ t <= k /\ k <= n /\ n = Len(held)
  <2>1. SectionsTop(f) \in Nat /\ Len(held) \in Nat
    BY SectionsLie
  <2> QED
    BY <2>1, RoundedUpToLongs
<1>2. mem = Laid(f, Readable(f), 0, held) /\ \A p \in Sections(f) : Whole(f, p)
  BY DEF loadElfSections
<1>3. TableFits(f, Readable(f), 0, held)
  <2> SUFFICES ASSUME NEW j \in 1..Len(Readable(f)), Does(Readable(f)[j])
               PROVE  Fits(f, 0, n, Readable(f)[j])
    BY <1>1, SectionsLie DEF TableFits
  <2>1. PICK p : p = Readable(f)[j] /\ p \in Sections(f)
    BY SectionsLie DEF Sections, Does, ToSet
  <2>2. p \in Entry /\ p.paddr + p.filesz <= t /\ Whole(f, p)
    BY <1>1, <1>2, <2>1, SectionsLie
  <2>3. p.paddr \in Nat /\ p.filesz \in Nat
    BY <2>2 DEF Entry
  <2>4. 0 <= p.paddr /\ p.paddr + p.filesz <= 0 + n
    BY <1>1, <2>2, <2>3
  <2> QED
    BY <2>1, <2>2, <2>4 DEF Fits, Table
<1>4. mem \in Seq(Nat) /\ Len(mem) = n
  BY <1>1, <1>2, <1>3, LaidAll
<1>5. LaidOver(f, Sections(f), 0, held, mem)
  <2>1. Sections(f) = {p \in ToSet(Readable(f)) : Does(p)}
    BY DEF Sections, Does
  <2> QED
    BY <1>2, <1>3, <2>1, LaidPlaces
<1>6. PICK image \in Seq(Nat) : image = SubSeq(mem, 1, k) /\ Len(image) = k /\ \A i \in 1..k : image[i] = mem[i]
  <2>1. k \in Nat /\ k <= Len(mem)
    BY <1>1, <1>4
  <2>2. /\ SubSeq(mem, 1, k) \in Seq(Nat) /\ Len(SubSeq(mem, 1, k)) = k
        /\ \A i \in 1..k : SubSeq(mem, 1, k)[i] = mem[i]
    BY <1>4, <2>1, BeginningIs
  <2> QED
    BY <2>2
<1>7. \A i \in 1..k : i \in 1..Len(mem)
  BY <1>1, <1>4
<1>8. LaidOver(f, Sections(f), 0, held, image)
  BY <1>5, <1>6, <1>7 DEF LaidOver
<1> QED
  BY <1>1, <1>6, <1>8 DEF SectionsLaid

(* An ELF file that loadElfSections gives up is refused in one piece too.  *)
LEMMA GivenUp ==
  ASSUME NEW f, Table(f), f.elf = TRUE, NEW h, loadElfSections(f, h) = {}
  PROVE  readBinaryFile(f) = {}
<1>1. readBinaryFile(f) = readElfFileToMem(f)
  BY DEF readBinaryFile, ReadAndCheckElfHdr
<1>2. ~OpenElfFile(f) \/ \E p \in Sections(f) : ~Whole(f, p)
  BY DEF loadElfSections, ReadAndCheckElfHdr
<1>3. Sections(f) \subseteq Loads(f)
  BY SectionsLie DEF Sections, Loads
<1> QED
  BY <1>1, <1>2, <1>3 DEF readElfFileToMem

(* A file that is not ELF is sent as it is, in whole longs.                *)
LEMMA RawBytes ==
  ASSUME NEW f, f.data \in Seq(Nat), f.elf = FALSE, NEW b \in readBinaryFile(f), b # <<>>
  PROVE  /\ b \in Seq(Nat) /\ Len(b) % LongSize = 0
         /\ IsPrefix(f.data, b) /\ Len(b) < Len(f.data) + LongSize
<1>1. f.data # <<>> /\ b \in RoundedUp(f.data)
  BY DEF readBinaryFile, ReadAndCheckElfHdr
<1>2. PICK n \in Nat : n = Len(f.data)
  OBVIOUS
<1>3. PICK k \in Nat, q \in Nat \ {0} : k = RoundUp(n) /\ q = LongSize /\ n <= k /\ k < n + q /\ k % q = 0
  BY RoundedUpToLongs, FilesAssumption
<1>4. PICK z \in Nat : z = k - n
  BY <1>3
<1>5. PICK pad \in [1..z -> HeapBytes] : b = f.data \o pad
  BY <1>1, <1>2, <1>3, <1>4 DEF RoundedUp
<1>6. pad \in Seq(Nat) /\ Len(pad) = z
  <2>1. pad \in [1..z -> Nat]
    BY FilesAssumption
  <2> QED
    BY <2>1
<1>7. b \in Seq(Nat) /\ Len(b) = k /\ \A i \in 1..n : b[i] = f.data[i]
  BY <1>2, <1>4, <1>5, <1>6
<1>8. SubSeq(b, 1, n) = f.data
  <2>1. n \in Nat /\ n <= Len(b)
    BY <1>3, <1>7
  <2>2. SubSeq(b, 1, n) \in Seq(Nat) /\ Len(SubSeq(b, 1, n)) = n /\ \A i \in 1..n : SubSeq(b, 1, n)[i] = b[i]
    BY <1>7, <2>1, BeginningIs
  <2> QED
    BY <1>2, <1>7, <2>2, SeqEqual
<1>9. SubSeq(f.data, 1, n) = f.data
  <2>1. /\ SubSeq(f.data, 1, n) \in Seq(Nat) /\ Len(SubSeq(f.data, 1, n)) = n
        /\ \A i \in 1..n : SubSeq(f.data, 1, n)[i] = f.data[i]
    BY <1>2, BeginningIs
  <2> QED
    BY <1>2, <2>1, SeqEqual
<1>10. IsPrefix(f.data, b)
  BY <1>2, <1>3, <1>7, <1>8, <1>9 DEF IsPrefix
<1> QED
  BY <1>2, <1>3, <1>7, <1>10

(* What is flashed either way is some longs, and what is in the file.      *)
LEMMA AppIs ==
  ASSUME NEW m \in {"single", "fast"}, NEW a \in Apps(m)
  PROVE  /\ Longs(a.bytes) \in Seq(Int) /\ Len(Longs(a.bytes)) \in Nat \ {0}
         /\ Len(Longs(a.bytes)) <= Len(a.bytes) /\ Len(a.bytes) \in Nat
         /\ AsInFile(m, a) /\ a # NoApp
<1>1. PICK n, h, b :
        /\ n \in DOMAIN Files /\ a = Application(n, h, b) /\ b # <<>>
        /\ m = "single" => b \in readBinaryFile(Files[n]) /\ Len(b) % LongSize = 0
        /\ m = "fast" => h \in Hubs /\ b \in FastImages(Files[n], h)
  BY DEF Apps, SingleApps, FastApps, Application
<1>2. a.file = n /\ a.held = h /\ a.bytes = b
  BY <1>1 DEF Application
<1>3. PICK f : f = Files[n]
  OBVIOUS
<1>4. /\ LongSize \in Nat \ {0} /\ n # 0 /\ f.elf \in BOOLEAN /\ f.data \in Seq(Nat)
      /\ Hubs \subseteq Seq(Nat)
      /\ f.elf => Table(f) /\ f.phdrs \in Seq(Entry)
      /\ f.elf => \A x \in Hubs : RoundUp(SectionsTop(f)) <= Len(x)
  <2>1. LongSize \in Nat \ {0} /\ Hubs \subseteq Seq(Nat)
    BY FilesAssumption
  <2>2. n # 0
    BY <1>1, FilesAssumption
  <2>3. f.elf \in BOOLEAN /\ f.data \in Seq(Nat)
    BY <1>1, <1>3, FilesAssumption
  <2>4. CASE f.elf
    <3>1. /\ f.phdrs \in Seq(Entry) /\ f.readable \in 0..Len(f.phdrs)
          /\ \A x \in Hubs : RoundUp(SectionsTop(f)) <= Len(x)
      BY <1>1, <1>3, <2>4, FilesAssumption
    <3> QED
      BY <2>1, <2>2, <2>3, <3>1 DEF Table
  <2>5. CASE ~f.elf
    BY <2>1, <2>2, <2>3, <2>5
  <2> QED
    BY <2>4, <2>5
<1> DEFINE Good == b \in Seq(Nat) /\ Len(b) % LongSize = 0 /\ AsInFile(m, a)
<1>5. ASSUME f.elf = FALSE PROVE Good
  <2>1. b \in readBinaryFile(f)
    <3>1. loadElfSections(f, h) = {}
      BY <1>5 DEF loadElfSections, ReadAndCheckElfHdr
    <3> QED
      BY <1>1, <1>3, <3>1 DEF FastImages
  <2>2. b \in Seq(Nat) /\ Len(b) % LongSize = 0 /\ IsPrefix(f.data, b) /\ Len(b) < Len(f.data) + LongSize
    BY <1>1, <1>4, <1>5, <2>1, RawBytes
  <2>3. AsInFile(m, a)
    <3>1. Files[a.file] = f /\ a.bytes = b /\ ~f.elf
      BY <1>2, <1>3, <1>5
    <3> QED
      BY <2>2, <3>1 DEF AsInFile
  <2> QED
    BY <2>2, <2>3
<1>6. ASSUME f.elf = TRUE, m = "single" PROVE Good
  <2>1. b \in readElfFileToMem(f)
    BY <1>1, <1>3, <1>6 DEF readBinaryFile, ReadAndCheckElfHdr
  <2>2. b \in Seq(Nat) /\ LaidOut(f, b)
    BY <1>4, <1>6, <2>1, IsLaidOut
  <2>3. AsInFile(m, a)
    <3>1. Files[a.file] = f /\ a.bytes = b /\ f.elf /\ m = "single"
      BY <1>2, <1>3, <1>6
    <3> QED
      BY <2>2, <3>1 DEF AsInFile
  <2> QED
    BY <1>1, <1>6, <2>2, <2>3
<1>7. ASSUME f.elf = TRUE, m = "fast" PROVE Good
  <2>1. h \in Hubs /\ h \in Seq(Nat) /\ b \in FastImages(f, h)
    BY <1>1, <1>3, <1>4, <1>7
  <2>2. PICK mem \in loadElfSections(f, h) : b = SubSeq(mem, 1, RoundUp(SectionsTop(f)))
    <3>1. loadElfSections(f, h) # {}
      BY <1>4, <1>7, <2>1, GivenUp DEF FastImages
    <3> QED
      BY <2>1, <3>1 DEF FastImages
  <2>3. b \in Seq(Nat) /\ SectionsLaid(f, h, b)
    BY <1>4, <1>7, <2>1, <2>2, AreSectionsLaid
  <2>4. Len(b) % LongSize = 0
    <3>1. Len(b) = RoundUp(SectionsTop(f))
      BY <2>3 DEF SectionsLaid
    <3>2. SectionsTop(f) \in Nat
      BY <1>4, <1>7, SectionsLie
    <3> QED
      BY <3>1, <3>2, RoundedUpToLongs
  <2>5. AsInFile(m, a)
    <3>1. Files[a.file] = f /\ a.bytes = b /\ a.held = h /\ f.elf /\ m = "fast" /\ m # "single"
      BY <1>2, <1>3, <1>7
    <3> QED
      BY <2>3, <3>1 DEF AsInFile
  <2> QED
    BY <2>3, <2>4, <2>5
<1>8. Good
  <2>1. (f.elf = TRUE \/ f.elf = FALSE) /\ (m = "single" \/ m = "fast")
    BY <1>4
  <2> HIDE DEF Good
  <2> QED
    BY <1>5, <1>6, <1>7, <2>1
<1>9. PICK l \in Nat \ {0}, q \in Nat \ {0} : l = Len(b) /\ q = LongSize
  <2>1. Len(b) \in Nat /\ (Len(b) = 0 => b = <<>>)
    BY <1>8
  <2> QED
    BY <1>1, <1>4, <2>1
<1>10. PICK k \in Nat \ {0} : k = l \div q /\ k <= l
  <2>1. PICK k \in Nat : k = l \div q /\ l = q * k + (l % q) /\ l % q = 0
    <3>1. l % q = 0
      BY <1>8, <1>9
    <3>2. PICK k \in Nat : k = l \div q /\ l = q * k + (l % q)
      OBVIOUS
    <3> QED
      BY <3>1, <3>2
  <2>2. PICK w \in Nat : w = q * k /\ w = l
    BY <2>1
  <2>3. k # 0
    BY <2>2
  <2>4. k <= w
    <3>1. PICK d \in Nat : q = d + 1
      <4>1. q - 1 \in Nat /\ q = (q - 1) + 1
        OBVIOUS
      <4> QED
        BY <4>1
    <3>2. PICK v \in Nat : v = d * k
      OBVIOUS
    <3>3. (d + 1) * k = v + k
      BY <3>2
    <3> QED
      BY <2>2, <3>1, <3>3
  <2> QED
    BY <2>1, <2>2, <2>3, <2>4
<1>11. Longs(b) \in Seq(Int) /\ Len(Longs(b)) = k
  BY <1>8, <1>9, <1>10, LongsType
<1>12. a # NoApp
  BY <1>2, <1>4 DEF NoApp, Application
<1> QED
  BY <1>2, <1>8, <1>9, <1>10, <1>11, <1>12

-----------------------------------------------------------------------------
(* What is sent, and what is programmed. *)

(* Enough pages for so many longs, and no more than that.                  *)
LEMMA PagesHold ==
  ASSUME NEW n \in Nat \ {0}
  PROVE  /\ Pages(n) \in Nat \ {0}
         /\ Pages(n) * PageLongs \in Nat /\ n <= Pages(n) * PageLongs
         /\ \A m \in Nat \ {0} : m <= n => Pages(m) <= Pages(n)
<1>1. PICK p \in Nat \ {0} : p = PageLongs
  BY FlashAssumption
<1>2. ASSUME NEW m \in Nat \ {0}
      PROVE  /\ (m + p - 1) \div p \in Nat \ {0} /\ m <= ((m + p - 1) \div p) * p
             /\ ((m + p - 1) \div p) * p < m + p
  <2>1. PICK x \in Nat : x = m + p - 1
    OBVIOUS
  <2>2. PICK q \in Int : q = x \div p
    OBVIOUS
  <2>3. PICK r \in Int : r = x % p
    OBVIOUS
  <2>4. x = p * q + r /\ 0 <= r /\ r < p
    BY <2>2, <2>3
  <2>5. q >= 0
    BY <2>2
  <2>6. PICK w \in Int : w = p * q /\ w = q * p
    OBVIOUS
  <2>7. x = w + r
    BY <2>4, <2>6
  <2>8. m <= w /\ w < m + p
    BY <2>1, <2>3, <2>4, <2>7
  <2>9. q # 0
    <3>1. q = 0 => w = 0
      BY <2>6
    <3> QED
      BY <2>8, <3>1
  <2> QED
    BY <2>1, <2>2, <2>5, <2>6, <2>8, <2>9
<1>3. Pages(n) \in Nat \ {0} /\ Pages(n) * p \in Nat /\ n <= Pages(n) * p
  BY <1>1, <1>2 DEF Pages
<1>4. ASSUME NEW m \in Nat \ {0}, m <= n PROVE Pages(m) <= Pages(n)
  <2>1. PICK a \in Nat : a = (m + p - 1) \div p
    BY <1>2
  <2>2. PICK b \in Nat : b = (n + p - 1) \div p
    BY <1>2
  <2>3. a * p < m + p /\ n <= b * p
    BY <1>2, <2>1, <2>2
  <2>4. ASSUME b < a PROVE FALSE
    <3>1. PICK d \in Nat : a = b + 1 + d
      BY <2>4
    <3>2. PICK bp \in Nat, dp \in Nat : bp = b * p /\ dp = d * p
      OBVIOUS
    <3>3. a * p = bp + p + dp
      BY <3>1, <3>2
    <3> QED
      BY <1>4, <2>3, <3>2, <3>3
  <2> QED
    BY <1>1, <2>1, <2>2, <2>4 DEF Pages
<1> QED
  BY <1>1, <1>3, <1>4

(* Whole pages hold themselves.                                            *)
LEMMA PagesOfPages ==
  ASSUME NEW q \in Nat
  PROVE  Pages(q * PageLongs) = q
<1>1. PICK p \in Nat \ {0} : p = PageLongs
  BY FlashAssumption
<1>2. PICK w \in Nat : w = q * p /\ w = p * q
  OBVIOUS
<1>3. PICK x \in Nat : x = w + p - 1
  OBVIOUS
<1>4. PICK a \in Nat : a = x \div p
  OBVIOUS
<1>5. PICK r \in Nat : r = x % p
  OBVIOUS
<1>6. x = p * a + r /\ r < p
  BY <1>4, <1>5
<1>7. PICK v \in Nat : v = p * a
  OBVIOUS
<1>8. v <= w + p - 1 /\ w <= v
  BY <1>3, <1>5, <1>6, <1>7
<1>9. a = q
  <2>1. ASSUME NEW d \in Nat, a = q + 1 + d PROVE FALSE
    <3>1. PICK e \in Nat : e = p * d
      OBVIOUS
    <3>2. v = w + p + e
      BY <1>2, <1>7, <2>1, <3>1
    <3> QED
      BY <1>8, <3>1, <3>2
  <2>2. ASSUME NEW d \in Nat, q = a + 1 + d PROVE FALSE
    <3>1. PICK e \in Nat : e = p * d
      OBVIOUS
    <3>2. w = v + p + e
      BY <1>2, <1>7, <2>2, <3>1
    <3> QED
      BY <1>8, <3>1, <3>2
  <2>3. a < q \/ a = q \/ q < a
    OBVIOUS
  <2>4. q < a => a = q + 1 + (a - q - 1) /\ a - q - 1 \in Nat
    OBVIOUS
  <2>5. a < q => q = a + 1 + (q - a - 1) /\ q - a - 1 \in Nat
    OBVIOUS
  <2> QED
    BY <2>1, <2>2, <2>3, <2>4, <2>5
<1> QED
  BY <1>1, <1>2, <1>3, <1>4, <1>9 DEF Pages

(* One element replaced, and two sequences joined.                         *)
IsReplaced(s, n, j, v, t) ==
  t \in Seq(Int) /\ Len(t) = n /\ t[j] = v /\ \A i \in 1..n : i # j => t[i] = s[i]

(* So it is when one long is patched.                                      *)
LEMMA Replaced ==
  ASSUME NEW s \in Seq(Int), NEW n \in Nat, Len(s) = n, NEW j \in 1..n, NEW v \in Int
  PROVE  IsReplaced(s, n, j, v, [s EXCEPT ![j] = v])
  BY DEF IsReplaced

(* The checksum changes by as much as the long does.                       *)
LEMMA SumReplaced ==
  ASSUME NEW s \in Seq(Int), NEW n \in Nat, Len(s) = n, NEW j \in 1..n, NEW v \in Int,
         NEW t, IsReplaced(s, n, j, v, t)
  PROVE  SumOf(t) = SumOf(s) - s[j] + v
<1>1. t \in Seq(Int) /\ Len(t) = Len(s) /\ t[j] = v /\ j \in 1..Len(s)
     /\ \A i \in 1..Len(s) : i # j => t[i] = s[i]
  BY DEF IsReplaced
<1>2. SumOf(t) = SumOf(s) - s[j] + t[j]
  BY <1>1, SumOfReplaced
<1> QED
  BY <1>1, <1>2

IsJoined(s, t, m, n, u) ==
  /\ u \in Seq(Int) /\ Len(u) = m + n
  /\ \A i \in 1..m : u[i] = s[i]
  /\ \A i \in 1..n : u[m + i] = t[i]

(* So it is when two sequences are put together.                           *)
LEMMA Joined ==
  ASSUME NEW s \in Seq(Int), NEW t \in Seq(Int), NEW m \in Nat, NEW n \in Nat, Len(s) = m, Len(t) = n
  PROVE  IsJoined(s, t, m, n, s \o t)
<1>1. ASSUME NEW u \in Seq(Int), NEW v \in Seq(Int)
      PROVE  /\ u \o v \in Seq(Int) /\ Len(u \o v) = Len(u) + Len(v)
             /\ \A i \in 1..Len(u) : (u \o v)[i] = u[i]
             /\ \A i \in 1..Len(v) : (u \o v)[Len(u) + i] = v[i]
  OBVIOUS
<1>2. /\ s \o t \in Seq(Int) /\ Len(s \o t) = Len(s) + Len(t)
      /\ \A i \in 1..Len(s) : (s \o t)[i] = s[i]
      /\ \A i \in 1..Len(t) : (s \o t)[Len(s) + i] = t[i]
  BY <1>1
<1> QED
  BY <1>2 DEF IsJoined

(* What LoadSingle leaves in hub memory.                                   *)
Sent(f, wrong) ==
  LET s == patchBinaryFileForFlash(Prefix \o Longs(f.bytes)) IN [s EXCEPT ![Len(s)] = @ + wrong]

(* Its checksum is what the line did to it, and behind the programmer and  *)
(* the loader's settings is the application.                               *)
LEMMA SentIs ==
  ASSUME NEW f \in Apps("single"), NEW wrong \in 0..1
  PROVE  /\ Sent(f, wrong) \in Seq(Int)
         /\ Len(Sent(f, wrong)) = Len(Programmer) + AppStart + Len(Longs(f.bytes))
         /\ SumOf(Sent(f, wrong)) = wrong
         /\ Sent(f, wrong)[LOADER_SUM] = -Prop
         /\ wrong = 0 => \A i \in 1..Len(Longs(f.bytes)) :
                            Sent(f, wrong)[Len(Programmer) + AppStart + i] = Longs(f.bytes)[i]
<1>1. PICK A \in Seq(Int), n \in Nat \ {0}, m \in Nat : A = Longs(f.bytes) /\ n = Len(A) /\ m = Len(Programmer)
  BY AppIs, ProgrammerAssumption
<1>2. Programmer \in Seq(Int) /\ m >= 3 /\ Programmer[2] = 0 /\ Prop \in Int
  BY <1>1, ProgrammerAssumption, FlashAssumption
<1>3. /\ Prefix \in Seq(Int) /\ Len(Prefix) = m + 4 /\ Prefix[2] = 0 /\ Prefix[m + 4] = -Prop
  <2>1. PICK tail \in Seq(Int) : tail = <<0, 0, 0, -Prop>> /\ Len(tail) = 4 /\ tail[4] = -Prop
    <3>1. PICK q \in Int : q = -Prop
      BY <1>2
    <3>2. <<0, 0, 0, q>> \in Seq(Int) /\ Len(<<0, 0, 0, q>>) = 4 /\ <<0, 0, 0, q>>[4] = q
      OBVIOUS
    <3> QED
      BY <3>1, <3>2
  <2>2. Prefix = Programmer \o tail
    BY <2>1 DEF Prefix
  <2>3. IsJoined(Programmer, tail, m, 4, Prefix)
    BY <1>1, <1>2, <2>1, <2>2, Joined
  <2> QED
    <3>1. 2 \in 1..m /\ 4 \in 1..4
      BY <1>2
    <3>2. Prefix \in Seq(Int) /\ Len(Prefix) = m + 4 /\ Prefix[2] = Programmer[2] /\ Prefix[m + 4] = tail[4]
      BY <2>3, <3>1 DEF IsJoined
    <3> QED
      BY <1>2, <2>1, <3>2
<1>4. PICK k \in Nat : k = m + 4 /\ k = Len(Prefix)
  BY <1>3
<1>5. PICK l \in Nat : l = k + n /\ l >= 8
  <2>1. k >= 7 /\ n >= 1
    BY <1>2, <1>4
  <2> QED
    BY <2>1
<1>6. PICK s0 \in Seq(Int) : s0 = Prefix \o A /\ Len(s0) = l /\ s0[2] = 0 /\ s0[k] = -Prop
                              /\ \A i \in 1..n : s0[k + i] = A[i]
  <2>1. IsJoined(Prefix, A, k, n, Prefix \o A)
    BY <1>1, <1>3, <1>4, Joined
  <2>2. 2 \in 1..k /\ k \in 1..k
    BY <1>4
  <2> QED
    BY <1>3, <1>4, <1>5, <2>1, <2>2 DEF IsJoined
<1>7. PICK s1 : s1 = [s0 EXCEPT ![3] = 0] /\ IsReplaced(s0, l, 3, 0, s1)
  <2>1. 3 \in 1..l /\ 0 \in Int
    BY <1>5
  <2>2. IsReplaced(s0, l, 3, 0, [s0 EXCEPT ![3] = 0])
    BY <1>6, <2>1, Replaced
  <2> QED
    BY <2>2
<1>8. s1 \in Seq(Int) /\ Len(s1) = l /\ s1[2] = 0
  BY <1>5, <1>6, <1>7 DEF IsReplaced
<1>9. PICK x \in Int : x = SumOf(s1)
  BY <1>8, SumOfType
<1>10. PICK s2 : s2 = [s1 EXCEPT ![2] = -x] /\ IsReplaced(s1, l, 2, -x, s2)
  <2>1. 2 \in 1..l /\ -x \in Int
    BY <1>5
  <2> QED
    BY <1>8, <2>1, Replaced
<1>11. s2 \in Seq(Int) /\ Len(s2) = l
  BY <1>10 DEF IsReplaced
<1>12. SumOf(s2) = 0
  <2>1. 2 \in 1..l /\ -x \in Int
    BY <1>5
  <2>2. SumOf(s2) = SumOf(s1) - s1[2] + (-x)
    BY <1>8, <1>10, <2>1, SumReplaced
  <2>3. SumOf(s2) = x - 0 + (-x)
    BY <1>8, <1>9, <2>2
  <2> QED
    BY <2>3
<1>13. PICK y \in Int : y = s2[l]
  BY <1>5, <1>11
<1>20. PICK s3 : s3 = [s2 EXCEPT ![l] = y + wrong] /\ IsReplaced(s2, l, l, y + wrong, s3)
  <2>1. l \in 1..l /\ y + wrong \in Int
    BY <1>5
  <2> QED
    BY <1>11, <2>1, Replaced
<1>21. SumOf(s3) = wrong
  <2>1. l \in 1..l /\ y + wrong \in Int
    BY <1>5
  <2>2. SumOf(s3) = SumOf(s2) - s2[l] + (y + wrong)
    BY <1>11, <1>20, <2>1, SumReplaced
  <2>3. SumOf(s3) = 0 - y + (y + wrong)
    BY <1>12, <1>13, <2>2
  <2> QED
    BY <2>3
<1>14. Sent(f, wrong) = s3
  BY <1>1, <1>6, <1>7, <1>9, <1>10, <1>11, <1>13, <1>20 DEF Sent, patchBinaryFileForFlash
<1>15. ASSUME NEW i \in k..l - 1 PROVE s3[i] = s0[i]
  <2>1. i \in 1..l /\ i # l /\ i # 2 /\ i # 3
    BY <1>4, <1>5
  <2> QED
    BY <1>7, <1>10, <1>20, <2>1 DEF IsReplaced
<1>16. s3[k] = -Prop
  <2>1. k \in k..l - 1
    BY <1>5
  <2> QED
    BY <1>6, <1>15, <2>1
<1>17. ASSUME wrong = 0, NEW i \in 1..n PROVE s3[k + i] = A[i]
  <2>1. CASE i = n
    <3>1. l # 2 /\ l # 3 /\ l \in 1..l /\ n \in 1..n
      BY <1>4, <1>5
    <3>2. y = s0[l]
      BY <1>7, <1>10, <1>13, <3>1 DEF IsReplaced
    <3>3. s0[l] = A[n]
      BY <1>5, <1>6, <3>1
    <3>4. s3[l] = y
      BY <1>17, <1>20 DEF IsReplaced
    <3> QED
      BY <1>5, <2>1, <3>2, <3>3, <3>4
  <2>2. CASE i # n
    <3>1. k + i \in k..l - 1
      BY <1>5, <2>2
    <3> QED
      BY <1>6, <1>15, <3>1
  <2> QED
    BY <2>1, <2>2
<1>18. AppStart = 4 /\ LOADER_SUM = k /\ Len(Programmer) + AppStart = k
  BY <1>1, <1>4 DEF AppStart, LOADER_SUM
<1>19. s3 \in Seq(Int) /\ Len(s3) = l
  BY <1>20 DEF IsReplaced
<1> QED
  BY <1>1, <1>5, <1>14, <1>16, <1>17, <1>18, <1>19, <1>21

(* The first longs of something padded with zeros: what the ROM reads.     *)
FirstLongs(s) == SubSeq(s \o Unset(LoaderLongs), 1, LoaderLongs)

AreFirst(s, n, a) ==
  /\ a \in Seq(Int) /\ Len(a) = LoaderLongs
  /\ \A i \in 1..LoaderLongs : a[i] = IF i <= n THEN s[i] ELSE 0

IsPadded(s, n, z, u) ==
  /\ u \in Seq(Int) /\ Len(u) = n + z
  /\ \A i \in 1..n : u[i] = s[i]
  /\ \A i \in 1..n + z : i > n => u[i] = 0

(* A sequence padded with zeros keeps its longs, and zeros follow.         *)
LEMMA PaddedIs ==
  ASSUME NEW s \in Seq(Int), NEW n \in Nat, Len(s) = n, NEW z \in Nat
  PROVE  IsPadded(s, n, z, s \o Unset(z))
<1>1. Unset(z) \in Seq(Int) /\ Len(Unset(z)) = z /\ \A i \in 1..z : Unset(z)[i] = 0
  BY DEF Unset
<1>2. IsJoined(s, Unset(z), n, z, s \o Unset(z))
  BY <1>1, Joined
<1>3. PICK u : u = s \o Unset(z)
  OBVIOUS
<1>4. u \in Seq(Int) /\ Len(u) = n + z /\ (\A i \in 1..n : u[i] = s[i]) /\ \A i \in 1..z : u[n + i] = 0
  BY <1>1, <1>2, <1>3 DEF IsJoined
<1>5. ASSUME NEW i \in 1..n + z, i > n PROVE u[i] = 0
  <2>1. i - n \in 1..z /\ i = n + (i - n)
    BY <1>5
  <2> QED
    BY <1>4, <2>1
<1> QED
  BY <1>3, <1>4, <1>5 DEF IsPadded

(* The longs the ROM boots are those there are, and zeros.                 *)
LEMMA HeadIs ==
  ASSUME NEW s \in Seq(Int), NEW n \in Nat, Len(s) = n, NEW z \in Nat, n + z >= LoaderLongs
  PROVE  AreFirst(s, n, SubSeq(s \o Unset(z), 1, LoaderLongs))
<1>1. PICK l \in Nat \ {0} : l = LoaderLongs
  BY FlashAssumption
<1>2. PICK u : u = s \o Unset(z) /\ IsPadded(s, n, z, u)
  BY PaddedIs
<1>3. u \in Seq(Int) /\ l <= Len(u) /\ 1 <= l + 1
  BY <1>1, <1>2 DEF IsPadded
<1>4. /\ SubSeq(u, 1, l) \in Seq(Int) /\ Len(SubSeq(u, 1, l)) = l - 1 + 1
      /\ \A i \in 1..l - 1 + 1 : SubSeq(u, 1, l)[i] = u[1 + i - 1]
  BY <1>3, PartType
<1>5. PICK a \in Seq(Int) : a = SubSeq(u, 1, l) /\ Len(a) = l /\ \A i \in 1..l : a[i] = u[i]
  <2>1. l - 1 + 1 = l /\ \A i \in 1..l : 1 + i - 1 = i
    OBVIOUS
  <2>2. Len(SubSeq(u, 1, l)) = l
    BY <1>4, <2>1
  <2>3. \A i \in 1..l : SubSeq(u, 1, l)[i] = u[i]
    BY <1>4, <2>1
  <2> QED
    BY <1>4, <2>2, <2>3
<1>6. ASSUME NEW i \in 1..l PROVE a[i] = IF i <= n THEN s[i] ELSE 0
  <2>1. CASE i <= n
    BY <1>2, <1>5, <2>1 DEF IsPadded
  <2>2. CASE ~(i <= n)
    <3>1. i \in 1..n + z /\ i > n
      BY <1>1, <2>2
    <3> QED
      BY <1>2, <1>5, <2>2, <3>1 DEF IsPadded
  <2> QED
    BY <2>1, <2>2
<1> QED
  BY <1>1, <1>2, <1>5, <1>6 DEF AreFirst

(* However many zeros follow.                                              *)
LEMMA HeadOfPadded ==
  ASSUME NEW s \in Seq(Int), NEW n \in Nat, Len(s) = n, NEW z \in Nat, n + z >= LoaderLongs
  PROVE  SubSeq(s \o Unset(z), 1, LoaderLongs) = FirstLongs(s) /\ AreFirst(s, n, FirstLongs(s))
<1>1. PICK l \in Nat \ {0} : l = LoaderLongs
  BY FlashAssumption
<1>2. PICK a : a = SubSeq(s \o Unset(z), 1, LoaderLongs) /\ AreFirst(s, n, a)
  BY HeadIs
<1>3. n + LoaderLongs >= LoaderLongs /\ LoaderLongs \in Nat
  BY <1>1
<1>4. PICK b : b = FirstLongs(s) /\ AreFirst(s, n, b)
  BY <1>3, HeadIs DEF FirstLongs
<1>5. a = b
  <2>1. a \in Seq(Int) /\ b \in Seq(Int) /\ Len(a) = l /\ Len(b) = l /\ \A i \in 1..l : a[i] = b[i]
    BY <1>1, <1>2, <1>4 DEF AreFirst
  <2> QED
    BY <2>1, SeqEqual
<1> QED
  BY <1>2, <1>4, <1>5

(* A boot image of a file, for either way to boot.                         *)
IsLoader(f, img) ==
  /\ img[1] = Len(Longs(f.bytes)) /\ img[2] = Len(Longs(f.bytes)) /\ img[3] = -SumOf(Longs(f.bytes))
  /\ \A i \in 1..Len(Longs(f.bytes)) : img[AppStart + i] = Longs(f.bytes)[i]
IsStub(f, img) ==
  /\ img[3] = Len(f.bytes)
  /\ \A i \in 1..Len(Longs(f.bytes)) : img[LoaderLongs + i] = Longs(f.bytes)[i]

Boots(m, f, img) ==
  /\ m = "single" => IsLoader(f, img)
  /\ m = "fast" => IsStub(f, img)
  /\ SumOf(SubSeq(img, 1, LoaderLongs)) = Prop

(* Where the longs of the application are in it.                           *)
Before(m) == IF m = "single" THEN AppStart ELSE LoaderLongs

Programs(m, f, img) ==
  /\ img \in Seq(Int) /\ Boots(m, f, img)
  /\ \E q \in 1..FlashPages : Len(img) = q * PageLongs
  /\ LoaderLongs <= Len(img) /\ Before(m) + Len(Longs(f.bytes)) <= Len(img)

(* What the programmer downloaded is the application, and its settings     *)
(* make the loader's image boot it.                                        *)
LEMMA SettingsIs ==
  ASSUME NEW f \in Apps("single"), hub = Sent(f, 0)
  PROVE  /\ Downloaded = Longs(f.bytes)
         /\ SettingsOf(hub) \in Seq(Int)
         /\ SubSeq(SettingsOf(hub), Len(Programmer) + AppStart + 1, Len(SettingsOf(hub))) = Longs(f.bytes)
         /\ LoaderImage(SettingsOf(hub)) \in Seq(Int)
         /\ Len(LoaderImage(SettingsOf(hub))) = AppStart + Len(Longs(f.bytes))
         /\ IsLoader(f, LoaderImage(SettingsOf(hub)))
         /\ SumOf(FirstLongs(LoaderImage(SettingsOf(hub)))) = Prop
<1>1. PICK A \in Seq(Int), n \in Nat \ {0}, m \in Nat : A = Longs(f.bytes) /\ n = Len(A) /\ m = Len(Programmer)
  BY AppIs, ProgrammerAssumption
<1>2. PICK l \in Nat : l = m + 4 + n
  OBVIOUS
<1>3. PICK h \in Seq(Int) : h = hub /\ Len(h) = l /\ h[m + 4] = -Prop /\ \A i \in 1..n : h[m + 4 + i] = A[i]
  <2>1. /\ Sent(f, 0) \in Seq(Int) /\ Len(Sent(f, 0)) = m + AppStart + n
        /\ Sent(f, 0)[LOADER_SUM] = -Prop /\ \A i \in 1..n : Sent(f, 0)[m + AppStart + i] = A[i]
    BY <1>1, SentIs
  <2> QED
    BY <1>1, <1>2, <2>1 DEF AppStart, LOADER_SUM
<1>4. Prop \in Int
  BY FlashAssumption
(* The part behind the settings.                                           *)
<1>5. ASSUME NEW s \in Seq(Int), Len(s) = l, \A i \in 1..n : s[m + 4 + i] = A[i]
      PROVE  SubSeq(s, m + AppStart + 1, Len(s)) = A
  <2>1. PICK a \in Nat \ {0} : a = m + 4 + 1
    OBVIOUS
  <2>2. l <= Len(s) /\ a <= l + 1
    BY <1>2, <1>5, <2>1
  <2>3. /\ SubSeq(s, a, l) \in Seq(Int) /\ Len(SubSeq(s, a, l)) = l - a + 1
        /\ \A i \in 1..l - a + 1 : SubSeq(s, a, l)[i] = s[a + i - 1]
    BY <2>2, PartType
  <2>4. l - a + 1 = n
    BY <1>2, <2>1
  <2>5. \A i \in 1..n : a + i - 1 = m + 4 + i
    BY <2>1
  <2>6. \A i \in 1..n : SubSeq(s, a, l)[i] = A[i]
    BY <1>5, <2>3, <2>4, <2>5
  <2>7. SubSeq(s, a, l) = A
    BY <1>1, <2>3, <2>4, <2>6, SeqEqual
  <2> QED
    BY <1>5, <2>1, <2>7 DEF AppStart
<1>6. Downloaded = A
  BY <1>1, <1>3, <1>5 DEF Downloaded
<1>7. PICK x \in Int : x = -SumOf(A)
  BY SumOfType
<1>8. PICK t1 : t1 = [h EXCEPT ![m + 1] = n] /\ IsReplaced(h, l, m + 1, n, t1)
  <2>1. m + 1 \in 1..l /\ n \in Int
    BY <1>2
  <2>2. IsReplaced(h, l, m + 1, n, [h EXCEPT ![m + 1] = n])
    BY <1>3, <2>1, Replaced
  <2> QED
    BY <2>2
<1>9. PICK t2 : t2 = [t1 EXCEPT ![m + 2] = n] /\ IsReplaced(t1, l, m + 2, n, t2)
  <2>1. m + 2 \in 1..l /\ n \in Int /\ t1 \in Seq(Int) /\ Len(t1) = l
    BY <1>2, <1>8 DEF IsReplaced
  <2>2. IsReplaced(t1, l, m + 2, n, [t1 EXCEPT ![m + 2] = n])
    BY <2>1, Replaced
  <2> QED
    BY <2>2
<1>10. PICK t3 : t3 = [t2 EXCEPT ![m + 3] = x] /\ IsReplaced(t2, l, m + 3, x, t3)
  <2>1. m + 3 \in 1..l /\ t2 \in Seq(Int) /\ Len(t2) = l
    BY <1>2, <1>9 DEF IsReplaced
  <2>2. IsReplaced(t2, l, m + 3, x, [t2 EXCEPT ![m + 3] = x])
    BY <2>1, Replaced
  <2> QED
    BY <2>2
<1>11. /\ t3 \in Seq(Int) /\ Len(t3) = l /\ t3[m + 1] = n /\ t3[m + 2] = n /\ t3[m + 3] = x
       /\ \A i \in 1..l : i > m + 3 => t3[i] = h[i]
  <2>1. m + 1 \in 1..l /\ m + 2 \in 1..l /\ m + 3 \in 1..l
    BY <1>2
  <2>2. t3 \in Seq(Int) /\ Len(t3) = l /\ t3[m + 3] = x
    BY <1>10 DEF IsReplaced
  <2>3. t3[m + 2] = n /\ t3[m + 1] = n
    BY <1>8, <1>9, <1>10, <2>1 DEF IsReplaced
  <2>4. ASSUME NEW i \in 1..l, i > m + 3 PROVE t3[i] = h[i]
    <3>1. i # m + 1 /\ i # m + 2 /\ i # m + 3
      BY <2>4
    <3> QED
      BY <1>8, <1>9, <1>10, <3>1 DEF IsReplaced
  <2> QED
    BY <2>2, <2>3, <2>4
<1>12. PICK c \in Nat : c = 4 + n
  OBVIOUS
(* The loader in it.                                                       *)
<1>13. ASSUME NEW s \in Seq(Int), Len(s) = l
       PROVE  /\ LoaderImage(s) \in Seq(Int) /\ Len(LoaderImage(s)) = c
              /\ \A i \in 1..c : LoaderImage(s)[i] = s[m + i]
  <2>1. PICK a \in Nat \ {0} : a = m + 1
    OBVIOUS
  <2>2. l <= Len(s) /\ a <= l + 1
    BY <1>2, <1>13, <2>1
  <2>3. /\ SubSeq(s, a, l) \in Seq(Int) /\ Len(SubSeq(s, a, l)) = l - a + 1
        /\ \A i \in 1..l - a + 1 : SubSeq(s, a, l)[i] = s[a + i - 1]
    BY <2>2, PartType
  <2>4. l - a + 1 = c
    BY <1>2, <1>12, <2>1
  <2>5. \A i \in 1..c : a + i - 1 = m + i
    BY <2>1
  <2>6. LoaderImage(s) = SubSeq(s, a, l)
    BY <1>1, <1>13, <2>1 DEF LoaderImage
  <2> QED
    BY <2>3, <2>4, <2>5, <2>6
<1>14. PICK u0 \in Seq(Int) : u0 = LoaderImage(t3) /\ Len(u0) = c /\ \A i \in 1..c : u0[i] = t3[m + i]
  BY <1>11, <1>13
<1>15. PICK L \in Nat : L = LoaderLongs /\ L > 4
  BY FlashAssumption DEF AppStart
<1>16. ASSUME NEW u \in Seq(Int), Len(u) = c
       PROVE  FirstLongs(u) \in Seq(Int) /\ Len(FirstLongs(u)) = L
              /\ \A i \in 1..L : FirstLongs(u)[i] = IF i <= c THEN u[i] ELSE 0
  <2>1. c + LoaderLongs >= LoaderLongs /\ LoaderLongs \in Nat
    BY <1>15
  <2>2. AreFirst(u, c, FirstLongs(u))
    BY <1>16, <2>1, HeadOfPadded
  <2> QED
    BY <1>15, <2>2 DEF AreFirst
<1>17. PICK l0 \in Seq(Int) :
        l0 = FirstLongs(u0) /\ Len(l0) = L /\ \A i \in 1..L : l0[i] = IF i <= c THEN u0[i] ELSE 0
  BY <1>14, <1>16
<1>18. PICK y \in Int : y = SumOf(l0)
  BY SumOfType
<1>19. PICK t : t = [t3 EXCEPT ![m + 4] = -y] /\ IsReplaced(t3, l, m + 4, -y, t)
  <2>1. m + 4 \in 1..l /\ -y \in Int
    BY <1>2
  <2>2. IsReplaced(t3, l, m + 4, -y, [t3 EXCEPT ![m + 4] = -y])
    BY <1>11, <2>1, Replaced
  <2> QED
    BY <2>2
<1>20. SettingsOf(hub) = t
  <2>1. t3 = [h EXCEPT ![APP_LONGS] = n, ![APP_LONGS2] = n, ![APP_SUM] = AppSum(A)]
    BY <1>1, <1>7, <1>8, <1>9, <1>10 DEF APP_LONGS, APP_LONGS2, APP_SUM, AppSum
  <2>2. LOADER_SUM = m + 4
    BY <1>1 DEF LOADER_SUM
  <2>3. t = [t3 EXCEPT ![LOADER_SUM] = -SumOf(SubSeq(LoaderImage(t3) \o Unset(LoaderLongs), 1, LoaderLongs))]
    BY <1>14, <1>17, <1>18, <1>19, <2>2 DEF FirstLongs
  <2> QED
    BY <1>1, <1>3, <1>6, <2>1, <2>3 DEF SettingsOf
<1>21. /\ t \in Seq(Int) /\ Len(t) = l /\ t[m + 4] = -y /\ \A i \in 1..l : i # m + 4 => t[i] = t3[i]
  BY <1>19 DEF IsReplaced
<1>22. \A i \in 1..n : t[m + 4 + i] = A[i]
  <2> SUFFICES ASSUME NEW i \in 1..n PROVE t[m + 4 + i] = A[i]
    OBVIOUS
  <2>1. m + 4 + i \in 1..l /\ m + 4 + i # m + 4 /\ m + 4 + i > m + 3
    BY <1>2
  <2> QED
    BY <1>3, <1>11, <1>21, <2>1
<1>23. PICK u \in Seq(Int) : u = LoaderImage(t) /\ Len(u) = c /\ \A i \in 1..c : u[i] = t[m + i]
  BY <1>13, <1>21
<1>24. IsLoader(f, u)
  <2>1. 1 \in 1..c /\ 2 \in 1..c /\ 3 \in 1..c
    BY <1>12
  <2>2. u[1] = t[m + 1] /\ u[2] = t[m + 2] /\ u[3] = t[m + 3]
    BY <1>23, <2>1
  <2>3. m + 1 \in 1..l /\ m + 2 \in 1..l /\ m + 3 \in 1..l /\ m + 1 # m + 4 /\ m + 2 # m + 4 /\ m + 3 # m + 4
    BY <1>2
  <2>4. u[1] = n /\ u[2] = n /\ u[3] = x
    BY <1>11, <1>21, <2>2, <2>3
  <2>5. ASSUME NEW i \in 1..n PROVE u[4 + i] = A[i]
    <3>1. 4 + i \in 1..c /\ m + (4 + i) = m + 4 + i
      BY <1>12
    <3> QED
      BY <1>22, <1>23, <3>1
  <2> QED
    BY <1>1, <1>7, <2>4, <2>5 DEF IsLoader, AppStart
<1>25. PICK l1 \in Seq(Int) :
        l1 = FirstLongs(u) /\ Len(l1) = L /\ \A i \in 1..L : l1[i] = IF i <= c THEN u[i] ELSE 0
  BY <1>16, <1>23
<1>26. IsReplaced(l0, L, 4, -y, l1)
  <2>1. 4 \in 1..L /\ 4 \in 1..c /\ 4 <= c
    BY <1>12, <1>15
  <2>2. l1[4] = -y
    BY <1>21, <1>23, <1>25, <2>1
  <2>3. ASSUME NEW i \in 1..L, i # 4 PROVE l1[i] = l0[i]
    <3>1. CASE i <= c
      <4>1. i \in 1..c /\ m + i \in 1..l /\ m + i # m + 4
        BY <1>2, <1>12, <2>3, <3>1
      <4>2. u[i] = u0[i]
        BY <1>14, <1>21, <1>23, <4>1
      <4> QED
        BY <1>17, <1>25, <3>1, <4>2
    <3>2. CASE ~(i <= c)
      BY <1>17, <1>25, <3>2
    <3> QED
      BY <3>1, <3>2
  <2> QED
    BY <1>25, <2>2, <2>3 DEF IsReplaced
<1>27. l0[4] = -Prop
  <2>1. 4 \in 1..L /\ 4 \in 1..c /\ 4 <= c /\ m + 4 \in 1..l /\ m + 4 > m + 3
    BY <1>2, <1>12, <1>15
  <2>2. l0[4] = u0[4] /\ u0[4] = t3[m + 4] /\ t3[m + 4] = h[m + 4]
    BY <1>11, <1>14, <1>17, <2>1
  <2> QED
    BY <1>3, <2>2
<1>28. SumOf(l1) = Prop
  <2>1. 4 \in 1..L /\ -y \in Int
    BY <1>15
  <2>2. SumOf(l1) = SumOf(l0) - l0[4] + (-y)
    BY <1>17, <1>26, <2>1, SumReplaced
  <2>3. SumOf(l1) = y - (-Prop) + (-y)
    BY <1>18, <1>27, <2>2
  <2> QED
    BY <1>4, <2>3
<1>29. SubSeq(t, m + AppStart + 1, Len(t)) = A
  BY <1>5, <1>21, <1>22
<1> QED
  BY <1>1, <1>6, <1>12, <1>20, <1>21, <1>23, <1>24, <1>25, <1>28, <1>29 DEF AppStart

(* Pages that a part of the image is on.                                   *)
LEMMA NeededFits ==
  ASSUME NEW m \in {"single", "fast"}, NEW f \in Apps(m)
  PROVE  /\ Pages(LoaderLongs + Len(Longs(f.bytes))) \in Nat \ {0}
         /\ Pages(LoaderLongs + Len(Longs(f.bytes))) <= FlashPages
         /\ Pages(AppStart + Len(Longs(f.bytes))) \in Nat \ {0}
         /\ Pages(AppStart + Len(Longs(f.bytes))) <= FlashPages
         /\ LoaderLongs \div PageLongs \in Nat \ {0} /\ LoaderLongs \div PageLongs <= FlashPages
         /\ (LoaderLongs \div PageLongs) * PageLongs = LoaderLongs
<1>1. PICK n \in Nat \ {0} : n = Len(Longs(f.bytes))
  BY AppIs
<1>2. PICK p \in Nat \ {0}, L \in Nat \ {0} : p = PageLongs /\ L = LoaderLongs /\ L > 4 /\ L % p = 0
  BY FlashAssumption DEF AppStart
<1>3. PICK big \in Nat \ {0} : big = Pages(L + n) /\ big <= FlashPages
  <2>1. L + n \in Nat \ {0}
    OBVIOUS
  <2>2. f \in SingleApps \cup FastApps
    BY DEF Apps
  <2>3. Pages(L + n) <= FlashPages
    BY <1>1, <1>2, <2>2, FlashIsBigger
  <2>4. Pages(L + n) \in Nat \ {0}
    BY <1>2, <2>1, PagesHold
  <2> QED
    BY <2>3, <2>4
<1>4. Pages(4 + n) \in Nat \ {0} /\ Pages(4 + n) <= big
  <2>1. 4 + n \in Nat \ {0} /\ L + n \in Nat \ {0} /\ 4 + n <= L + n
    BY <1>2
  <2> QED
    BY <1>3, <2>1, PagesHold
<1>5. PICK k \in Nat : k = L \div p /\ k * p = L /\ k # 0
  <2>1. PICK k \in Nat : k = L \div p
    OBVIOUS
  <2>2. L = p * k + (L % p)
    BY <2>1
  <2>3. p * k = k * p /\ (k = 0 => p * k = 0)
    OBVIOUS
  <2> QED
    BY <1>2, <2>1, <2>2, <2>3
<1>6. k <= big
  <2>1. Pages(L) = k
    BY <1>2, <1>5, PagesOfPages
  <2>2. L + n \in Nat \ {0} /\ L <= L + n
    OBVIOUS
  <2> QED
    BY <1>3, <2>1, <2>2, PagesHold
<1>7. FlashPages \in Nat
  BY FlashAssumption
<1> QED
  BY <1>1, <1>2, <1>3, <1>4, <1>5, <1>6, <1>7 DEF AppStart

(* So what the programmer writes boots the application.                    *)
LEMMA SettingsProgram ==
  ASSUME NEW f \in Apps("single"), hub = Sent(f, 0),
         NEW src,
         src = LoaderImage(SettingsOf(hub)) \o
                 Unset(PagesNeeded * PageLongs - Len(LoaderImage(SettingsOf(hub))))
  PROVE  Programs("single", f, src) /\ PagesNeeded \in Nat \ {0} /\ Len(src) = PagesNeeded * PageLongs
<1>1. PICK u \in Seq(Int), c \in Nat, n \in Nat \ {0} :
        /\ u = LoaderImage(SettingsOf(hub)) /\ Len(u) = c /\ c = AppStart + n /\ n = Len(Longs(f.bytes))
        /\ IsLoader(f, u) /\ SumOf(FirstLongs(u)) = Prop
  BY SettingsIs, AppIs DEF AppStart
<1>2. PICK p \in Nat \ {0}, L \in Nat \ {0} : p = PageLongs /\ L = LoaderLongs
  BY FlashAssumption
<1>3. PICK need \in Nat \ {0}, w \in Nat :
        need = PagesNeeded /\ need <= FlashPages /\ w = need * p /\ c <= w /\ L <= w
  <2>13. "single" \in {"single", "fast"}
    OBVIOUS
  <2>1. PICK a \in Nat \ {0} : a = Pages(c) /\ a <= FlashPages
    BY <1>1, <2>13, NeededFits
  <2>2. PICK b \in Nat \ {0} : b = L \div p /\ b <= FlashPages /\ b * p = L
    BY <1>2, <2>13, NeededFits
  <2>3. c <= a * p /\ a * p \in Nat
    <3>1. c \in Nat \ {0}
      BY <1>1 DEF AppStart
    <3> QED
      BY <1>2, <2>1, <3>1, PagesHold
  <2>4. PICK need \in Nat \ {0} : need = Max({a, b}) /\ need >= a /\ need >= b /\ (need = a \/ need = b)
    <3>1. PICK m \in {a, b} : \A x \in {a, b} : m >= x
      <4>1. a >= b \/ b >= a
        OBVIOUS
      <4>2. CASE a >= b
        BY <4>2
      <4>3. CASE b >= a
        BY <4>3
      <4> QED
        BY <4>1, <4>2, <4>3
    <3>2. \A x \in {a, b} : (\A y \in {a, b} : x >= y) => x = m
      BY <3>1
    <3>3. Max({a, b}) = m
      BY <3>1, <3>2, Zenon DEF Max
    <3>4. m \in Nat \ {0} /\ m >= a /\ m >= b /\ (m = a \/ m = b)
      BY <3>1
    <3> QED
      BY <3>3, <3>4
  <2>5. need = PagesNeeded
    <3>1. Len(Downloaded) + AppStart = c
      BY <1>1, SettingsIs DEF AppStart
    <3> QED
      BY <1>2, <2>1, <2>2, <2>4, <3>1 DEF PagesNeeded
  <2>6. PICK d \in Nat, e \in Nat : need = a + d /\ need = b + e
    <3>1. need >= a /\ need >= b
      BY <2>4
    <3>2. PICK d \in Nat : d = need - a
      BY <3>1
    <3>3. PICK e \in Nat : e = need - b
      BY <3>1
    <3>4. need = a + d /\ need = b + e
      BY <3>2, <3>3
    <3> QED
      BY <3>4
  <2>7. (a + d) * p = a * p + d * p /\ (b + e) * p = b * p + e * p
    OBVIOUS
  <2>8. PICK w \in Nat, ap \in Nat, dp \in Nat, ep \in Nat :
          w = need * p /\ ap = a * p /\ dp = d * p /\ ep = e * p
    OBVIOUS
  <2>10. need * p = (a + d) * p /\ need * p = (b + e) * p
    BY <2>6
  <2>11. w = ap + dp /\ w = b * p + ep
    BY <2>7, <2>8, <2>10
  <2>12. c <= ap /\ w = L + ep
    BY <2>2, <2>3, <2>8, <2>11
  <2>9. c <= w /\ L <= w
    BY <1>1, <2>11, <2>12
  <2> QED
    BY <2>1, <2>2, <2>4, <2>5, <2>8, <2>9
<1>4. PICK z \in Nat : z = w - c
  BY <1>3
<1>5. src = u \o Unset(z)
  BY <1>1, <1>2, <1>3, <1>4
<1>6. IsPadded(u, c, z, src)
  BY <1>1, <1>5, PaddedIs
<1>7. src \in Seq(Int) /\ Len(src) = w /\ \A i \in 1..c : src[i] = u[i]
  BY <1>4, <1>6 DEF IsPadded
<1>8. SumOf(SubSeq(src, 1, LoaderLongs)) = Prop
  <2>1. c + z >= LoaderLongs
    BY <1>2, <1>3, <1>4
  <2> QED
    BY <1>1, <1>5, <2>1, HeadOfPadded
<1>9. IsLoader(f, src)
  <2>1. 1 \in 1..c /\ 2 \in 1..c /\ 3 \in 1..c /\ \A i \in 1..n : AppStart + i \in 1..c
    BY <1>1 DEF AppStart
  <2> QED
    BY <1>1, <1>7, <2>1 DEF IsLoader
<1>10. Programs("single", f, src)
  <2>1. Boots("single", f, src)
    BY <1>8, <1>9 DEF Boots
  <2>2. Before("single") + Len(Longs(f.bytes)) <= Len(src) /\ LoaderLongs <= Len(src)
    BY <1>1, <1>2, <1>3, <1>7 DEF Before
  <2>3. need \in 1..FlashPages /\ Len(src) = need * PageLongs
    <3>1. FlashPages \in Nat
      BY FlashAssumption
    <3> QED
      BY <1>2, <1>3, <1>7, <3>1
  <2>4. \E q \in 1..FlashPages : Len(src) = q * PageLongs
    BY <2>3
  <2> QED
    BY <1>7, <2>1, <2>2, <2>4, Zenon DEF Programs
<1> QED
  BY <1>2, <1>3, <1>7, <1>10

(* And so does what the host sends behind its stub.                        *)
LEMMA StubProgram ==
  ASSUME NEW f \in Apps("fast"), NEW src,
         src = Padded(Stub(Len(f.bytes)) \o Longs(f.bytes))
  PROVE  Programs("fast", f, src) /\ Pages(Len(src)) \in Nat \ {0} /\ Len(src) = Pages(Len(src)) * PageLongs
<1>1. PICK A \in Seq(Int), n \in Nat \ {0} : A = Longs(f.bytes) /\ n = Len(A)
  BY AppIs
<1>2. PICK p \in Nat \ {0}, L \in Nat \ {0} : p = PageLongs /\ L = LoaderLongs /\ L > 4
  BY FlashAssumption DEF AppStart
<1>3. PICK size \in Nat : size = Len(f.bytes)
  BY AppIs
(* The stub.                                                               *)
<1>4. PICK s0 \in Seq(Int) :
        s0 = <<1, 0, size>> \o Unset(LoaderLongs - 3) /\ Len(s0) = L /\ s0[2] = 0 /\ s0[3] = size
  <2>1. PICK t \in Seq(Int) : t = <<1, 0, size>> /\ Len(t) = 3 /\ t[2] = 0 /\ t[3] = size
    <3>1. <<1, 0, size>> \in Seq(Int) /\ Len(<<1, 0, size>>) = 3 /\ <<1, 0, size>>[2] = 0
         /\ <<1, 0, size>>[3] = size
      OBVIOUS
    <3> QED
      BY <3>1
  <2>2. PICK z \in Nat : z = LoaderLongs - 3 /\ 3 + z = L
    BY <1>2
  <2>3. IsPadded(t, 3, z, t \o Unset(z))
    BY <2>1, PaddedIs
  <2>4. 2 \in 1..3 /\ 3 \in 1..3
    OBVIOUS
  <2> QED
    BY <2>1, <2>2, <2>3, <2>4 DEF IsPadded
<1>5. PICK y \in Int : y = SumOf(s0)
  BY SumOfType
<1>6. Prop \in Int
  BY FlashAssumption
<1>24. PICK d \in Int : d = Prop - y
  BY <1>6
<1>7. PICK s : s = [s0 EXCEPT ![2] = d] /\ IsReplaced(s0, L, 2, d, s)
  <2>1. 2 \in 1..L
    BY <1>2
  <2>2. IsReplaced(s0, L, 2, d, [s0 EXCEPT ![2] = d])
    BY <1>4, <2>1, Replaced
  <2> QED
    BY <2>2
<1>8. s = Stub(Len(f.bytes))
  BY <1>1, <1>3, <1>4, <1>5, <1>7, <1>24 DEF Stub
<1>9. s \in Seq(Int) /\ Len(s) = L /\ s[3] = size
  <2>1. 3 \in 1..L /\ 3 # 2
    BY <1>2
  <2> QED
    BY <1>4, <1>7, <2>1 DEF IsReplaced
<1>10. SumOf(s) = Prop
  <2>1. PICK j \in 1..L : j = 2
    BY <1>2
  <2>5. Len(s0) = L /\ IsReplaced(s0, L, j, d, s)
    BY <1>4, <1>7, <2>1
  <2>6. SumOf(s) = SumOf(s0) - s0[j] + d
    BY <2>5, SumReplaced
  <2>2. SumOf(s) = SumOf(s0) - s0[2] + d
    BY <2>1, <2>6
  <2>3. SumOf(s) = y - 0 + d
    BY <1>4, <1>5, <2>2
  <2>4. y - 0 + d = Prop
    BY <1>6, <1>24
  <2> QED
    BY <2>3, <2>4
(* The application behind it, and the pad.                                 *)
<1>11. PICK c \in Nat \ {0} : c = L + n
  OBVIOUS
<1>12. PICK u : u = s \o A /\ IsJoined(s, A, L, n, u)
  BY <1>1, <1>9, Joined
<1>13. u \in Seq(Int) /\ Len(u) = c /\ (\A i \in 1..L : u[i] = s[i]) /\ \A i \in 1..n : u[L + i] = A[i]
  BY <1>11, <1>12 DEF IsJoined
<1>14. PICK q \in Nat \ {0}, w \in Nat : q = Pages(c) /\ q <= FlashPages /\ w = q * p /\ c <= w
  <2>1. Pages(c) \in Nat \ {0} /\ Pages(c) <= FlashPages
    BY <1>1, <1>2, <1>11, NeededFits
  <2>2. Pages(c) * p \in Nat /\ c <= Pages(c) * p
    BY <1>2, PagesHold
  <2> QED
    BY <2>1, <2>2
<1>15. PICK z \in Nat : z = w - c
  BY <1>14
<1>16. src = u \o Unset(z)
  BY <1>1, <1>2, <1>8, <1>12, <1>13, <1>14, <1>15 DEF Padded
<1>17. src \in Seq(Int) /\ Len(src) = w /\ \A i \in 1..c : src[i] = u[i]
  <2>1. IsPadded(u, c, z, src)
    BY <1>13, <1>16, PaddedIs
  <2> QED
    BY <1>15, <2>1 DEF IsPadded
<1>18. SubSeq(src, 1, LoaderLongs) = s
  <2>1. L <= Len(src) /\ 1 <= L + 1
    BY <1>11, <1>14, <1>17
  <2>2. /\ SubSeq(src, 1, L) \in Seq(Int) /\ Len(SubSeq(src, 1, L)) = L - 1 + 1
        /\ \A i \in 1..L - 1 + 1 : SubSeq(src, 1, L)[i] = src[1 + i - 1]
    BY <1>17, <2>1, PartType
  <2>3. L - 1 + 1 = L /\ \A i \in 1..L : 1 + i - 1 = i /\ i \in 1..c
    BY <1>11
  <2>4. Len(SubSeq(src, 1, L)) = L /\ \A i \in 1..L : SubSeq(src, 1, L)[i] = src[i]
    BY <2>2, <2>3
  <2>5. \A i \in 1..L : SubSeq(src, 1, L)[i] = s[i]
    BY <1>13, <1>17, <2>3, <2>4
  <2>6. SubSeq(src, 1, L) = s
    BY <1>9, <2>2, <2>4, <2>5, SeqEqual
  <2> QED
    BY <1>2, <2>6
<1>19. IsStub(f, src)
  <2>1. 3 \in 1..L /\ 3 \in 1..c /\ \A i \in 1..n : L + i \in 1..c
    BY <1>2, <1>11
  <2> QED
    BY <1>1, <1>2, <1>3, <1>9, <1>13, <1>17, <2>1 DEF IsStub
<1>20. Programs("fast", f, src)
  <2>1. Boots("fast", f, src)
    BY <1>10, <1>18, <1>19 DEF Boots
  <2>2. Before("fast") + Len(Longs(f.bytes)) <= Len(src) /\ LoaderLongs <= Len(src)
    BY <1>1, <1>2, <1>11, <1>14, <1>17 DEF Before
  <2> QED
    BY <1>2, <1>14, <1>17, <2>1, <2>2 DEF Programs
<1>21. Pages(Len(src)) = q
  BY <1>2, <1>14, <1>17, PagesOfPages
<1> QED
  BY <1>2, <1>14, <1>17, <1>20, <1>21

-----------------------------------------------------------------------------
(* Pages and blocks. *)

(* Quotient and remainder.                                                 *)
LEMMA Division ==
  ASSUME NEW x \in Nat, NEW b \in Nat \ {0}
  PROVE  \E q \in Nat, r \in Nat : q = x \div b /\ r = x % b /\ r < b /\ x = b * q + r
<1>1. PICK q \in Int : q = x \div b
  OBVIOUS
<1>2. PICK r \in Int : r = x % b
  OBVIOUS
<1>3. x = b * q + r /\ 0 <= r /\ r < b
  BY <1>1, <1>2
<1>4. q >= 0
  BY <1>1
<1>5. q \in Nat /\ r \in Nat
  BY <1>3, <1>4
<1> QED
  BY <1>1, <1>2, <1>3, <1>5, Zenon

(* There is only one of each.                                              *)
LEMMA DivisionIs ==
  ASSUME NEW b \in Nat \ {0}, NEW q \in Nat, NEW r \in Nat, r < b
  PROVE  (b * q + r) \div b = q /\ (b * q + r) % b = r
<1>1. PICK w \in Nat : w = b * q
  OBVIOUS
<1>2. PICK x \in Nat : x = w + r
  OBVIOUS
<1>3. PICK u \in Nat, v \in Nat : u = x \div b /\ v = x % b /\ v < b /\ x = b * u + v
  BY Division
<1>4. PICK y \in Nat : y = b * u
  OBVIOUS
<1>5. w + r = y + v
  BY <1>2, <1>3, <1>4
<1>6. ASSUME NEW d \in Nat, q = u + 1 + d PROVE FALSE
  <2>1. PICK e \in Nat : e = b * d
    OBVIOUS
  <2>2. w = y + b + e
    BY <1>1, <1>4, <1>6, <2>1
  <2> QED
    BY <1>3, <1>5, <2>1, <2>2
<1>7. ASSUME NEW d \in Nat, u = q + 1 + d PROVE FALSE
  <2>1. PICK e \in Nat : e = b * d
    OBVIOUS
  <2>2. y = w + b + e
    BY <1>1, <1>4, <1>7, <2>1
  <2> QED
    BY <1>5, <2>1, <2>2
<1>8. u = q
  <2>1. q < u \/ u = q \/ u < q
    OBVIOUS
  <2>2. u < q => q = u + 1 + (q - u - 1) /\ q - u - 1 \in Nat
    OBVIOUS
  <2>3. q < u => u = q + 1 + (u - q - 1) /\ u - q - 1 \in Nat
    OBVIOUS
  <2> QED
    BY <1>6, <1>7, <2>1, <2>2, <2>3
<1>9. v = r
  BY <1>1, <1>4, <1>5, <1>8
<1> QED
  BY <1>1, <1>2, <1>3, <1>8, <1>9

(* Dividing by a product is dividing twice.                                *)
LEMMA NestedDivision ==
  ASSUME NEW x \in Nat, NEW p \in Nat \ {0}, NEW b \in Nat \ {0}
  PROVE  x \div (b * p) = (x \div p) \div b
<1>1. PICK q \in Nat, r \in Nat : q = x \div p /\ r < p /\ x = p * q + r
  BY Division
<1>2. PICK u \in Nat, v \in Nat : u = q \div b /\ v < b /\ q = b * u + v
  BY Division
<1>3. PICK d \in Nat : b = v + 1 + d
  <2>1. b - v - 1 \in Nat /\ b = v + 1 + (b - v - 1)
    BY <1>2
  <2> QED
    BY <2>1
<1>4. PICK bp \in Nat, pv \in Nat, pd \in Nat : bp = b * p /\ pv = p * v /\ pd = p * d
  OBVIOUS
<1>5. bp = pv + p + pd
  BY <1>3, <1>4
<1>6. bp # 0 /\ pv + r < bp
  BY <1>1, <1>4, <1>5
<1>7. p * q = bp * u + pv
  <2>1. p * (b * u + v) = (b * p) * u + p * v
    OBVIOUS
  <2> QED
    BY <1>2, <1>4, <2>1
<1>8. x = bp * u + (pv + r)
  <2>1. PICK z \in Nat : z = bp * u
    OBVIOUS
  <2>2. p * q = z + pv
    BY <1>7, <2>1
  <2>3. x = z + (pv + r)
    BY <1>1, <2>2
  <2> QED
    BY <2>1, <2>3
<1>9. x \div bp = u
  <2>1. bp \in Nat \ {0} /\ pv + r \in Nat
    BY <1>6
  <2> QED
    BY <1>6, <1>8, <2>1, DivisionIs
<1> QED
  BY <1>1, <1>2, <1>4, <1>9

(* The next page is in the same block unless its number is a multiple of   *)
(* the block's size, and then all before are in others.                    *)
LEMMA SameBlock ==
  ASSUME NEW a \in Nat, NEW b \in Nat \ {0}, (a + 1) % b # 0
  PROVE  (a + 1) \div b = a \div b
<1>1. PICK q \in Nat, r \in Nat : q = a \div b /\ r < b /\ a = b * q + r
  BY Division
<1>2. PICK w \in Nat : w = b * q
  OBVIOUS
<1>3. a + 1 = w + (r + 1)
  BY <1>1, <1>2
<1>4. r + 1 # b
  <2>1. ASSUME r + 1 = b PROVE FALSE
    <3>1. b * (q + 1) = b * q + b
      OBVIOUS
    <3>2. a + 1 = b * (q + 1) + 0
      BY <1>1, <2>1, <3>1
    <3>3. q + 1 \in Nat /\ 0 \in Nat /\ 0 < b
      OBVIOUS
    <3>4. (b * (q + 1) + 0) % b = 0
      BY <3>3, DivisionIs
    <3> QED
      BY <3>2, <3>4
  <2> QED
    BY <2>1
<1>5. r + 1 \in Nat /\ r + 1 < b
  BY <1>1, <1>4
<1>6. (b * q + (r + 1)) \div b = q
  BY <1>5, DivisionIs
<1> QED
  BY <1>1, <1>2, <1>3, <1>6

(* No page before a block's first is in that block.                        *)
LEMMA OtherBlock ==
  ASSUME NEW a \in Nat, NEW c \in Nat, NEW b \in Nat \ {0}, a < c, c % b = 0
  PROVE  a \div b # c \div b
<1>1. PICK q \in Nat, r \in Nat : q = a \div b /\ r < b /\ a = b * q + r
  BY Division
<1>2. PICK u \in Nat, v \in Nat : u = c \div b /\ v = c % b /\ c = b * u + v
  BY Division
<1>3. ASSUME q = u PROVE FALSE
  <2>1. PICK w \in Nat : w = b * q /\ w = b * u
    BY <1>3
  <2> QED
    BY <1>1, <1>2, <2>1
<1> QED
  BY <1>1, <1>2, <1>3

(* A multiple of the big size is one of the small.                         *)
LEMMA Multiples ==
  ASSUME NEW c \in Nat, NEW s \in Nat \ {0}, NEW b \in Nat \ {0}, b % s = 0, c % b = 0
  PROVE  c % s = 0
<1>1. PICK u \in Nat, v \in Nat : v = c % b /\ c = b * u + v
  BY Division
<1>2. PICK q \in Nat, r \in Nat : r = b % s /\ b = s * q + r
  BY Division
<1>3. PICK sq \in Nat : sq = s * q /\ b = sq
  BY <1>2
<1>4. c = sq * u
  <2>1. PICK w \in Nat : w = b * u
    OBVIOUS
  <2> QED
    BY <1>1, <1>3, <2>1
<1>5. PICK k \in Nat : k = q * u
  OBVIOUS
<1>6. sq * u = s * k
  BY <1>3, <1>5
<1>7. 0 \in Nat /\ 0 < s
  OBVIOUS
<1>8. (s * k + 0) % s = 0
  BY <1>7, DivisionIs
<1> QED
  BY <1>4, <1>6, <1>8

(* The page a long is on.                                                  *)
PageOf(i) == (i - 1) \div PageLongs

(* A long is before a page exactly if its number says so.                  *)
LEMMA PageIs ==
  ASSUME NEW i \in Nat \ {0}
  PROVE  /\ PageOf(i) \in Nat
         /\ \A k \in Nat : i <= k * PageLongs <=> PageOf(i) < k
<1>1. PICK p \in Nat \ {0} : p = PageLongs
  BY FlashAssumption
<1>2. PICK x \in Nat : x = i - 1
  OBVIOUS
<1>3. PICK q \in Nat, r \in Nat : q = x \div p /\ r < p /\ x = p * q + r
  BY Division
<1>4. PICK w \in Nat : w = q * p /\ w = p * q
  OBVIOUS
<1>5. i = w + r + 1
  BY <1>2, <1>3, <1>4
<1>6. ASSUME NEW k \in Nat PROVE i <= k * p <=> q < k
  <2>1. CASE q < k
    <3>1. PICK d \in Nat : k = q + 1 + d
      <4>1. k - q - 1 \in Nat /\ k = q + 1 + (k - q - 1)
        BY <2>1
      <4> QED
        BY <4>1
    <3>2. PICK e \in Nat : e = d * p
      OBVIOUS
    <3>3. (q + 1 + d) * p = w + p + e
      BY <1>4, <3>2
    <3>4. k * p = w + p + e
      BY <3>1, <3>3
    <3>5. i <= w + p + e
      BY <1>3, <1>5
    <3> QED
      BY <2>1, <3>4, <3>5
  <2>2. CASE ~(q < k)
    <3>1. PICK d \in Nat : q = k + d
      <4>1. q - k \in Nat /\ q = k + (q - k)
        BY <2>2
      <4> QED
        BY <4>1
    <3>2. PICK e \in Nat, z \in Nat : e = d * p /\ z = k * p
      OBVIOUS
    <3>3. (k + d) * p = z + e
      BY <3>2
    <3>4. w = z + e
      BY <1>4, <3>1, <3>3
    <3>5. ~(i <= z)
      BY <1>5, <3>4
    <3> QED
      BY <2>2, <3>2, <3>5
  <2> QED
    BY <2>1, <2>2
<1> QED
  BY <1>1, <1>2, <1>3, <1>6 DEF PageOf

-----------------------------------------------------------------------------
(* The invariant. *)

Writing == {"block", "erasing", "page", "programming"}

FlashType ==
  /\ method \in {"single", "fast"}
  /\ flash \in [1..FlashPages * PageLongs -> Int]
  /\ page \in Nat /\ left \in Nat /\ block \in {SmallPages, BigPages}
  /\ whole \in BOOLEAN

(* What was last begun is a program that boots the file.                   *)
Begun == last # NoApp => last \in Apps(method) /\ Programs(method, last, source)

(* Hub memory holds what the host sent, and then the application.          *)
Held ==
  /\ chip \in {"check", "settings", "read", "verify"} => method = "single"
  /\ chip = "check" => sent \in Apps("single") /\ \E wrong \in 0..1 : hub = Sent(sent, wrong)
  /\ chip = "settings" => sent \in Apps("single") /\ hub = Sent(sent, 0)
  /\ chip \in Writing \cup {"move"} =>
       /\ last # NoApp
       /\ method = "single" => Downloaded = Longs(last.bytes)
       /\ method = "fast" => hub = Longs(last.bytes)

(* The pages before this one are programmed, and from this one on the      *)
(* block is erased once it has been.                                       *)
Progress ==
  chip \in Writing =>
    /\ ~whole /\ left >= 1 /\ Len(source) = (page + left) * PageLongs
    /\ \A i \in DOMAIN flash : PageOf(i) < page => flash[i] = source[i]
    /\ chip \in {"block", "erasing"} => page % block = 0
    /\ chip \in {"page", "programming"} =>
         \A i \in DOMAIN flash :
           PageOf(i) >= page /\ PageOf(i) \div block = page \div block => flash[i] = Erased

Done == whole => last # NoApp /\ \A i \in 1..Len(source) : flash[i] = source[i]

(* What boots from there is the application.                               *)
BootsIt ==
  whole =>
    /\ chip = "verify" => hub = Longs(last.bytes)
    /\ chip = "running" => /\ IsPrefix(Longs(last.bytes), app)
                           /\ method = "single" => app = Longs(last.bytes)
                           /\ method = "fast" => Len(app) <= Len(last.bytes)

FlashInv == FlashType /\ Begun /\ Held /\ Progress /\ Done /\ BootsIt

(* The application in flash is some longs, which begin with themselves.    *)
LEMMA LastIs ==
  ASSUME FlashType, last \in Apps(method)
  PROVE  /\ Longs(last.bytes) \in Seq(Int) /\ Len(Longs(last.bytes)) \in Nat \ {0}
         /\ Len(Longs(last.bytes)) <= Len(last.bytes) /\ Len(last.bytes) \in Nat
         /\ AsInFile(method, last) /\ IsPrefix(Longs(last.bytes), Longs(last.bytes))
<1>1. /\ Longs(last.bytes) \in Seq(Int) /\ Len(Longs(last.bytes)) \in Nat \ {0}
      /\ Len(Longs(last.bytes)) <= Len(last.bytes) /\ Len(last.bytes) \in Nat
      /\ AsInFile(method, last)
  <2>1. method \in {"single", "fast"}
    BY DEF FlashType
  <2> QED
    BY <2>1, AppIs
<1>2. PICK n \in Nat : n = Len(Longs(last.bytes)) /\ n <= n
  BY <1>1
<1>3. IsPrefix(Longs(last.bytes), Longs(last.bytes))
  BY <1>2 DEF IsPrefix
<1> QED
  BY <1>1, <1>3

(* So many longs, of which the first are these.                            *)
StartsWith(g, k, a, n) == g \in Seq(Int) /\ Len(g) = k /\ \A i \in 1..n : g[i] = a[i]

(* A flash with the program in it boots the application.                   *)
LEMMA Booted ==
  ASSUME FlashType, last \in Apps(method), Programs(method, last, source),
         \A i \in 1..Len(source) : flash[i] = source[i]
  PROVE  /\ SumOf(FlashLoader) = Prop
         /\ method = "single" => /\ IsLoader(last, flash)
                                 /\ SubSeq(flash, AppStart + 1, AppStart + flash[1]) = Longs(last.bytes)
                                 /\ FromFlash(AppStart, flash[1]) = Longs(last.bytes)
         /\ method = "fast" => /\ IsPrefix(Longs(last.bytes), FromFlash(LoaderLongs, flash[3]))
                               /\ Len(FromFlash(LoaderLongs, flash[3])) <= Len(last.bytes)
<1>1. PICK A \in Seq(Int), n \in Nat \ {0} : A = Longs(last.bytes) /\ n = Len(A)
  BY LastIs
<1>2. PICK p \in Nat \ {0}, L \in Nat \ {0}, F \in Nat :
        p = PageLongs /\ L = LoaderLongs /\ L > 4 /\ F = FlashPages
  BY FlashAssumption DEF AppStart
<1>3. PICK f \in Seq(Int), t \in Nat : f = flash /\ Len(f) = t /\ t = F * p
  <2>1. PICK t \in Nat : t = F * p
    OBVIOUS
  <2>2. flash \in [1..t -> Int]
    BY <1>2, <2>1 DEF FlashType
  <2>3. flash \in Seq(Int) /\ Len(flash) = t
    BY <2>2
  <2> QED
    BY <2>1, <2>3
<1>4. PICK s \in Seq(Int), e \in Nat : s = source /\ e = Len(s)
  BY DEF Programs
<1>5. e <= t /\ L <= e /\ Before(method) + n <= e
  <2>1. PICK q \in 1..F : e = q * p
    BY <1>2, <1>4 DEF Programs
  <2>2. PICK d \in Nat : F = q + d
    <3>1. F - q \in Nat /\ F = q + (F - q)
      BY <2>1
    <3> QED
      BY <3>1
  <2>3. PICK dp \in Nat : dp = d * p
    OBVIOUS
  <2>4. (q + d) * p = q * p + dp
    BY <2>3
  <2>5. t = e + dp
    BY <1>3, <2>1, <2>2, <2>4
  <2> QED
    BY <1>1, <1>2, <1>4, <2>5 DEF Programs
<1>6. \A i \in 1..e : f[i] = s[i]
  BY <1>3, <1>4
<1>7. SubSeq(f, 1, L) = SubSeq(s, 1, L)
  <2>1. 1 \in Nat \ {0} /\ L \in Nat /\ L <= Len(f) /\ L <= Len(s) /\ 1 <= L + 1
    BY <1>3, <1>4, <1>5
  <2>2. /\ SubSeq(f, 1, L) \in Seq(Int) /\ Len(SubSeq(f, 1, L)) = L - 1 + 1
        /\ \A i \in 1..L - 1 + 1 : SubSeq(f, 1, L)[i] = f[1 + i - 1]
    BY <2>1, PartType
  <2>3. /\ SubSeq(s, 1, L) \in Seq(Int) /\ Len(SubSeq(s, 1, L)) = L - 1 + 1
        /\ \A i \in 1..L - 1 + 1 : SubSeq(s, 1, L)[i] = s[1 + i - 1]
    BY <2>1, PartType
  <2>4. \A i \in 1..L - 1 + 1 : 1 + i - 1 \in 1..e
    BY <1>5
  <2>5. \A i \in 1..L - 1 + 1 : SubSeq(f, 1, L)[i] = SubSeq(s, 1, L)[i]
    BY <1>6, <2>2, <2>3, <2>4
  <2> QED
    BY <2>2, <2>3, <2>5, SeqEqual
<1>8. SumOf(FlashLoader) = Prop
  BY <1>2, <1>3, <1>4, <1>7 DEF FlashLoader, Programs, Boots
(* A part of the flash that starts with the application.                   *)
<1>9. ASSUME NEW b \in Nat, b + n <= e, \A i \in 1..n : s[b + i] = A[i], NEW k \in Nat, n <= k, b + k <= t
      PROVE  StartsWith(SubSeq(f, b + 1, b + k), k, A, n)
  <2>1. PICK x \in Nat \ {0}, y \in Nat : x = b + 1 /\ y = b + k /\ y <= Len(f) /\ x <= y + 1
    <3>1. b + 1 \in Nat \ {0} /\ b + k \in Nat /\ b + k <= Len(f) /\ b + 1 <= b + k + 1
      BY <1>3, <1>9
    <3> QED
      BY <3>1
  <2>2. /\ SubSeq(f, x, y) \in Seq(Int) /\ Len(SubSeq(f, x, y)) = y - x + 1
        /\ \A i \in 1..y - x + 1 : SubSeq(f, x, y)[i] = f[x + i - 1]
    BY <2>1, PartType
  <2>3. y - x + 1 = k /\ \A i \in 1..n : i \in 1..k /\ x + i - 1 = b + i /\ b + i \in 1..e
    <3>1. b + n <= e /\ n <= k
      BY <1>9
    <3> QED
      BY <2>1, <3>1
  <2>4. PICK g : g = SubSeq(f, x, y) /\ g = SubSeq(f, b + 1, b + k)
    BY <2>1
  <2>5. g \in Seq(Int) /\ Len(g) = k
    BY <2>2, <2>3, <2>4
  <2>6. \A i \in 1..n : g[i] = f[b + i]
    BY <2>2, <2>3, <2>4
  <2>7. \A i \in 1..n : f[b + i] = s[b + i]
    BY <1>6, <2>3
  <2>8. \A i \in 1..n : g[i] = A[i]
    BY <1>9, <2>3, <2>6, <2>7
  <2> QED
    BY <2>4, <2>5, <2>8 DEF StartsWith
<1>10. ASSUME NEW x \in Nat, NEW y \in Nat PROVE Min({x, y}) = IF x <= y THEN x ELSE y
  <2>1. PICK m \in {x, y} : m = (IF x <= y THEN x ELSE y) /\ \A z \in {x, y} : m <= z
    OBVIOUS
  <2>2. \A z \in {x, y} : (\A v \in {x, y} : z <= v) => z = m
    BY <2>1
  <2>3. Min({x, y}) = m
    BY <2>1, <2>2, Zenon DEF Min
  <2> QED
    BY <2>1, <2>3
<1>11. ASSUME method = "single"
       PROVE  /\ IsLoader(last, flash)
              /\ SubSeq(flash, AppStart + 1, AppStart + flash[1]) = Longs(last.bytes)
              /\ FromFlash(AppStart, flash[1]) = Longs(last.bytes)
  <2>1. 4 + n <= e /\ IsLoader(last, s)
    BY <1>4, <1>5, <1>11 DEF Before, AppStart, Programs, Boots
  <2>2. s[1] = n /\ s[2] = n /\ s[3] = -SumOf(A) /\ \A i \in 1..n : s[4 + i] = A[i]
    BY <1>1, <2>1 DEF IsLoader, AppStart
  <2>3. 1 \in 1..e /\ 2 \in 1..e /\ 3 \in 1..e /\ \A i \in 1..n : 4 + i \in 1..e
    BY <2>1
  <2>4. f[1] = n /\ f[2] = n /\ f[3] = -SumOf(A) /\ \A i \in 1..n : f[4 + i] = A[i]
    BY <1>6, <2>2, <2>3
  <2>5. IsLoader(last, flash)
    BY <1>1, <1>3, <2>4 DEF IsLoader, AppStart
  <2>6. PICK g \in Seq(Int) : g = SubSeq(f, 4 + 1, 4 + n) /\ Len(g) = n /\ \A i \in 1..n : g[i] = A[i]
    <3>1. PICK b \in Nat : b = 4 /\ b + n <= e
      BY <2>1
    <3>2. \A i \in 1..n : s[b + i] = A[i]
      BY <2>2, <3>1
    <3>3. n \in Nat /\ n <= n /\ b + n <= t
      BY <1>5, <3>1
    <3>4. StartsWith(SubSeq(f, b + 1, b + n), n, A, n)
      BY <1>9, <3>1, <3>2, <3>3
    <3> QED
      BY <3>1, <3>4 DEF StartsWith
  <2>7. g = A
    BY <1>1, <2>6, SeqEqual
  <2>8. Min({4 + n, t}) = 4 + n
    <3>1. 4 + n \in Nat /\ 4 + n <= t
      BY <1>5, <2>1
    <3> QED
      BY <1>10, <3>1
  <2> QED
    BY <1>1, <1>3, <2>4, <2>5, <2>6, <2>7, <2>8 DEF AppStart, FromFlash
<1>12. ASSUME method = "fast"
       PROVE  /\ IsPrefix(Longs(last.bytes), FromFlash(LoaderLongs, flash[3]))
              /\ Len(FromFlash(LoaderLongs, flash[3])) <= Len(last.bytes)
  <2>1. L + n <= e /\ IsStub(last, s)
    BY <1>2, <1>4, <1>5, <1>11, <1>12 DEF Before, Programs, Boots
  <2>2. PICK z \in Nat : z = Len(last.bytes) /\ n <= z
    BY <1>1, LastIs
  <2>3. s[3] = z /\ \A i \in 1..n : s[L + i] = A[i]
    BY <1>1, <1>2, <2>1, <2>2 DEF IsStub
  <2>4. f[3] = z
    <3>1. 3 \in 1..e
      BY <1>2, <1>5
    <3> QED
      BY <1>6, <2>3, <3>1
  <2>5. PICK k \in Nat : Min({L + z, t}) = L + k /\ n <= k /\ L + k <= t /\ k <= z
    <3>1. L + z \in Nat /\ L + n <= t
      BY <1>5, <2>1
    <3>2. PICK m \in Nat : m = Min({L + z, t}) /\ m = IF L + z <= t THEN L + z ELSE t
      BY <1>10, <3>1
    <3>3. m - L \in Nat /\ m = L + (m - L) /\ n <= m - L /\ m <= t /\ m - L <= z
      <4>1. n <= z /\ L + n <= t
        BY <2>2, <3>1
      <4>2. CASE L + z <= t
        BY <3>2, <4>1, <4>2
      <4>3. CASE ~(L + z <= t)
        BY <3>2, <4>1, <4>3
      <4> QED
        BY <4>2, <4>3
    <3> QED
      BY <3>2, <3>3
  <2>6. PICK g \in Seq(Int) : g = SubSeq(f, L + 1, L + k) /\ Len(g) = k /\ \A i \in 1..n : g[i] = A[i]
    <3>1. StartsWith(SubSeq(f, L + 1, L + k), k, A, n)
      BY <1>9, <2>1, <2>3, <2>5
    <3> QED
      BY <3>1 DEF StartsWith
  <2>7. g = FromFlash(LoaderLongs, flash[3])
    BY <1>2, <1>3, <2>4, <2>5, <2>6 DEF FromFlash
  <2>8. IsPrefix(A, g)
    <3>0. Len(g) = k /\ n <= k
      BY <2>5, <2>6
    <3>8. n <= n /\ n \in Nat /\ 1 \in Nat \ {0} /\ 1 <= n + 1
      OBVIOUS
    <3>1. n <= Len(g) /\ n <= Len(A) /\ n \in Nat /\ 1 \in Nat \ {0} /\ 1 <= n + 1
      BY <1>1, <3>0, <3>8
    <3>2. /\ SubSeq(g, 1, n) \in Seq(Int) /\ Len(SubSeq(g, 1, n)) = n - 1 + 1
          /\ \A i \in 1..n - 1 + 1 : SubSeq(g, 1, n)[i] = g[1 + i - 1]
      BY <3>1, PartType
    <3>3. /\ SubSeq(A, 1, n) \in Seq(Int) /\ Len(SubSeq(A, 1, n)) = n - 1 + 1
          /\ \A i \in 1..n - 1 + 1 : SubSeq(A, 1, n)[i] = A[1 + i - 1]
      BY <3>1, PartType
    <3>4. n - 1 + 1 = n /\ \A i \in 1..n : 1 + i - 1 = i
      OBVIOUS
    <3>6. \A i \in 1..n : SubSeq(g, 1, n)[i] = SubSeq(A, 1, n)[i]
      BY <2>6, <3>2, <3>3, <3>4
    <3>7. Len(SubSeq(g, 1, n)) = n /\ Len(SubSeq(A, 1, n)) = n
      BY <3>2, <3>3, <3>4
    <3>5. SubSeq(g, 1, n) = SubSeq(A, 1, n)
      BY <3>2, <3>3, <3>6, <3>7, SeqEqual
    <3> QED
      BY <1>1, <3>1, <3>5 DEF IsPrefix
  <2>9. Len(g) <= Len(last.bytes)
    BY <2>2, <2>5, <2>6
  <2> QED
    BY <1>1, <2>7, <2>8, <2>9
<1> QED
  BY <1>8, <1>11, <1>12

(* What holds at the start.                                                *)
LEMMA FlashInit ==
  ASSUME Init
  PROVE  FlashInv
<1>1. FlashType
  <2>1. PICK n \in Nat : n = FlashPages * PageLongs
    <3>1. \A a, b \in Nat : a * b \in Nat
      OBVIOUS
    <3>2. FlashPages \in Nat /\ PageLongs \in Nat
      BY FlashAssumption
    <3> QED
      BY <3>1, <3>2
  <2>2. [i \in 1..n |-> Garbage] \in [1..n -> Int]
    BY FlashAssumption
  <2>3. flash \in [1..FlashPages * PageLongs -> Int]
    BY <2>1, <2>2 DEF Init
  <2> QED
    BY <2>3, FlashAssumption DEF FlashType, Init
<1> QED
  BY <1>1 DEF FlashInv, Init, Begun, Held, Progress, Done, BootsIt, Writing

(* Steps that leave the flash alone, and what is to be programmed.         *)
LEMMA KeepsFlash ==
  ASSUME FlashInv, UNCHANGED <<method, flash, source, page, left, block, last, whole>>, chip' \notin Writing
  PROVE  FlashType' /\ Begun' /\ Progress' /\ Done'
<1>1. FlashType'
  BY DEF FlashInv, FlashType
<1>2. Begun'
  BY DEF FlashInv, Begun
<1>3. Progress'
  BY DEF Progress
<1>4. Done'
  BY DEF FlashInv, Done
<1> QED
  BY <1>1, <1>2, <1>3, <1>4

(* The host sends the programmer: the flash is as it was.                  *)
LEMMA LoadSingleKeeps ==
  ASSUME FlashInv, NEW f \in Apps("single"), LoadSingle(f), sent' = f, UNCHANGED method
  PROVE  FlashInv'
<1>1. FlashType' /\ Begun' /\ Progress' /\ Done'
  BY KeepsFlash DEF LoadSingle, Writing
<1>2. Held'
  <2>1. chip' = "check" /\ method' = "single" /\ \E wrong \in 0..1 : hub' = Sent(f, wrong)
    BY DEF LoadSingle, Sent
  <2> QED
    BY <2>1 DEF Held, Writing
<1>3. BootsIt'
  BY DEF LoadSingle, BootsIt
<1> QED
  BY <1>1, <1>2, <1>3 DEF FlashInv

(* The host begins to program its stub and the application.                *)
LEMMA LoadFastKeeps ==
  ASSUME FlashInv, NEW f \in Apps("fast"), LoadFast(f), UNCHANGED method
  PROVE  FlashInv'
<1>1. method' = "fast" /\ chip' = "block" /\ hub' = Longs(f.bytes) /\ page' = 0
     /\ block' = SmallPages /\ last' = f /\ whole' = FALSE
  BY DEF LoadFast
<1>2. Programs("fast", f, source') /\ left' \in Nat \ {0} /\ Len(source') = left' * PageLongs
  BY StubProgram DEF LoadFast
<1>3. FlashType'
  <2>1. left' \in Nat /\ page' \in Nat /\ flash' = flash
    BY <1>1, <1>2 DEF LoadFast
  <2> QED
    BY <1>1, <2>1 DEF FlashInv, FlashType
<1>4. Begun'
  BY <1>1, <1>2 DEF Begun
<1>5. Held'
  <2>1. f # NoApp
    BY AppIs
  <2> QED
    BY <1>1, <2>1 DEF Held, Writing
<1>6. Progress'
  <2>1. Len(source') = (page' + left') * PageLongs
    BY <1>1, <1>2
  <2>2. \A i \in DOMAIN flash' : ~(PageOf(i) < page')
    <3>1. \A i \in DOMAIN flash' : i \in Nat \ {0}
      <4>1. PICK n : n = FlashPages * PageLongs
        OBVIOUS
      <4> QED
        BY <1>3, <4>1 DEF FlashType
    <3>2. \A i \in DOMAIN flash' : PageOf(i) \in Nat
      BY <3>1, PageIs
    <3> QED
      BY <1>1, <3>2
  <2>3. page' % block' = 0
    <3>1. PICK b \in Nat \ {0} : b = SmallPages
      BY FlashAssumption
    <3>2. 0 % b = 0
      OBVIOUS
    <3> QED
      BY <1>1, <3>1, <3>2
  <2> QED
    BY <1>1, <1>2, <2>1, <2>2, <2>3 DEF Progress, Writing
<1>7. Done' /\ BootsIt'
  BY <1>1 DEF Done, BootsIt
<1> QED
  BY <1>3, <1>4, <1>5, <1>6, <1>7 DEF FlashInv

(* The programmer goes on only with what came through undamaged.           *)
LEMMA CheckKeeps ==
  ASSUME FlashInv, Check
  PROVE  FlashInv'
<1>1. FlashType' /\ Begun' /\ Progress' /\ Done'
  BY KeepsFlash DEF Check, Checked, Writing
<1>2. Held'
  <2>1. PICK wrong \in 0..1 : hub = Sent(sent, wrong) /\ sent \in Apps("single")
    BY DEF FlashInv, Held, Check
  <2>2. SumOf(hub) = wrong
    BY <2>1, SentIs
  <2>3. chip' = "settings" => sent' \in Apps("single") /\ hub' = Sent(sent', 0)
    BY <2>1, <2>2 DEF Check, Checked
  <2> QED
    BY <2>3 DEF FlashInv, Held, Writing, Check, Checked
<1>3. BootsIt'
  BY DEF Check, Checked, BootsIt
<1> QED
  BY <1>1, <1>2, <1>3 DEF FlashInv

(* The programmer has what the host sent in front of it: the file it       *)
(* begins to program is that file.                                         *)
LEMMA SettingsKeeps ==
  ASSUME FlashInv, Settings
  PROVE  FlashInv'
<1>1. PICK f \in Apps("single") : f = sent /\ hub = Sent(f, 0)
  BY DEF FlashInv, Held, Settings
<1>2. Downloaded = Longs(f.bytes) /\ SettingsOf(hub) \in Seq(Int)
      /\ SubSeq(SettingsOf(hub), Len(Programmer) + AppStart + 1, Len(SettingsOf(hub))) = Longs(f.bytes)
  BY <1>1, SettingsIs
<1>3. last' = f
  BY <1>1 DEF Settings
<1>4. chip' = "block" /\ page' = 0 /\ block' = BigPages /\ whole' = FALSE
     /\ method' = method /\ method = "single"
  BY DEF Settings, FlashInv, Held
<1>5. Programs("single", f, source') /\ left' \in Nat \ {0} /\ Len(source') = left' * PageLongs
  BY <1>1, SettingsProgram DEF Settings
<1>7. FlashType'
  <2>1. left' \in Nat /\ page' \in Nat /\ flash' = flash
    BY <1>4, <1>5 DEF Settings
  <2> QED
    BY <1>4, <2>1 DEF FlashInv, FlashType
<1>8. Begun'
  BY <1>3, <1>4, <1>5 DEF Begun
<1>9. Held'
  <2>1. f # NoApp
    BY AppIs
  <2>2. Downloaded' = Longs(f.bytes)
    BY <1>2, <1>3 DEF Settings, Downloaded
  <2> QED
    BY <1>3, <1>4, <2>1, <2>2 DEF Held, Writing
<1>10. Progress'
  <2>1. Len(source') = (page' + left') * PageLongs
    BY <1>4, <1>5
  <2>2. \A i \in DOMAIN flash' : ~(PageOf(i) < page')
    <3>1. \A i \in DOMAIN flash' : i \in Nat \ {0}
      <4>1. PICK n : n = FlashPages * PageLongs
        OBVIOUS
      <4> QED
        BY <1>7, <4>1 DEF FlashType
    <3>2. \A i \in DOMAIN flash' : PageOf(i) \in Nat
      BY <3>1, PageIs
    <3> QED
      BY <1>4, <3>2
  <2>3. page' % block' = 0
    <3>1. PICK b \in Nat \ {0} : b = BigPages
      BY FlashAssumption
    <3>2. 0 % b = 0
      OBVIOUS
    <3> QED
      BY <1>4, <3>1, <3>2
  <2> QED
    BY <1>4, <1>5, <2>1, <2>2, <2>3 DEF Progress, Writing
<1>11. Done' /\ BootsIt'
  BY <1>4 DEF Done, BootsIt
<1> QED
  BY <1>7, <1>8, <1>9, <1>10, <1>11 DEF FlashInv

(* A change to small blocks is at the start of one of them.                *)
LEMMA BlockKeeps ==
  ASSUME FlashInv, Block
  PROVE  FlashInv'
<1>1. PICK s \in Nat \ {0}, b \in Nat \ {0} : s = SmallPages /\ b = BigPages /\ b % s = 0
  BY FlashAssumption
<1>2. page \in Nat /\ page % block = 0 /\ block \in {s, b} /\ chip = "block"
  BY <1>1 DEF FlashInv, FlashType, Progress, Writing, Block
<1>3. block' \in {s, b} /\ page % block' = 0
  <2>1. block' = s \/ block' = block
    BY <1>1 DEF Block, BlockSize
  <2>2. page % s = 0
    <3>1. CASE block = s
      BY <1>2, <3>1
    <3>2. CASE block = b
      BY <1>1, <1>2, <3>2, Multiples
    <3> QED
      BY <1>2, <3>1, <3>2
  <2> QED
    BY <1>2, <2>1, <2>2
<1>4. FlashType' /\ Begun' /\ Done'
  BY <1>1, <1>3 DEF FlashInv, FlashType, Begun, Done, Block
<1>5. Held'
  BY DEF FlashInv, Held, Writing, Block, Downloaded
<1>6. Progress'
  BY <1>3 DEF FlashInv, Progress, Writing, Block
<1>7. BootsIt'
  BY DEF Block, BootsIt
<1> QED
  BY <1>4, <1>5, <1>6, <1>7 DEF FlashInv

(* The block around the page is that of the pages before it only when it   *)
(* does not begin with the page.                                           *)
LEMMA EraseDoneKeeps ==
  ASSUME FlashInv, EraseDone
  PROVE  FlashInv'
<1>1. PICK p \in Nat \ {0}, b \in Nat \ {0}, n \in Nat :
        p = PageLongs /\ b = block /\ flash \in [1..n -> Int] /\ n = FlashPages * PageLongs
  <2>1. PICK p \in Nat \ {0}, k \in Nat, b \in Nat \ {0} : p = PageLongs /\ k = FlashPages /\ b = block
    BY FlashAssumption DEF FlashInv, FlashType
  <2>2. PICK n \in Nat : n = k * p
    OBVIOUS
  <2> QED
    BY <2>1, <2>2 DEF FlashInv, FlashType
<1>2. page \in Nat /\ page % b = 0 /\ Erased \in Int /\ chip = "erasing"
  BY <1>1, FlashAssumption DEF FlashInv, FlashType, Progress, Writing, EraseDone
<1>3. flash' = [i \in 1..n |-> IF InBlock(i) THEN Erased ELSE flash[i]]
  BY <1>1 DEF EraseDone, EraseTo
<1>4. ASSUME NEW i \in 1..n
      PROVE  PageOf(i) \in Nat /\ (InBlock(i) <=> PageOf(i) \div b = page \div b)
  <2>1. PICK x \in Nat : x = i - 1
    OBVIOUS
  <2>2. x \div (b * p) = (x \div p) \div b
    BY NestedDivision
  <2> QED
    BY <1>1, <2>1, <2>2, PageIs DEF InBlock, PageOf
<1>5. \A i \in 1..n : PageOf(i) < page => ~InBlock(i)
  BY <1>2, <1>4, OtherBlock
<1>6. FlashType'
  <2>1. flash' \in [1..n -> Int]
    BY <1>1, <1>2, <1>3
  <2> QED
    BY <1>1, <2>1 DEF FlashInv, FlashType, EraseDone
<1>7. Begun' /\ Done'
  BY <1>2 DEF FlashInv, Begun, Done, Progress, Writing, EraseDone
<1>8. Held'
  BY DEF FlashInv, Held, Writing, EraseDone, Downloaded
<1>9. Progress'
  <2>1. DOMAIN flash = 1..n /\ DOMAIN flash' = 1..n
    BY <1>1, <1>3
  <2>2. \A i \in 1..n : PageOf(i) < page => flash'[i] = source[i]
    BY <1>2, <1>3, <1>5, <2>1 DEF FlashInv, Progress, Writing
  <2>3. \A i \in 1..n : PageOf(i) \div b = page \div b => flash'[i] = Erased
    BY <1>3, <1>4
  <2> QED
    BY <1>1, <1>2, <2>1, <2>2, <2>3 DEF FlashInv, Progress, Writing, EraseDone
<1>10. BootsIt'
  BY DEF EraseDone, BootsIt
<1> QED
  BY <1>6, <1>7, <1>8, <1>9, <1>10 DEF FlashInv

(* The next page is programmed.                                            *)
LEMMA PageKeeps ==
  ASSUME FlashInv, Page
  PROVE  FlashInv'
<1>1. FlashType' /\ Begun' /\ Done' /\ BootsIt'
  BY DEF FlashInv, FlashType, Begun, Done, BootsIt, Page
<1>2. Held'
  BY DEF FlashInv, Held, Writing, Page, Downloaded
<1>3. Progress'
  BY DEF FlashInv, Progress, Writing, Page
<1> QED
  BY <1>1, <1>2, <1>3 DEF FlashInv

(* An erased page takes what is programmed; the others stay as they are.   *)
LEMMA PageDoneKeeps ==
  ASSUME FlashInv, PageDone
  PROVE  FlashInv'
<1>1. PICK p \in Nat \ {0}, b \in Nat \ {0}, n \in Nat :
        p = PageLongs /\ b = block /\ flash \in [1..n -> Int] /\ n = FlashPages * PageLongs
  <2>1. PICK p \in Nat \ {0}, k \in Nat, b \in Nat \ {0} : p = PageLongs /\ k = FlashPages /\ b = block
    BY FlashAssumption DEF FlashInv, FlashType
  <2>2. PICK n \in Nat : n = k * p
    OBVIOUS
  <2> QED
    BY <2>1, <2>2 DEF FlashInv, FlashType
<1>2. PICK m \in Nat, l \in Nat : m = page /\ l = left /\ l >= 1
  BY DEF FlashInv, FlashType, Progress, Writing, PageDone
<1>3. /\ chip = "programming" /\ whole = FALSE /\ Len(source) = (m + l) * p
      /\ last # NoApp /\ last \in Apps(method) /\ Programs(method, last, source)
      /\ \A i \in 1..n : PageOf(i) < m => flash[i] = source[i]
      /\ \A i \in 1..n : PageOf(i) >= m /\ PageOf(i) \div b = m \div b => flash[i] = Erased
  <2>1. DOMAIN flash = 1..n
    BY <1>1
  <2>2. chip = "programming" /\ last # NoApp /\ ~whole /\ whole \in BOOLEAN
    BY DEF FlashInv, FlashType, Held, Progress, Writing, PageDone
  <2> QED
    BY <1>1, <1>2, <2>1, <2>2 DEF FlashInv, Begun, Progress, Writing
<1>4. \A i \in 1..n : PageOf(i) \in Nat /\ (i <= (m + 1) * p <=> PageOf(i) < m + 1)
  <2>1. m + 1 \in Nat
    OBVIOUS
  <2> QED
    BY <1>1, <2>1, PageIs
<1>5. \A i \in 1..n : InPage(i) <=> PageOf(i) = m
  BY <1>2 DEF InPage, PageOf
<1>6. PICK k \in Nat : k = (m + 1) * p /\ k = page * PageLongs + PageLongs
  BY <1>1, <1>2
<1>7. flash' = [i \in 1..n |-> IF InPage(i) /\ i <= k THEN Programmed(flash[i], source[i]) ELSE flash[i]]
  BY <1>1, <1>6 DEF PageDone, ProgramUpto
<1>8. ASSUME NEW i \in 1..n, PageOf(i) = m PROVE flash'[i] = source[i]
  <2>1. PageOf(i) < m + 1
    BY <1>8
  <2>2. InPage(i) /\ i <= k
    BY <1>4, <1>5, <1>6, <1>8, <2>1
  <2>3. PageOf(i) >= m /\ PageOf(i) \div b = m \div b
    BY <1>8
  <2>4. flash[i] = Erased
    BY <1>3, <2>3
  <2> QED
    BY <1>7, <2>2, <2>4 DEF Programmed
<1>9. \A i \in 1..n : PageOf(i) # m => flash'[i] = flash[i]
  BY <1>5, <1>7
<1>10. \A i \in 1..n : PageOf(i) < m + 1 => flash'[i] = source[i]
  <2>1. \A i \in 1..n : PageOf(i) < m + 1 => PageOf(i) = m \/ (PageOf(i) < m /\ PageOf(i) # m)
    BY <1>4
  <2> QED
    BY <1>3, <1>8, <1>9, <2>1
(* How long the source is, and that it fits.                               *)
<1>11. PICK e \in Nat : e = Len(source) /\ e <= n
  <2>1. PICK e \in Nat : e = Len(source)
    BY <1>3 DEF Programs
  <2>7. PICK F \in Nat : F = FlashPages
    BY FlashAssumption
  <2>2. PICK q \in 1..F : e = q * p
    BY <1>1, <1>3, <2>1, <2>7 DEF Programs
  <2>3. PICK d \in Nat : F = q + d
    <3>1. F - q \in Nat /\ F = q + (F - q)
      OBVIOUS
    <3> QED
      BY <3>1
  <2>4. PICK dp \in Nat : dp = d * p
    OBVIOUS
  <2>5. (q + d) * p = q * p + dp
    BY <2>4
  <2>6. n = e + dp
    BY <1>1, <2>2, <2>3, <2>5, <2>7
  <2> QED
    BY <2>1, <2>6
<1>12. \A i \in 1..n : source[i] \in Int \/ i > e
  BY <1>3, <1>11 DEF Programs
<1>13. flash' \in [1..n -> Int]
  <2>1. \A i \in 1..n : PageOf(i) = m => i <= e
    <3>1. PICK z \in Nat : z = (m + l) * p
      OBVIOUS
    <3>2. m + l \in Nat
      OBVIOUS
    <3>3. \A i \in 1..n : PageOf(i) < m + l => i <= (m + l) * p
      BY <1>1, <3>2, PageIs
    <3>4. \A i \in 1..n : PageOf(i) = m => PageOf(i) < m + l
      BY <1>2
    <3> QED
      BY <1>3, <1>11, <3>3, <3>4
  <2>2. \A i \in 1..n : flash'[i] \in Int
    <3>1. \A i \in 1..n : PageOf(i) = m => flash'[i] = source[i] /\ source[i] \in Int
      BY <1>8, <1>11, <1>12, <2>1
    <3> QED
      BY <1>1, <1>9, <3>1
  <2>3. DOMAIN flash' = 1..n
    BY <1>7
  <2> QED
    BY <1>7, <2>2, <2>3
<1>14. left' = l - 1 /\ left' \in Nat
  BY <1>2 DEF PageDone
<1>15. UNCHANGED <<method, hub, source, block, last>>
  BY DEF PageDone
<1>16. Begun'
  BY <1>3, <1>15 DEF Begun
<1>17. CASE l = 1
  <2>1. chip' = "move" /\ whole' = TRUE /\ page' = page
    BY <1>2, <1>17 DEF PageDone
  <2>2. FlashType'
    BY <1>1, <1>13, <1>14, <1>15, <2>1 DEF FlashInv, FlashType
  <2>3. Held'
    BY <1>3, <1>15, <2>1 DEF FlashInv, Held, Writing, Downloaded
  <2>4. \A i \in 1..e : i \in 1..n /\ PageOf(i) < m + 1
    BY <1>3, <1>4, <1>11, <1>17
  <2>5. Done'
    BY <1>3, <1>10, <1>11, <1>15, <2>4 DEF Done
  <2>6. Progress' /\ BootsIt'
    BY <2>1 DEF Progress, Writing, BootsIt
  <2> QED
    BY <1>16, <2>2, <2>3, <2>5, <2>6 DEF FlashInv
<1>18. CASE l # 1
  <2>1. page' = m + 1 /\ chip' = (IF page' % block = 0 THEN "block" ELSE "page") /\ whole' = whole
    BY <1>2, <1>18 DEF PageDone, AtBlock
  <2>2. FlashType'
    <3>1. page' \in Nat
      BY <2>1
    <3> QED
      BY <1>1, <1>13, <1>14, <1>15, <2>1, <3>1 DEF FlashInv, FlashType
  <2>3. Held'
    BY <1>3, <1>15, <2>1 DEF FlashInv, Held, Writing, Downloaded
  <2>4. DOMAIN flash' = 1..n /\ left' >= 1
    BY <1>2, <1>13, <1>14, <1>18
  <2>5. Len(source') = (page' + left') * PageLongs
    <3>1. page' + left' = m + l
      BY <1>14, <2>1
    <3> QED
      BY <1>1, <1>3, <1>15, <3>1
  <2>6. \A i \in DOMAIN flash' : PageOf(i) < page' => flash'[i] = source'[i]
    BY <1>10, <1>15, <2>1, <2>4
  <2>7. ASSUME chip' = "page"
        PROVE  \A i \in DOMAIN flash' :
                 PageOf(i) >= page' /\ PageOf(i) \div block' = page' \div block' => flash'[i] = Erased
    <3>1. (m + 1) % b # 0
      BY <1>1, <2>1, <2>7
    <3>2. (m + 1) \div b = m \div b
      BY <3>1, SameBlock
    <3>3. \A i \in 1..n : PageOf(i) >= m + 1 => PageOf(i) >= m /\ PageOf(i) # m
      BY <1>4
    <3>4. \A i \in 1..n : PageOf(i) >= m + 1 /\ PageOf(i) \div b = (m + 1) \div b => flash'[i] = Erased
      BY <1>3, <1>9, <3>2, <3>3
    <3> QED
      BY <1>1, <1>15, <2>1, <2>4, <3>4
  <2>8. Progress'
    <3>1. chip' = "block" => page' % block' = 0
      BY <1>15, <2>1
    <3>2. chip' \in {"block", "page"} /\ whole' = FALSE
      BY <1>3, <2>1
    <3> QED
      BY <2>4, <2>5, <2>6, <2>7, <3>1, <3>2 DEF Progress
  <2>9. Done' /\ BootsIt'
    BY <1>3, <2>1 DEF Done, BootsIt
  <2> QED
    BY <1>16, <2>2, <2>3, <2>8, <2>9 DEF FlashInv
<1> QED
  BY <1>17, <1>18

(* A flash that was programmed whole boots.                                *)
LEMMA WholeBoots ==
  ASSUME FlashInv, whole
  PROVE  /\ SumOf(FlashLoader) = Prop
         /\ method = "single" => /\ IsLoader(last, flash)
                                 /\ SubSeq(flash, AppStart + 1, AppStart + flash[1]) = Longs(last.bytes)
                                 /\ FromFlash(AppStart, flash[1]) = Longs(last.bytes)
         /\ method = "fast" => /\ IsPrefix(Longs(last.bytes), FromFlash(LoaderLongs, flash[3]))
                               /\ Len(FromFlash(LoaderLongs, flash[3])) <= Len(last.bytes)
<1>1. FlashType /\ last \in Apps(method) /\ Programs(method, last, source)
     /\ \A i \in 1..Len(source) : flash[i] = source[i]
  BY DEF FlashInv, Begun, Done
<1> QED
  BY <1>1, Booted

(* The sum the loader's settings promise is that of the application.       *)
LEMMA Verifies ==
  ASSUME FlashInv, whole, chip = "verify"
  PROVE  Verified(hub)
<1>1. method = "single" /\ hub = Longs(last.bytes) /\ IsLoader(last, flash) /\ last \in Apps(method)
  BY WholeBoots DEF FlashInv, Held, BootsIt, Begun, Done
<1>2. PICK A \in Seq(Int), n \in Nat \ {0} : A = Longs(last.bytes) /\ n = Len(A)
  BY <1>1, AppIs
<1>3. SubSeq(A, 1, n) = A
  <2>1. n <= Len(A) /\ n \in Nat /\ 1 \in Nat \ {0} /\ 1 <= n + 1
    BY <1>2
  <2>2. /\ SubSeq(A, 1, n) \in Seq(Int) /\ Len(SubSeq(A, 1, n)) = n - 1 + 1
        /\ \A i \in 1..n - 1 + 1 : SubSeq(A, 1, n)[i] = A[1 + i - 1]
    BY <2>1, PartType
  <2>3. n - 1 + 1 = n /\ \A i \in 1..n : 1 + i - 1 = i
    OBVIOUS
  <2>4. Len(SubSeq(A, 1, n)) = n /\ \A i \in 1..n : SubSeq(A, 1, n)[i] = A[i]
    BY <2>2, <2>3
  <2> QED
    BY <1>2, <2>2, <2>4, SeqEqual
<1>4. PICK y \in Int : y = SumOf(A)
  BY SumOfType
<1>5. flash[2] = n /\ flash[3] = -y
  BY <1>1, <1>2, <1>4 DEF IsLoader
<1>6. SumOf(SubSeq(hub, 1, flash[2])) = y
  BY <1>1, <1>2, <1>3, <1>4, <1>5
<1>7. flash[3] + y = 0
  BY <1>5
<1> QED
  BY <1>6, <1>7 DEF Verified

(* What is started after programming is the application in hub memory.     *)
LEMMA MoveKeeps ==
  ASSUME FlashInv, Move
  PROVE  FlashInv'
<1>1. FlashType' /\ Begun' /\ Progress' /\ Done'
  BY KeepsFlash DEF Move, Writing
<1>2. Held'
  BY DEF Move, Held, Writing
<1>3. FlashType /\ last \in Apps(method) /\ app' = Longs(last.bytes)
  BY DEF FlashInv, FlashType, Held, Begun, Move
<1>4. chip' = "running" /\ last' = last /\ method' = method
  BY DEF Move
<1>5. BootsIt'
  BY <1>3, <1>4, LastIs DEF BootsIt
<1> QED
  BY <1>1, <1>2, <1>5 DEF FlashInv

(* The ROM does not touch the flash.                                       *)
LEMMA PowerOnKeeps ==
  ASSUME FlashInv, PowerOn
  PROVE  FlashInv'
<1>1. FlashType' /\ Begun' /\ Progress' /\ Done'
  BY KeepsFlash DEF PowerOn, Writing
<1>2. Held' /\ BootsIt'
  BY DEF PowerOn, Held, BootsIt, Writing
<1> QED
  BY <1>1, <1>2 DEF FlashInv

(* The loader runs the application that came with it, or reads the rest.   *)
LEMMA LoaderStartKeeps ==
  ASSUME FlashInv, LoaderStart
  PROVE  FlashInv'
<1>1. FlashType' /\ Begun' /\ Progress' /\ Done'
  BY KeepsFlash DEF LoaderStart, Run, Writing
<1>2. Held'
  BY DEF LoaderStart, Run, Held, Writing
<1>3. BootsIt'
  <2>1. chip' # "verify" /\ whole' = whole /\ last' = last /\ method' = "single"
    BY DEF LoaderStart, Run
  <2>2. ASSUME whole, chip' = "running" PROVE app' = Longs(last.bytes)
    BY <2>2, WholeBoots DEF LoaderStart, Run
  <2>3. ASSUME whole PROVE IsPrefix(Longs(last.bytes), Longs(last.bytes))
    <3>1. FlashType /\ last \in Apps(method)
      BY <2>3 DEF FlashInv, Begun, Done
    <3> QED
      BY <3>1, LastIs
  <2> QED
    BY <2>1, <2>2, <2>3 DEF BootsIt
<1> QED
  BY <1>1, <1>2, <1>3 DEF FlashInv

(* It reads the application.                                               *)
LEMMA LoaderReadKeeps ==
  ASSUME FlashInv, LoaderRead
  PROVE  FlashInv'
<1>1. FlashType' /\ Begun' /\ Progress' /\ Done'
  BY KeepsFlash DEF LoaderRead, Writing
<1>2. Held'
  BY DEF LoaderRead, FlashInv, Held, Writing
<1>3. BootsIt'
  BY WholeBoots DEF LoaderRead, FlashInv, Held, BootsIt
<1> QED
  BY <1>1, <1>2, <1>3 DEF FlashInv

(* And runs what it has read.                                              *)
LEMMA LoaderVerifyKeeps ==
  ASSUME FlashInv, LoaderVerify
  PROVE  FlashInv'
<1>1. FlashType' /\ Begun' /\ Progress' /\ Done'
  BY KeepsFlash DEF LoaderVerify, Run, Writing
<1>2. Held'
  BY DEF LoaderVerify, Run, Held, Writing
<1>3. BootsIt'
  <2>1. chip' # "verify" /\ whole' = whole /\ last' = last /\ method' = "single"
    BY DEF LoaderVerify, Run, FlashInv, Held
  <2>2. ASSUME whole, chip' = "running" PROVE app' = Longs(last.bytes)
    BY <2>2 DEF LoaderVerify, Run, FlashInv, BootsIt
  <2>3. ASSUME whole PROVE IsPrefix(Longs(last.bytes), Longs(last.bytes))
    <3>1. FlashType /\ last \in Apps(method)
      BY <2>3 DEF FlashInv, Begun, Done
    <3> QED
      BY <3>1, LastIs
  <2> QED
    BY <2>1, <2>2, <2>3 DEF BootsIt
<1> QED
  BY <1>1, <1>2, <1>3 DEF FlashInv

(* The stub reads and runs, which is the application and what follows it.  *)
LEMMA StubStartKeeps ==
  ASSUME FlashInv, StubStart
  PROVE  FlashInv'
<1>1. FlashType' /\ Begun' /\ Progress' /\ Done'
  BY KeepsFlash DEF StubStart, Run, Writing
<1>2. Held'
  BY DEF StubStart, Run, Held, Writing
<1>3. BootsIt'
  BY WholeBoots DEF StubStart, Run, BootsIt
<1> QED
  BY <1>1, <1>2, <1>3 DEF FlashInv

(* A power cut spoils only what is being written, and that is not whole.   *)
LEMMA PowerCutKeeps ==
  ASSUME FlashInv, PowerCut
  PROVE  FlashInv'
<1>1. /\ chip' = "off" /\ UNCHANGED <<method, source, page, left, block, last, whole>>
  BY DEF PowerCut
<1>2. Held' /\ BootsIt' /\ Progress' /\ Begun'
  BY <1>1 DEF FlashInv, Held, BootsIt, Progress, Begun, Writing
<1>3. CASE chip \notin {"erasing", "programming"}
  <2>1. UNCHANGED flash
    BY <1>3 DEF PowerCut
  <2> QED
    BY <1>1, <1>2, <2>1 DEF FlashInv, FlashType, Done
<1>4. CASE chip = "erasing"
  <2>1. PICK n : n = FlashPages * PageLongs
    OBVIOUS
  <2>2. flash \in [1..n -> Int]
    BY <2>1 DEF FlashInv, FlashType
  <2>3. EraseTo(Erased) \/ EraseTo(Garbage) \/ UNCHANGED flash
    BY <1>4 DEF PowerCut
  <2>4. flash' \in [1..n -> Int]
    BY <2>2, <2>3, FlashAssumption DEF EraseTo
  <2>5. ~whole
    BY <1>4 DEF FlashInv, Progress, Writing
  <2> QED
    BY <1>1, <1>2, <2>1, <2>4, <2>5 DEF FlashInv, FlashType, Done
<1>5. CASE chip = "programming"
  <2>1. PICK p \in Nat \ {0}, F \in Nat, n \in Nat : p = PageLongs /\ F = FlashPages /\ n = F * p
    <3>1. PICK p \in Nat \ {0}, F \in Nat : p = PageLongs /\ F = FlashPages
      BY FlashAssumption
    <3>2. F * p \in Nat
      OBVIOUS
    <3> QED
      BY <3>1, <3>2
  <2>2. flash \in [1..n -> Int]
    BY <2>1 DEF FlashInv, FlashType
  <2>3. PICK k \in 0..PageLongs : ProgramUpto(k)
    BY <1>5 DEF PowerCut
  <2>4. PICK m \in Nat, l \in Nat : m = page /\ l = left /\ l >= 1 /\ ~whole /\ Len(source) = (m + l) * p
    BY <1>5, <2>1 DEF FlashInv, FlashType, Progress, Writing
  <2>5. source \in Seq(Int)
    BY <1>5 DEF FlashInv, Held, Begun, Programs, Writing
  <2>6. ASSUME NEW i \in 1..n, InPage(i) PROVE source[i] \in Int
    <3>1. PageOf(i) = m
      BY <2>4, <2>6 DEF InPage, PageOf
    <3>2. PICK z \in Nat : z = (m + l) * p
      OBVIOUS
    <3>3. m + l \in Nat /\ PageOf(i) < m + l
      BY <2>4, <3>1
    <3>4. i <= z
      BY <2>1, <3>2, <3>3, PageIs
    <3>5. i \in 1..Len(source)
      BY <2>4, <3>2, <3>4
    <3> QED
      BY <2>5, <3>5
  <2>7. flash' \in [1..n -> Int]
    <3>1. flash' = [i \in 1..n |-> IF InPage(i) /\ i <= page * PageLongs + k
                                   THEN Programmed(flash[i], source[i]) ELSE flash[i]]
      BY <2>2, <2>3 DEF ProgramUpto
    <3>2. \A i \in 1..n : InPage(i) => Programmed(flash[i], source[i]) \in Int
      BY <2>6, FlashAssumption DEF Programmed
    <3> QED
      BY <2>2, <3>1, <3>2, Zenon
  <2> QED
    BY <1>1, <1>2, <2>1, <2>4, <2>7 DEF FlashInv, FlashType, Done
<1> QED
  BY <1>3, <1>4, <1>5

(* Every step keeps the invariant.                                         *)
LEMMA FlashNext ==
  ASSUME FlashInv, [Next]_vars
  PROVE  FlashInv'
<1>1. ASSUME Load PROVE FlashInv'
  <2>1. PICK f \in Apps(method) : sent' = f /\ (LoadSingle(f) \/ LoadFast(f))
    BY <1>1 DEF Load
  <2>2. UNCHANGED method
    BY <1>1 DEF Load
  <2> QED
    BY <2>1, <2>2, LoadSingleKeeps, LoadFastKeeps DEF LoadSingle, LoadFast
<1>2. ASSUME UNCHANGED vars PROVE FlashInv'
  BY <1>2 DEF vars, FlashInv, FlashType, Begun, Held, Progress, Done, BootsIt, Writing, Downloaded
<1> QED
  BY <1>1, <1>2, CheckKeeps, SettingsKeeps, BlockKeeps, EraseDoneKeeps, PageKeeps, PageDoneKeeps, MoveKeeps,
     PowerOnKeeps, LoaderStartKeeps, LoaderReadKeeps, LoaderVerifyKeeps, StubStartKeeps, PowerCutKeeps
  DEF Next, ChipStep

(* Holds in every state.                                                   *)
THEOREM FlashInvariant == Spec => []FlashInv
<1>1. Init => FlashInv
  BY FlashInit
<1>2. FlashInv /\ [Next]_vars => FlashInv'
  BY FlashNext
<1> QED
  BY <1>1, <1>2, PTL DEF Spec

(* What is flashed is what is in the file, an ELF file with every section  *)
(* at its place; once flashed without interruption it is what runs and     *)
(* what every later power-on boots, but behind the fast way's stub with as *)
(* many longs of what follows it as make the number of its bytes (loadfile,*)
(* loadElfSections, readElfFileToMem, flash_loader.spin2, flash_stub.spin2)*)
THEOREM FlashBoots == Spec => []BootsWhatWasFlashed
<1>1. FlashInv => BootsWhatWasFlashed
  <2>1. ASSUME FlashInv PROVE last # NoApp => AsInFile(method, last)
    BY <2>1, LastIs DEF FlashInv, Begun
  <2> QED
    BY <2>1 DEF FlashInv, BootsIt, BootsWhatWasFlashed
<1> QED
  BY <1>1, FlashInvariant, PTL

(* No power-on after that ends in the ROM's loader or with the chip        *)
(* stopped: the safety half of AlwaysBoots.                                *)
THEOREM FlashStaysBootable == Spec => [][StaysBootable]_vars
<1>1. ASSUME FlashInv, [Next]_vars PROVE [StaysBootable]_vars
  <2>1. SUFFICES ASSUME whole, chip \in {"off", "start", "read", "verify"}, Next
                 PROVE  chip' \notin {"rom", "stopped"}
    BY <1>1 DEF StaysBootable
  <2>2. CASE chip = "off"
    <3>1. PowerOn
      BY <2>1, <2>2 DEF Next, Load, ChipStep, Check, Settings, Block, EraseDone, Page, PageDone, Move,
                        LoaderStart, LoaderRead, LoaderVerify, StubStart, PowerCut
    <3> QED
      BY <1>1, <2>1, <3>1, WholeBoots DEF PowerOn
  <2>3. CASE chip \in {"start", "read"}
    <3>1. LoaderStart \/ LoaderRead \/ StubStart \/ PowerCut
      BY <2>1, <2>3 DEF Next, Load, ChipStep, Check, Settings, Block, EraseDone, Page, PageDone, Move,
                        PowerOn, LoaderVerify
    <3> QED
      BY <3>1 DEF LoaderStart, LoaderRead, StubStart, PowerCut, Run
  <2>4. CASE chip = "verify"
    <3>1. LoaderVerify \/ PowerCut
      BY <2>1, <2>4 DEF Next, Load, ChipStep, Check, Settings, Block, EraseDone, Page, PageDone, Move,
                        PowerOn, LoaderStart, LoaderRead, StubStart
    <3>2. Verified(hub)
      BY <1>1, <2>1, <2>4, Verifies
    <3> QED
      BY <3>1, <3>2 DEF LoaderVerify, PowerCut, Run
  <2> QED
    BY <2>1, <2>2, <2>3, <2>4
<1> QED
  BY <1>1, FlashInvariant, PTL DEF Spec
=============================================================================
