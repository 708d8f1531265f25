----------------------------- MODULE FoldLemmas -----------------------------
(***************************************************************************)
(* Induction over finite sets and numbers, and what the folds of the       *)
(* community modules compute.                                              *)
(***************************************************************************)
EXTENDS Integers, Sequences, FiniteSetsExt, FiniteSetTheorems, WellFoundedInduction, TLAPS

-----------------------------------------------------------------------------
(* Folds: what they compute is of the type that every step keeps.  The     *)
(* induction is over the least counterexample.                             *)

(* Of the numbers in a set one is the least.                               *)
LEMMA Least ==
  ASSUME NEW T \in SUBSET Nat, T # {}
  PROVE  \E m \in T : \A n \in T : m <= n
<1> DEFINE R == {ss \in Nat \X Nat : ss[1] < ss[2]}
<1>1. IsWellFoundedOn(R, Nat)
  BY NatLessThanWellFounded DEF OpToRel
<1> HIDE DEF R
<1>2. PICK m \in T : \A n \in T : ~ (<<n, m>> \in R)
  BY <1>1, WFMin
<1>3. \A n \in T : ~(n < m)
  BY <1>2 DEF R
<1> QED
  BY <1>3

(* A choice of one element of every part of a set: what a fold takes next. *)
Chooses(c, S) == \A s \in SUBSET S : s # {} => c[s] \in s

(* What is so of the empty set, and of a set when it is of what is left    *)
(* without the element chosen, is so of every finite set.                  *)
LEMMA FoldInduction ==
  ASSUME NEW S, IsFiniteSet(S), NEW c, Chooses(c, S),
         NEW P, {} \in P, \A s \in SUBSET S : s # {} /\ s \ {c[s]} \in P => s \in P
  PROVE  \A s \in SUBSET S : s \in P
<1> DEFINE T == {n \in Nat : \E s \in SUBSET S : s \notin P /\ Cardinality(s) = n}
<1> SUFFICES ASSUME NEW q \in SUBSET S, q \notin P PROVE FALSE
  OBVIOUS
<1>1. \A s \in SUBSET S : IsFiniteSet(s) /\ Cardinality(s) \in Nat
  BY FS_Subset, FS_CardinalityType
<1>2. Cardinality(q) \in T
  BY <1>1
<1>3. PICK m \in T : \A n \in T : m <= n
  <2> HIDE DEF T
  <2>1. T \in SUBSET Nat
    BY DEF T
  <2> QED
    BY <1>2, <2>1, Least
<1>4. PICK s \in SUBSET S : s \notin P /\ Cardinality(s) = m
  BY <1>3
<1>5. s # {} /\ s \ {c[s]} \notin P /\ c[s] \in s
  BY <1>4 DEF Chooses
<1>6. Cardinality(s \ {c[s]}) = m - 1 /\ s \ {c[s]} \in SUBSET S
  BY <1>1, <1>4, <1>5, FS_RemoveElement
<1>7. m - 1 \in T
  BY <1>1, <1>5, <1>6
<1> QED
  BY <1>3, <1>7

(* The function that a fold of h over a finite set defines.                *)
Folds(g, S, base, c, h) ==
  \A s \in SUBSET S : g[s] = IF s = {} THEN base ELSE h[<<c[s], g[s \ {c[s]}]>>]

(* There is one.                                                           *)
LEMMA FoldExists ==
  ASSUME NEW S, IsFiniteSet(S), NEW c, Chooses(c, S),
         NEW X, NEW base \in X, NEW h \in [S \X X -> X]
  PROVE  \E g \in [SUBSET S -> X] : Folds(g, S, base, c, h)
<1> DEFINE Level(k) == {s \in SUBSET S : Cardinality(s) <= k}
           Step(g, s) == IF s = {} THEN base ELSE h[<<c[s], g[s \ {c[s]}]>>]
           Good(k) == \E g \in [Level(k) -> X] : \A s \in Level(k) : g[s] = Step(g, s)
           T == {n \in Nat : ~Good(n)}
<1>1. \A s \in SUBSET S : IsFiniteSet(s) /\ Cardinality(s) \in Nat
  BY FS_Subset, FS_CardinalityType
<1>2. Good(0)
  <2>1. \A s \in Level(0) : s = {}
    BY <1>1, FS_EmptySet
  <2>2. \A s \in Level(0) : [t \in Level(0) |-> base][s] = Step([t \in Level(0) |-> base], s)
    BY <2>1
  <2> QED
    BY <2>2
<1>3. ASSUME NEW k \in Nat, Good(k) PROVE Good(k + 1)
  <2>1. PICK g \in [Level(k) -> X] : \A s \in Level(k) : g[s] = Step(g, s)
    BY <1>3
  <2> DEFINE f == [s \in Level(k + 1) |-> Step(g, s)]
  <2>2. ASSUME NEW s \in Level(k + 1), s # {}
        PROVE  c[s] \in s /\ s \ {c[s]} \in Level(k) /\ s \ {c[s]} \in Level(k + 1)
    <3>1. c[s] \in s
      BY <2>2 DEF Chooses
    <3>2. Cardinality(s \ {c[s]}) = Cardinality(s) - 1 /\ s \ {c[s]} \in SUBSET S
      BY <1>1, <3>1, FS_RemoveElement
    <3> QED
      BY <1>1, <3>1, <3>2
  <2>3. \A s \in Level(k + 1) : f[s] \in X
    <3> SUFFICES ASSUME NEW s \in Level(k + 1), s # {} PROVE h[<<c[s], g[s \ {c[s]}]>>] \in X
      OBVIOUS
    <3>1. c[s] \in S /\ g[s \ {c[s]}] \in X
      BY <2>2
    <3> QED
      BY <3>1
  <2>4. ASSUME NEW s \in Level(k) PROVE s \in Level(k + 1) /\ f[s] = g[s]
    <3>1. s \in Level(k + 1)
      BY <1>1
    <3> HIDE DEF Level, Step
    <3>2. f[s] = Step(g, s)
      BY <3>1
    <3> QED
      BY <2>1, <3>1, <3>2
  <2>5. \A s \in Level(k + 1) : f[s] = Step(f, s)
    BY <2>2, <2>4
  <2> QED
    BY <2>3, <2>5
<1>4. \A k \in Nat : Good(k)
  <2> HIDE DEF Good
  <2> SUFFICES ASSUME T # {} PROVE FALSE
    OBVIOUS
  <2>1. PICK m \in T : \A n \in T : m <= n
    <3>1. T \in SUBSET Nat
      OBVIOUS
    <3> HIDE DEF T
    <3> QED
      BY <3>1, Least
  <2>2. m # 0 /\ m - 1 \in Nat
    BY <1>2
  <2>3. Good(m - 1)
    BY <2>1, <2>2
  <2> QED
    BY <1>3, <2>1, <2>2, <2>3
<1>5. Level(Cardinality(S)) = SUBSET S /\ Cardinality(S) \in Nat
  BY <1>1, FS_Subset
<1>6. PICK g \in [SUBSET S -> X] : \A s \in SUBSET S : g[s] = Step(g, s)
  <2>1. Good(Cardinality(S))
    BY <1>4, <1>5
  <2> HIDE DEF Level, Step
  <2> QED
    BY <1>5, <2>1
<1> QED
  BY <1>6 DEF Folds

(* A fold that is of type X at first, and that h keeps in X, step by step. *)
FoldsIn(it, S, X, base, c, h) ==
  /\ IsFiniteSet(S) /\ Chooses(c, S) /\ base \in X /\ h \in [S \X X -> X]
  /\ it[{}] = base
  /\ \A s \in SUBSET S : s # {} /\ it[s \ {c[s]}] \in X => it[s] = h[<<c[s], it[s \ {c[s]}]>>]

(* And so is the fold of every part.                                       *)
LEMMA FoldTypes ==
  ASSUME NEW S, NEW c, NEW X, NEW base, NEW h, NEW it, FoldsIn(it, S, X, base, c, h)
  PROVE  \A s \in SUBSET S : it[s] \in X
<1> USE DEF FoldsIn
<1> DEFINE P == {s \in SUBSET S : it[s] \in X}
<1>1. {} \in P
  OBVIOUS
<1>2. ASSUME NEW s \in SUBSET S, s # {}, s \ {c[s]} \in P PROVE s \in P
  <2>1. c[s] \in S /\ it[s \ {c[s]}] \in X
    BY <1>2 DEF Chooses
  <2> QED
    BY <1>2, <2>1
<1> HIDE DEF P
<1>3. \A s \in SUBSET S : s \in P
  BY <1>1, <1>2, FoldInduction
<1> QED
  BY <1>3 DEF P

(* And so is the whole.                                                    *)
LEMMA FoldType ==
  ASSUME NEW S, NEW c, NEW X, NEW base, NEW h, NEW it, FoldsIn(it, S, X, base, c, h)
  PROVE  it[S] \in X
BY FoldTypes

(* The elements of a sequence are folded last first.                       *)
LastOf(n) == [s \in SUBSET (1..n) |-> Max(s)]

(* The greatest index of a part is one of its own.                         *)
LEMMA LastIsChosen ==
  ASSUME NEW n \in Nat
  PROVE  Chooses(LastOf(n), 1..n) /\ \A s \in SUBSET (1..n) : LastOf(n)[s] = Max(s)
<1>1. ASSUME NEW s \in SUBSET (1..n), s # {} PROVE Max(s) \in s
  <2> DEFINE T == {n - i : i \in s}
  <2>1. PICK m \in T : \A k \in T : m <= k
    <3>1. T \in SUBSET Nat
      OBVIOUS
    <3>2. T # {}
      BY <1>1
    <3> HIDE DEF T
    <3> QED
      BY <3>1, <3>2, Least
  <2>2. PICK i \in s : m = n - i
    BY <2>1
  <2>3. \A j \in s : i >= j
    BY <2>1, <2>2
  <2> QED
    BY <2>2, <2>3 DEF Max
<1> QED
  BY <1>1 DEF Chooses, LastOf


(* So is the least.                                                        *)
FirstOf(n) == [s \in SUBSET (1..n) |-> Min(s)]

(* And the one who picks the least.                                       *)
LEMMA FirstIsChosen ==
  ASSUME NEW n \in Nat
  PROVE  Chooses(FirstOf(n), 1..n) /\ \A s \in SUBSET (1..n) : FirstOf(n)[s] = Min(s)
<1>1. ASSUME NEW s \in SUBSET (1..n), s # {} PROVE Min(s) \in s
  <2>1. PICK m \in s : \A k \in s : m <= k
    <3>1. s \in SUBSET Nat
      OBVIOUS
    <3> QED
      BY <1>1, <3>1, Least
  <2> QED
    BY <2>1 DEF Min
<1> QED
  BY <1>1 DEF Chooses, FirstOf

(* Induction from 0 up to a number.                                        *)
LEMMA UpTo ==
  ASSUME NEW n \in Nat, NEW P, 0 \in P, \A k \in 0..n - 1 : k \in P => k + 1 \in P
  PROVE  \A k \in 0..n : k \in P
<1> DEFINE T == {k \in 0..n : k \notin P}
<1> SUFFICES ASSUME T # {} PROVE FALSE
  OBVIOUS
<1>1. PICK m \in T : \A k \in T : m <= k
  <2>1. T \in SUBSET Nat
    OBVIOUS
  <2> HIDE DEF T
  <2> QED
    BY <2>1, Least
<1>2. m # 0 /\ m - 1 \in 0..n - 1
  BY <1>1
<1>3. m - 1 \in P
  BY <1>1, <1>2
<1> QED
  BY <1>1, <1>2, <1>3

(* A fold over a sequence, from the first element on, goes from prefix to  *)
(* prefix.                                                                 *)
LEMMA FoldPrefixes ==
  ASSUME NEW n \in Nat, NEW X, NEW base, NEW h, NEW it,
         FoldsIn(it, 1..n, X, base, LastOf(n), h)
  PROVE  \E p \in [0..n -> X] : /\ p[0] = base
                                /\ \A k \in 1..n : p[k] = h[<<k, p[k - 1]>>]
                                /\ p[n] = it[1..n]
<1> DEFINE p == [k \in 0..n |-> it[1..k]]
           P == {k \in 0..n : it[1..k] \in X}
<1>1. base \in X /\ it[{}] = base /\ h \in [(1..n) \X X -> X]
  BY DEF FoldsIn
<1>2. \A s \in SUBSET (1..n) :
        s # {} /\ it[s \ {LastOf(n)[s]}] \in X => it[s] = h[<<LastOf(n)[s], it[s \ {LastOf(n)[s]}]>>]
  BY DEF FoldsIn
<1>3. ASSUME NEW k \in 1..n
      PROVE  LastOf(n)[1..k] = k /\ (1..k) \ {k} = 1..(k - 1) /\ 1..k \in SUBSET (1..n) /\ 1..k # {}
  <2>1. Max(1..k) = k
    <3>1. \A y \in 1..k : k >= y
      OBVIOUS
    <3>2. \A x \in 1..k : (\A y \in 1..k : x >= y) => x = k
      OBVIOUS
    <3> QED
      BY <3>1, <3>2 DEF Max
  <2> QED
    BY <2>1, LastIsChosen
<1>4. ASSUME NEW k \in 1..n, it[1..(k - 1)] \in X
      PROVE  it[1..k] = h[<<k, it[1..(k - 1)]>>]
  <2>1. it[(1..k) \ {LastOf(n)[1..k]}] \in X
    BY <1>3, <1>4
  <2> QED
    BY <1>2, <1>3, <2>1
<1>5. \A k \in 0..n : k \in P
  <2>1. 0 \in P
    <3>1. 1..0 = {}
      OBVIOUS
    <3> QED
      BY <1>1, <3>1
  <2>2. ASSUME NEW k \in 0..n - 1, k \in P PROVE k + 1 \in P
    <3>1. k + 1 \in 1..n /\ it[1..((k + 1) - 1)] \in X
      BY <2>2
    <3>2. it[1..(k + 1)] = h[<<k + 1, it[1..((k + 1) - 1)]>>]
      BY <1>4, <3>1
    <3>3. it[1..(k + 1)] \in X
      BY <1>1, <3>1, <3>2
    <3> QED
      BY <3>1, <3>3
  <2> HIDE DEF P
  <2> QED
    BY <2>1, <2>2, UpTo
<1>6. p \in [0..n -> X]
  BY <1>5
<1>7. p[0] = base
  <2>1. 1..0 = {}
    OBVIOUS
  <2> QED
    BY <1>1, <2>1
<1>8. ASSUME NEW k \in 1..n PROVE p[k] = h[<<k, p[k - 1]>>]
  <2>1. k - 1 \in 0..n /\ it[1..(k - 1)] \in X
    BY <1>5
  <2> QED
    BY <1>4, <2>1
<1>9. p[n] = it[1..n]
  OBVIOUS
<1> HIDE DEF p
<1> QED
  BY <1>6, <1>7, <1>8, <1>9
=============================================================================
