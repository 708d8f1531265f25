---------------------------- MODULE YmodemProofs ----------------------------
(***************************************************************************)
(* Proofs about Ymodem, for every value of its constants: what the sender  *)
(* takes for acknowledged the receiver holds.                              *)
(***************************************************************************)
EXTENDS Ymodem, TLAPS

-----------------------------------------------------------------------------
(* Numbers. *)

(* Division with a remainder.                                              *)
LEMMA Quotient ==
  ASSUME NEW n \in Nat \ {0}, NEW a \in Nat
  PROVE  a % n \in 0..n - 1 /\ a \div n \in Nat /\ a = n * (a \div n) + (a % n)
OBVIOUS

(* A number that is q times n and something less than n has that something *)
(* for its remainder.                                                      *)
LEMMA Remainder ==
  ASSUME NEW n \in Nat \ {0}, NEW q \in Nat, NEW r \in 0..n - 1
  PROVE  (n * q + r) % n = r
<1> DEFINE a == n * q + r
<1> DEFINE k == a \div n
<1>1. a \in Nat
  OBVIOUS
<1>2. a % n \in 0..n - 1 /\ k \in Nat /\ a = n * k + (a % n)
  BY <1>1, Quotient
<1>3. ASSUME q < k PROVE FALSE
  <2>1. n * (k - q) >= n
    BY <1>2, <1>3
  <2>2. n * k = n * q + n * (k - q)
    BY <1>2
  <2> QED
    BY <1>2, <2>1, <2>2
<1>4. ASSUME k < q PROVE FALSE
  <2>1. n * (q - k) >= n
    BY <1>2, <1>4
  <2>2. n * q = n * k + n * (q - k)
    BY <1>2
  <2> QED
    BY <1>2, <2>1, <2>2
<1> QED
  BY <1>2, <1>3, <1>4

(* Block numbers that follow each other differ, and counting one on before *)
(* or after wrapping is the same.                                          *)
LEMMA NextNumber ==
  ASSUME NEW n \in Nat, n > 1, NEW p \in Nat
  PROVE  p % n # (p + 1) % n /\ ((p % n) + 1) % n = (p + 1) % n
<1> DEFINE q == p \div n
           r == p % n
<1>1. r \in 0..n - 1 /\ q \in Nat /\ p = n * q + r
  <2>1. n \in Nat \ {0}
    OBVIOUS
  <2> QED
    BY <2>1, Quotient
<1> HIDE DEF q, r
<1>2. CASE r = n - 1
  <2>1. p + 1 = n * (q + 1) + 0
    BY <1>1, <1>2
  <2>2. (p + 1) % n = 0
    BY <1>1, <2>1, Remainder
  <2>3. r + 1 = n * 1 + 0
    BY <1>2
  <2>4. (r + 1) % n = 0
    BY <2>3, Remainder
  <2> QED
    BY <1>1, <1>2, <2>2, <2>4 DEF r
<1>3. CASE r < n - 1
  <2>1. p + 1 = n * q + (r + 1) /\ r + 1 \in 0..n - 1
    BY <1>1, <1>3
  <2>2. (p + 1) % n = r + 1
    BY <1>1, <2>1, Remainder
  <2>3. r + 1 = n * 0 + (r + 1)
    BY <1>1
  <2>4. (r + 1) % n = r + 1
    BY <2>1, <2>3, Remainder
  <2> QED
    BY <1>1, <2>2, <2>4 DEF r
<1> QED
  BY <1>1, <1>2, <1>3

-----------------------------------------------------------------------------
(* Sequences and blocks. *)

(* Two sequences one behind the other.                                     *)
LEMMA Joined ==
  ASSUME NEW S, NEW b \in Seq(S), NEW c \in Seq(S)
  PROVE  /\ b \o c \in Seq(S) /\ Len(b \o c) = Len(b) + Len(c)
         /\ \A i \in 1..Len(b) : (b \o c)[i] = b[i]
         /\ \A i \in 1..Len(c) : (b \o c)[Len(b) + i] = c[i]
OBVIOUS

(* A part of a sequence.                                                   *)
LEMMA Part ==
  ASSUME NEW S, NEW b \in Seq(S), NEW m \in Nat, NEW n \in Nat, m <= n, n <= Len(b)
  PROVE  /\ SubSeq(b, m + 1, n) \in Seq(S) /\ Len(SubSeq(b, m + 1, n)) = n - m
         /\ \A i \in 1..n - m : SubSeq(b, m + 1, n)[i] = b[m + i]
OBVIOUS

(* An element of two joined sequences is one of the first or one of the    *)
(* second.                                                                 *)
LEMMA More ==
  ASSUME NEW S, NEW b \in Seq(S), NEW c \in Seq(S)
  PROVE  /\ b \o c \in Seq(S)
         /\ \A i \in DOMAIN (b \o c) :
              \/ i \in DOMAIN b /\ (b \o c)[i] = b[i]
              \/ i - Len(b) \in DOMAIN c /\ (b \o c)[i] = c[i - Len(b)] /\ i \in Nat
<1>1. ASSUME NEW i \in DOMAIN (b \o c)
      PROVE  \/ i \in DOMAIN b /\ (b \o c)[i] = b[i]
             \/ i - Len(b) \in DOMAIN c /\ (b \o c)[i] = c[i - Len(b)] /\ i \in Nat
  OBVIOUS
<1> QED
  BY <1>1, Joined
(* Sequences are the same if their elements are.                           *)
LEMMA Same ==
  ASSUME NEW S, NEW b \in Seq(S), NEW c \in Seq(S), NEW n \in Nat, Len(b) = n, Len(c) = n,
         \A i \in 1..n : b[i] = c[i]
  PROVE  b = c
OBVIOUS

(* Padding makes a block as long as it has to be and leaves what it begins *)
(* with.                                                                   *)
LEMMA PaddedBlock ==
  ASSUME NEW T, Pad \in T, NEW s \in Seq(T), NEW b \in Nat, Len(s) <= b
  PROVE  /\ Padded(s, b) \in Seq(T) /\ Len(Padded(s, b)) = b
         /\ \A i \in 1..Len(s) : Padded(s, b)[i] = s[i]
<1> DEFINE p == [i \in 1..b - Len(s) |-> Pad]
<1>1. p \in Seq(T) /\ Len(p) = b - Len(s)
  OBVIOUS
<1> HIDE DEF p
<1>2. s \o p \in Seq(T) /\ Len(s \o p) = Len(s) + Len(p) /\ \A i \in 1..Len(s) : (s \o p)[i] = s[i]
  BY <1>1, Joined
<1>3. Padded(s, b) = s \o p
  BY DEF Padded, p
<1> QED
  BY <1>1, <1>2, <1>3

(* h holds the first n units of f, d begins with the next len and has more *)
(* than those only where f ends.                                           *)
Fills(h, d, f, n, len) ==
  /\ n + len <= Len(f) /\ Len(d) >= len /\ (Len(d) = len \/ n + len = Len(f))
  /\ Len(h) = n /\ \A i \in 1..n : h[i] = f[i]
  /\ \A i \in 1..len : d[i] = f[n + i]

(* Whoever holds n units of f, gets a block that begins with the next ones *)
(* and cuts what he holds to the length of f, holds that much more of f.   *)
LEMMA CutJoined ==
  ASSUME NEW T, NEW f \in Seq(T), NEW n \in Nat, NEW len \in Nat \ {0},
         NEW h \in Seq(T), NEW d \in Seq(T)
  PROVE  Fills(h, d, f, n, len) => Cut(h \o d, Len(f)) = SubSeq(f, 1, n + len)
<1>0. SUFFICES ASSUME Fills(h, d, f, n, len)
               PROVE  Cut(h \o d, Len(f)) = SubSeq(f, 1, n + len)
  OBVIOUS
<1>a. n + len <= Len(f) /\ Len(d) >= len /\ (Len(d) = len \/ n + len = Len(f))
  BY <1>0 DEF Fills
<1>b. Len(h) = n /\ (\A i \in 1..n : h[i] = f[i]) /\ (\A i \in 1..len : d[i] = f[n + i])
  BY <1>0 DEF Fills
<1> DEFINE c == h \o d
<1>1. /\ c \in Seq(T) /\ Len(c) = n + Len(d)
      /\ \A i \in 1..n : c[i] = h[i]
      /\ \A i \in 1..Len(d) : c[n + i] = d[i]
  <2>1. /\ h \o d \in Seq(T) /\ Len(h \o d) = Len(h) + Len(d)
        /\ \A i \in 1..Len(h) : (h \o d)[i] = h[i]
        /\ \A i \in 1..Len(d) : (h \o d)[Len(h) + i] = d[i]
    BY Joined
  <2> QED
    BY <1>b, <2>1
<1> HIDE DEF c
<1>2. ASSUME NEW i \in 1..n + len
      PROVE  c[i] = f[i]
  <2>1. CASE i <= n
    BY <1>1, <1>b, <2>1
  <2>2. CASE i > n
    <3> DEFINE k == i - n
    <3>1. k \in 1..len /\ k \in 1..Len(d) /\ n + k = i
      BY <1>a, <2>2
    <3> HIDE DEF k
    <3>2. c[n + k] = d[k] /\ d[k] = f[n + k]
      BY <1>1, <1>b, <3>1
    <3> QED
      <4>1. c[i] = c[n + k] /\ f[i] = f[n + k]
        BY <3>1
      <4> QED
        BY <3>2, <4>1
  <2> QED
    BY <2>1, <2>2
<1>3. c \in Seq(T) /\ Len(c) = n + Len(d)
  BY <1>1
<1> DEFINE g == SubSeq(f, 1, n + len)
<1>4. g \in Seq(T) /\ Len(g) = n + len /\ \A i \in 1..n + len : g[i] = f[i]
  BY <1>a
<1> HIDE DEF g
<1>5. Cut(c, Len(f)) \in Seq(T) /\ Len(Cut(c, Len(f))) = n + len /\ \A i \in 1..n + len : Cut(c, Len(f))[i] = c[i]
  <2>1. CASE n + Len(d) > Len(f)
    <3>1. Cut(c, Len(f)) = SubSeq(c, 1, Len(f)) /\ n + len = Len(f)
      BY <1>3, <1>a, <2>1 DEF Cut
    <3>2. Len(f) \in 0..Len(c)
      BY <1>3, <2>1
    <3>3. /\ SubSeq(c, 1, Len(f)) \in Seq(T) /\ Len(SubSeq(c, 1, Len(f))) = Len(f)
          /\ \A i \in 1..Len(f) : SubSeq(c, 1, Len(f))[i] = c[i]
      BY <1>3, <3>2
    <3> QED
      BY <3>1, <3>3
  <2>2. CASE n + Len(d) <= Len(f)
    <3>1. Cut(c, Len(f)) = c /\ Len(d) = len
      BY <1>3, <1>a, <2>2 DEF Cut
    <3> QED
      BY <1>3, <3>1
  <2> QED
    BY <2>1, <2>2
<1>6. Cut(c, Len(f)) = g
  <2> DEFINE e == Cut(c, Len(f))
  <2>1. e \in Seq(T) /\ Len(e) = n + len /\ \A i \in 1..n + len : e[i] = g[i]
    BY <1>2, <1>4, <1>5
  <2> HIDE DEF e
  <2>2. e = g
    BY <1>4, <2>1, Same
  <2> QED
    BY <2>2 DEF e
<1> QED
  BY <1>6 DEF c, g

(* What is left of f behind n units without its first len is what is left  *)
(* behind n + len.                                                         *)
LEMMA RestOfRest ==
  ASSUME NEW S, NEW f \in Seq(S), NEW n \in Nat, NEW left \in Seq(S), NEW len \in Nat
  PROVE  /\ n <= Len(f) /\ Len(left) = Len(f) - n /\ \A i \in 1..Len(left) : left[i] = f[n + i]
         /\ len <= Len(left)
         => SubSeq(left, len + 1, Len(left)) = SubSeq(f, n + len + 1, Len(f))
<1>a. SUFFICES ASSUME n <= Len(f), Len(left) = Len(f) - n, \A i \in 1..Len(left) : left[i] = f[n + i],
                      len <= Len(left)
               PROVE  SubSeq(left, len + 1, Len(left)) = SubSeq(f, n + len + 1, Len(f))
  OBVIOUS
<1> DEFINE u == SubSeq(left, len + 1, Len(left))
           v == SubSeq(f, (n + len) + 1, Len(f))
<1>1. u \in Seq(S) /\ Len(u) = Len(left) - len /\ \A i \in 1..Len(left) - len : u[i] = left[len + i]
  BY <1>a, Part
<1>2. v \in Seq(S) /\ Len(v) = Len(left) - len /\ \A i \in 1..Len(left) - len : v[i] = f[(n + len) + i]
  BY <1>a, Part
<1> HIDE DEF u, v
<1>3. ASSUME NEW i \in 1..Len(left) - len PROVE u[i] = v[i]
  <2>1. len + i \in 1..Len(left) /\ n + (len + i) = (n + len) + i
    BY <1>a
  <2>2. left[len + i] = f[n + (len + i)]
    BY <1>a, <2>1
  <2> QED
    BY <1>1, <1>2, <2>1, <2>2
<1>4. u = v
  BY <1>1, <1>2, <1>3, <1>a, Same
<1> QED
  BY <1>4 DEF u, v

(* len units s of the rest of f go into the next block.                    *)
IsNext(f, n, left, len, s) ==
  /\ left = SubSeq(f, n + 1, Len(f)) /\ left # <<>>
  /\ len = (IF Len(left) > Big THEN Big ELSE Len(left)) /\ s = SubSeq(left, 1, len)

(* The block of s is one of f, and what is left behind it is the rest of   *)
(* f.                                                                      *)
Fitting(S, f, n, left, len, s) ==
  /\ len \in 1..Len(left) /\ Len(left) = Len(f) - n
  /\ Padded(s, BlockSize(s)) \in Seq(S \cup {Pad})
  /\ Cut(SubSeq(f, 1, n) \o Padded(s, BlockSize(s)), Len(f)) = SubSeq(f, 1, n + len)
  /\ SubSeq(left, len + 1, Len(left)) = SubSeq(f, n + len + 1, Len(f))

(* The block SendBlock makes of the rest of a file is one that CutJoined   *)
(* is about.                                                               *)
LEMMA NextBlockFits ==
  ASSUME NEW S, NEW f \in Seq(S), NEW n \in Nat, n <= Len(f),
         NEW left \in Seq(S), NEW len \in Nat, NEW s, IsNext(f, n, left, len, s)
  PROVE  Fitting(S, f, n, left, len, s)
<1>a. /\ left = SubSeq(f, n + 1, Len(f)) /\ left # <<>>
      /\ len = (IF Len(left) > Big THEN Big ELSE Len(left)) /\ s = SubSeq(left, 1, len)
  BY DEF IsNext
<1>0. /\ Small \in Nat \ {0} /\ Big \in Nat \ {0} /\ Small < Big
  BY YmodemAssumption
<1>1. left \in Seq(S) /\ Len(left) = Len(f) - n /\ \A i \in 1..Len(left) : left[i] = f[n + i]
  BY <1>a
<1>2. len \in 1..Len(left)
  BY <1>0, <1>1, <1>a
<1>3. s \in Seq(S) /\ Len(s) = len /\ \A i \in 1..len : s[i] = f[n + i]
  BY <1>1, <1>2, <1>a
<1> DEFINE b == BlockSize(s)
           T == S \cup {Pad}
           d == Padded(s, b)
           h == SubSeq(f, 1, n)
<1>4. b \in Nat /\ b >= len /\ (Len(left) > Big => b = len) /\ (Len(left) <= Big => len = Len(left))
  BY <1>0, <1>1, <1>2, <1>3, <1>a DEF BlockSize
<1> HIDE DEF b
<1>5. d \in Seq(T) /\ Len(d) = b /\ \A i \in 1..len : d[i] = f[n + i]
  <2>1. Pad \in T /\ s \in Seq(T)
    BY <1>3
  <2> HIDE DEF T
  <2> QED
    BY <1>3, <1>4, <2>1, PaddedBlock
<1>6. h \in Seq(T) /\ Len(h) = n /\ \A i \in 1..n : h[i] = f[i]
  OBVIOUS
<1>7. f \in Seq(T)
  OBVIOUS
<1> HIDE DEF d, h, T
<1>8. n + len <= Len(f) /\ (Len(d) = len \/ n + len = Len(f)) /\ Len(d) >= len /\ n \in Nat /\ len \in Nat \ {0}
  BY <1>1, <1>2, <1>4, <1>5, <1>0
<1>9. Cut(h \o d, Len(f)) = SubSeq(f, 1, n + len)
  <2>1. h \in Seq(T) /\ d \in Seq(T) /\ f \in Seq(T) /\ n \in Nat /\ len \in Nat \ {0}
    BY <1>5, <1>6, <1>7, <1>8
  <2>2. Fills(h, d, f, n, len)
    BY <1>5, <1>6, <1>8 DEF Fills
  <2> QED
    BY <2>1, <2>2, CutJoined
<1>10. SubSeq(left, len + 1, Len(left)) = SubSeq(f, n + len + 1, Len(f))
  BY <1>1, <1>2, RestOfRest
<1> QED
  BY <1>1, <1>2, <1>5, <1>9, <1>10 DEF Fitting, h, T, d, b

(* The elements of the tail of a sequence.                                 *)
LEMMA Rest ==
  ASSUME NEW S, NEW b \in Seq(S), b # <<>>
  PROVE  /\ Tail(b) \in Seq(S) /\ Len(Tail(b)) = Len(b) - 1
         /\ 1 \in DOMAIN b /\ Head(b) = b[1]
         /\ \A i \in DOMAIN Tail(b) : i + 1 \in DOMAIN b /\ i \in Nat \ {0} /\ Tail(b)[i] = b[i + 1]
OBVIOUS

-----------------------------------------------------------------------------
(* What is under way. *)

Chars == {"C", "ACK", "NAK", "CAN", "?"}
Verdict == {"ACK", "NAK"}
Answers == {<<"NAK">>, <<"ACK">>, <<"ACK", "C">>, <<"CAN">>}

NoVerdict(b) == \A i \in DOMAIN b : b[i] \notin Verdict
NoAck(b) == \A i \in DOMAIN b : b[i] # "ACK"
OneVerdict(b) == \A i, j \in DOMAIN b : b[i] \in Verdict /\ b[j] \in Verdict => i = j
NakFirst(b) == \A i \in DOMAIN b : b[i] # "ACK" /\ (b[i] = "NAK" => i = 1)

(* Taking the first character off the line brings no verdict onto it, and  *)
(* takes the only one away if it is one.                                   *)
LEMMA Heard ==
  ASSUME NEW b \in Seq(Chars), b # <<>>
  PROVE  /\ Tail(b) \in Seq(Chars) /\ Head(b) \in Chars
         /\ NoVerdict(b) => NoVerdict(Tail(b)) /\ Head(b) \notin Verdict
         /\ NoAck(b) => NoAck(Tail(b)) /\ Head(b) # "ACK"
         /\ OneVerdict(b) => OneVerdict(Tail(b))
         /\ OneVerdict(b) /\ Head(b) \in Verdict => NoVerdict(Tail(b))
         /\ NakFirst(b) => NakFirst(Tail(b)) /\ NoVerdict(Tail(b))
<1> DEFINE t == Tail(b)
<1>1. t \in Seq(Chars) /\ 1 \in DOMAIN b /\ Head(b) = b[1] /\ b[1] \in Chars
  OBVIOUS
<1>2. \A i \in DOMAIN t : i + 1 \in DOMAIN b /\ i \in Nat \ {0} /\ t[i] = b[i + 1]
  BY Rest
<1> HIDE DEF t
<1>3. /\ NoVerdict(b) => NoVerdict(t) /\ Head(b) \notin Verdict
      /\ NoAck(b) => NoAck(t) /\ Head(b) # "ACK"
  BY <1>1, <1>2 DEF NoVerdict, NoAck
<1>4. OneVerdict(b) => OneVerdict(t)
  <2>1. SUFFICES ASSUME OneVerdict(b), NEW i \in DOMAIN t, NEW j \in DOMAIN t, t[i] \in Verdict, t[j] \in Verdict
                 PROVE  i = j
    BY DEF OneVerdict
  <2>2. i + 1 = j + 1
    BY <2>1, <1>2 DEF OneVerdict
  <2> QED
    BY <2>2, <1>2
<1>5. OneVerdict(b) /\ Head(b) \in Verdict => NoVerdict(t)
  <2>1. SUFFICES ASSUME OneVerdict(b), Head(b) \in Verdict, NEW i \in DOMAIN t, t[i] \in Verdict
                 PROVE  FALSE
    BY DEF NoVerdict
  <2>2. i + 1 = 1
    BY <2>1, <1>1, <1>2 DEF OneVerdict
  <2> QED
    BY <2>2, <1>2
<1>6. NakFirst(b) => NakFirst(t) /\ NoVerdict(t)
  <2>1. SUFFICES ASSUME NakFirst(b), NEW i \in DOMAIN t
                 PROVE  t[i] \notin Verdict
    BY DEF NakFirst, NoVerdict, Verdict
  <2>2. i + 1 # 1
    BY <1>2
  <2> QED
    BY <2>1, <2>2, <1>2 DEF NakFirst, Verdict
<1> QED
  BY <1>1, <1>3, <1>4, <1>5, <1>6 DEF t

(* An answer puts one verdict on the line; NAK and CAN are no ACK, and CAN *)
(* is no verdict.                                                          *)
LEMMA Answered ==
  ASSUME NEW b \in Seq(Chars), NEW ans \in Answers
  PROVE  /\ b \o ans \in Seq(Chars)
         /\ NoVerdict(b) => OneVerdict(b \o ans)
         /\ ans \in {<<"NAK">>, <<"CAN">>} /\ NoAck(b) => NoAck(b \o ans)
         /\ ans = <<"CAN">> /\ NoVerdict(b) => NoVerdict(b \o ans)
         /\ ans = <<"CAN">> /\ OneVerdict(b) => OneVerdict(b \o ans)
         /\ ans = <<"CAN">> /\ NakFirst(b) => NakFirst(b \o ans)
<1> DEFINE d == b \o ans
<1>1. ans \in Seq(Chars) /\ (\A i \in DOMAIN ans : ans[i] \in Verdict => i = 1)
      /\ (ans \in {<<"NAK">>, <<"CAN">>} => NoAck(ans))
      /\ (ans = <<"CAN">> => NoVerdict(ans))
  <2>1. CASE ans = <<"NAK">>
    BY <2>1 DEF Chars, Verdict, NoAck, NoVerdict
  <2>2. CASE ans = <<"ACK">>
    BY <2>2 DEF Chars, Verdict, NoAck, NoVerdict
  <2>3. CASE ans = <<"ACK", "C">>
    <3>1. ans \in Seq(Chars) /\ DOMAIN ans = {1, 2} /\ ans[2] = "C" /\ Len(ans) = 2
      BY <2>3 DEF Chars
    <3>2. ans[1] = "ACK" /\ "ACK" # "NAK" /\ "ACK" # "CAN"
      BY <2>3
    <3>3. ans # <<"NAK">>
      BY <3>2
    <3>4. ans # <<"CAN">>
      BY <3>2
    <3> QED
      BY <3>1, <3>3, <3>4 DEF Verdict
  <2>4. CASE ans = <<"CAN">>
    BY <2>4 DEF Chars, Verdict, NoAck, NoVerdict
  <2> QED
    BY <2>1, <2>2, <2>3, <2>4 DEF Answers
<1>2. d \in Seq(Chars)
      /\ \A i \in DOMAIN d : \/ i \in DOMAIN b /\ d[i] = b[i]
                             \/ i - Len(b) \in DOMAIN ans /\ d[i] = ans[i - Len(b)] /\ i \in Nat
  BY <1>1, More
<1>3. Len(b) \in Nat
  OBVIOUS
<1> HIDE DEF d
<1>4. NoVerdict(b) => OneVerdict(d)
  <2>1. SUFFICES ASSUME NoVerdict(b), NEW i \in DOMAIN d, NEW j \in DOMAIN d, d[i] \in Verdict, d[j] \in Verdict
                 PROVE  i = j
    BY DEF OneVerdict
  <2>2. i - Len(b) = 1 /\ i \in Nat
    BY <2>1, <1>1, <1>2 DEF NoVerdict
  <2>3. j - Len(b) = 1 /\ j \in Nat
    BY <2>1, <1>1, <1>2 DEF NoVerdict
  <2> QED
    BY <2>2, <2>3, <1>3
<1>5. ans \in {<<"NAK">>, <<"CAN">>} /\ NoAck(b) => NoAck(d)
  BY <1>1, <1>2 DEF NoAck
<1>6. ans = <<"CAN">> /\ NoVerdict(b) => NoVerdict(d)
  BY <1>1, <1>2 DEF NoVerdict
<1>7. ans = <<"CAN">> => \A i \in DOMAIN d : d[i] \in Verdict => i \in DOMAIN b /\ d[i] = b[i]
  BY <1>1, <1>2 DEF NoVerdict
<1>8. ans = <<"CAN">> /\ OneVerdict(b) => OneVerdict(d)
  BY <1>7 DEF OneVerdict
<1>9. ans = <<"CAN">> /\ NakFirst(b) => NakFirst(d)
  BY <1>7 DEF NakFirst, Verdict
<1> QED
  BY <1>2, <1>4, <1>5, <1>6, <1>8, <1>9 DEF d

(* A character that cannot be read is no verdict.                          *)
LEMMA Garbled ==
  ASSUME NEW b \in Seq(Chars), b # <<>>, NEW d, d = [b EXCEPT ![1] = "?"]
  PROVE  /\ d \in Seq(Chars)
         /\ NoVerdict(b) => NoVerdict(d)
         /\ NoAck(b) => NoAck(d)
         /\ OneVerdict(b) => OneVerdict(d)
         /\ NakFirst(b) => NakFirst(d)
<1>1. d \in Seq(Chars) /\ DOMAIN d = DOMAIN b /\ \A i \in DOMAIN b : d[i] = b[i] \/ d[i] = "?"
  BY DEF Chars
<1> QED
  BY <1>1 DEF NoVerdict, NoAck, OneVerdict, NakFirst, Verdict

-----------------------------------------------------------------------------
(* The invariant. *)

Units == Range(File) \cup {Pad}
Payloads == {Header, LastHeader} \cup Seq(Units)
Number == 0..Numbers - 1
Packets ==
  [type : {"block"}, num : Number, inv : Number, payload : Payloads, good : BOOLEAN]
  \cup [type : {"eot"}, good : BOOLEAN]
Lines == {<<>>} \cup {<<p>> : p \in Packets}
Receivers ==
  [state : {"name", "open", "data", "closed", "gone"}, want : Number, prompts : Nat,
   header : {Header, LastHeader}, files : Nat, content : Seq(Range(File))]

(* Types.                                                                  *)
TypeOK ==
  /\ pc \in {"wait_first", "first", "first_ack", "wait_file", "file", "file_ack", "eot_ack",
             "wait_last", "last", "last_ack", "done", "quit"}
  /\ packetnum \in Nat \ {0}
  /\ rest \in Seq(Range(File)) /\ Len(rest) <= Len(File)
  /\ sent \in Packets /\ sent.good
  /\ line \in Lines
  /\ back \in Seq(Chars)
  /\ rx \in Receivers

Acks == {"first_ack", "file_ack", "eot_ack", "last_ack"}
Waits == {"wait_first", "wait_file", "wait_last"}

(* One packet at most is under way to the receiver, the one the sender     *)
(* waits for, or one verdict back to the sender, never both: the answer to *)
(* a packet is an answer to that one.                                      *)
UnderWay ==
  /\ line # <<>> => pc \in Acks /\ NoVerdict(back) /\ (line[1].good => line[1] = sent)
  /\ OneVerdict(back)
  /\ pc \in {"first", "file", "last"} => NoVerdict(back)
  /\ pc \in Waits => NakFirst(back)

Gone == rx.state = "gone"
Dealt == Len(File) - Len(rest)
(* What was put into blocks.                                               *)
Held == SubSeq(File, 1, Dealt)
OneFile == rx.header = Header /\ rx.files = 1
Fresh == rx.files = 0 /\ rx.state = "name"
HasHeader == rx.state = "open" /\ rx.want = 1 /\ OneFile

(* Up to the first block the receiver has nothing, or the header.  An ACK  *)
(* to the header means it has the header.                                  *)
AtHeader ==
  /\ pc \in {"wait_first", "first", "first_ack", "wait_file"} =>
       packetnum = 1 /\ rest = File /\ rx.content = <<>>
  /\ pc \in {"wait_first", "first"} => Gone \/ Fresh
  /\ pc = "first_ack" => /\ sent = Packet(0, Header)
                         /\ Gone \/ HasHeader \/ (Fresh /\ NoAck(back))
  /\ pc = "wait_file" => Gone \/ HasHeader

(* The receiver wants block n.                                             *)
Stage(n) == rx.state = (IF n = 1 THEN "open" ELSE "data") /\ rx.want = n % Numbers /\ OneFile

(* Between blocks the receiver holds all that was put into blocks.  While  *)
(* one is sent it holds it and wants the next, or it wants this one, with  *)
(* which it will hold it, and has not acknowledged it.                     *)
AtBlocks ==
  /\ pc \in {"file", "file_ack"} => rest = SubSeq(File, Dealt + 1, Len(File))
  /\ pc = "file" => rx.content = Held /\ (Gone \/ Stage(packetnum))
  /\ pc = "file_ack" =>
       /\ packetnum > 1
       /\ sent.type = "block" /\ sent.num = (packetnum - 1) % Numbers
       /\ \/ rx.content = Held /\ (Gone \/ Stage(packetnum))
          \/ /\ Cut(rx.content \o sent.payload, Len(File)) = Held
             /\ Gone \/ Stage(packetnum - 1)
             /\ NoAck(back)

(* Behind the last block the receiver holds the file.  It has had the EOT  *)
(* when that is acknowledged and has closed when the empty header is.      *)
AtEnd ==
  /\ pc \in {"eot_ack", "wait_last", "last", "last_ack", "done"} =>
       rest = <<>> /\ rx.content = File /\ (Gone \/ OneFile)
  /\ pc = "eot_ack" =>
       sent = EOT /\ (Gone \/ rx.state = "name" \/ (rx.state \in {"open", "data"} /\ NoAck(back)))
  /\ pc \in {"wait_last", "last"} => Gone \/ rx.state = "name"
  /\ pc = "last_ack" =>
       /\ sent = Packet(0, LastHeader)
       /\ rx.state = "closed" \/ (rx.state \in {"name", "gone"} /\ NoAck(back))
  /\ pc = "done" => rx.state = "closed"

Ind == TypeOK /\ UnderWay /\ AtHeader /\ AtBlocks /\ AtEnd

-----------------------------------------------------------------------------
(* What the assumption says, as it is needed.                              *)
LEMMA Constants ==
  /\ Small \in Nat \ {0} /\ Big \in Nat \ {0} /\ Numbers \in Nat /\ Numbers > 2
  /\ Name # NoName /\ File \in Seq(Range(File)) /\ Len(File) \in Nat
  /\ DOMAIN AfterAck = Acks
  /\ Header # LastHeader
<1>1. DOMAIN AfterAck = Acks
  BY DEF AfterAck, Acks
<1>2. Header.name = Name /\ LastHeader.name = NoName
  BY DEF Header, LastHeader
<1>3. File \in Seq(Range(File)) /\ Name # NoName
  BY YmodemAssumption
<1>4. Len(File) \in Nat
  BY <1>3
<1> QED
  BY <1>1, <1>2, <1>3, <1>4, YmodemAssumption

(* What the sender makes are packets.                                      *)
LEMMA Sendable ==
  ASSUME NEW n \in Nat, NEW data \in Payloads
  PROVE  Packet(n, data) \in Packets /\ Packet(n, data).good /\ EOT \in Packets /\ EOT.good
<1>1. Numbers \in Nat \ {0}
  BY Constants
<1>2. n % Numbers \in Number
  BY <1>1, Quotient DEF Number
<1>3. Numbers - 1 - n \in Int
  BY <1>1
<1>4. \A a \in Int : a % Numbers \in Number
  BY <1>1 DEF Number
<1> QED
  BY <1>2, <1>3, <1>4 DEF Packets, Packet, EOT

(* The invariant holds at first.                                           *)
LEMMA Starts == ASSUME Init PROVE Ind
<1> USE DEF Init
<1>1. \A n \in Nat : /\ [i \in 1..n |-> "C"] \in Seq(Chars)
                     /\ OneVerdict([i \in 1..n |-> "C"]) /\ NakFirst([i \in 1..n |-> "C"])
  BY DEF Chars, OneVerdict, NakFirst, Verdict
<1>2. Early \in Nat
  BY YmodemAssumption
<1>3. back \in Seq(Chars) /\ OneVerdict(back) /\ NakFirst(back)
  BY <1>1, <1>2
<1>4. rx \in Receivers
  BY Constants DEF Receivers, Number
<1>5. TypeOK
  BY <1>3, <1>4, Constants, Sendable DEF TypeOK, Lines, Payloads
<1>6. UnderWay
  BY <1>3 DEF UnderWay, Waits
<1>7. AtHeader
  BY DEF AtHeader, Fresh
<1>8. AtBlocks /\ AtEnd
  BY DEF AtBlocks, AtEnd
<1> QED
  BY <1>5, <1>6, <1>7, <1>8 DEF Ind

(* The sender hears C or something else while it waits for C.              *)
LEMMA AfterWait ==
  ASSUME Ind, NEW here, NEW next, WaitForC(here, next),
         <<here, next>> \in {<<"wait_first", "first">>, <<"wait_file", "file">>, <<"wait_last", "last">>}
  PROVE  Ind'
<1>1. /\ pc = here /\ pc' \in {next, "quit"} /\ back # <<>> /\ back' = Tail(back)
      /\ UNCHANGED <<packetnum, rest, sent, line, rx, faults>>
  BY DEF WaitForC
<1>2. \/ here = "wait_first" /\ next = "first"
      \/ here = "wait_file" /\ next = "file"
      \/ here = "wait_last" /\ next = "last"
  OBVIOUS
<1>3. /\ back \in Seq(Chars) /\ NakFirst(back) /\ OneVerdict(back) /\ line = <<>>
  BY <1>1, <1>2 DEF Ind, UnderWay, TypeOK, Waits, Acks
<1>4. back' \in Seq(Chars) /\ NoVerdict(back') /\ OneVerdict(back')
  BY <1>1, <1>3, Heard
<1>5. TypeOK'
  BY <1>1, <1>2, <1>4 DEF Ind, TypeOK
<1>6. UnderWay'
  BY <1>1, <1>2, <1>3, <1>4 DEF UnderWay, Waits
<1>7. AtHeader'
  BY <1>1, <1>2 DEF Ind, AtHeader, Gone, Fresh
<1>8. AtBlocks'
  <2>1. CASE pc' = "file"
    <3>1. pc = "wait_file" /\ packetnum = 1 /\ rest = File /\ rx.content = <<>> /\ (Gone \/ HasHeader)
      BY <1>1, <1>2, <2>1 DEF Ind, AtHeader
    <3>2. SubSeq(File, 1, 0) = <<>> /\ SubSeq(File, 1, Len(File)) = File /\ Len(File) - Len(File) = 0
      BY Constants
    <3>3. 1 % Numbers = 1
      BY Constants
    <3> QED
      BY <1>1, <2>1, <3>1, <3>2, <3>3 DEF AtBlocks, Held, Dealt, Gone, Stage, HasHeader, OneFile
  <2>2. CASE pc' # "file"
    BY <1>1, <1>2, <2>2 DEF AtBlocks
  <2> QED
    BY <2>1, <2>2
<1>9. AtEnd'
  BY <1>1, <1>2 DEF Ind, AtEnd, Gone, OneFile
<1> QED
  BY <1>5, <1>6, <1>7, <1>8, <1>9 DEF Ind

(* The header is sent.                                                     *)
LEMMA AfterFirst == ASSUME Ind, SendFirst PROVE Ind'
<1>1. /\ pc = "first" /\ pc' = "first_ack" /\ sent' = Packet(0, Header) /\ line' = Append(line, sent')
      /\ UNCHANGED <<packetnum, rest, back, rx, faults>>
  BY DEF SendFirst, Put
<1>2. line = <<>> /\ NoVerdict(back) /\ OneVerdict(back)
  BY <1>1 DEF Ind, UnderWay, Acks
<1>3. line' = <<sent'>> /\ sent' \in Packets /\ sent'.good
  BY <1>1, <1>2, Sendable DEF Payloads
<1>4. TypeOK'
  BY <1>1, <1>3 DEF Ind, TypeOK, Lines
<1>5. UnderWay'
  BY <1>1, <1>2, <1>3 DEF UnderWay, Acks, Waits
<1>6. NoAck(back)
  BY <1>2 DEF NoVerdict, NoAck, Verdict
<1>7. AtHeader'
  BY <1>1, <1>6 DEF Ind, AtHeader, Gone, Fresh, HasHeader
<1>8. AtBlocks' /\ AtEnd'
  BY <1>1 DEF AtBlocks, AtEnd
<1> QED
  BY <1>4, <1>5, <1>7, <1>8 DEF Ind

(* The empty header is sent.                                               *)
LEMMA AfterLast == ASSUME Ind, SendLast PROVE Ind'
<1>1. /\ pc = "last" /\ pc' = "last_ack" /\ sent' = Packet(0, LastHeader) /\ line' = Append(line, sent')
      /\ UNCHANGED <<packetnum, rest, back, rx, faults>>
  BY DEF SendLast, Put
<1>2. line = <<>> /\ NoVerdict(back) /\ OneVerdict(back)
  BY <1>1 DEF Ind, UnderWay, Acks
<1>3. line' = <<sent'>> /\ sent' \in Packets /\ sent'.good
  BY <1>1, <1>2, Sendable DEF Payloads
<1>4. TypeOK'
  BY <1>1, <1>3 DEF Ind, TypeOK, Lines
<1>5. UnderWay'
  BY <1>1, <1>2, <1>3 DEF UnderWay, Acks, Waits
<1>6. NoAck(back)
  BY <1>2 DEF NoVerdict, NoAck, Verdict
<1>7. AtHeader' /\ AtBlocks'
  BY <1>1 DEF AtBlocks, AtHeader
<1>8. AtEnd'
  BY <1>1, <1>6 DEF Ind, AtEnd, Gone, OneFile
<1> QED
  BY <1>4, <1>5, <1>7, <1>8 DEF Ind

(* A block or the EOT is sent: the receiver has all before it.             *)
LEMMA AfterBlock == ASSUME Ind, SendBlock PROVE Ind'
<1>1. pc = "file" /\ UNCHANGED <<back, rx, faults>>
  BY DEF SendBlock
<1>2. line = <<>> /\ NoVerdict(back) /\ OneVerdict(back) /\ NoAck(back)
  BY <1>1 DEF Ind, UnderWay, Acks, NoVerdict, NoAck, Verdict
<1>3. /\ rest = SubSeq(File, Dealt + 1, Len(File)) /\ rx.content = Held /\ (Gone \/ Stage(packetnum))
      /\ rest \in Seq(Range(File)) /\ Len(rest) <= Len(File) /\ packetnum \in Nat \ {0}
  BY <1>1 DEF Ind, AtBlocks, TypeOK
<1>4. Len(rest) \in Nat /\ Dealt \in 0..Len(File)
  BY <1>3, Constants DEF Dealt
<1>5. CASE rest # <<>>
  <2>1. /\ sent' = NextBlock /\ line' = Append(line, NextBlock)
        /\ rest' = SubSeq(rest, NextLength + 1, Len(rest))
        /\ packetnum' = packetnum + 1 /\ pc' = "file_ack"
    BY <1>5 DEF SendBlock, Put
  <2> DEFINE s == SubSeq(rest, 1, NextLength)
             data == Padded(s, BlockSize(s))
  <2>2. NextBlock = Packet(packetnum, data)
    BY DEF NextBlock
  <2>3. /\ NextLength \in 1..Len(rest) /\ Len(rest) = Len(File) - Dealt
        /\ data \in Seq(Range(File) \cup {Pad})
        /\ Cut(SubSeq(File, 1, Dealt) \o data, Len(File)) = SubSeq(File, 1, Dealt + NextLength)
        /\ SubSeq(rest, NextLength + 1, Len(rest)) = SubSeq(File, Dealt + NextLength + 1, Len(File))
    <3>1. IsNext(File, Dealt, rest, NextLength, s)
      BY <1>3, <1>5 DEF NextLength, IsNext
    <3>2. File \in Seq(Range(File)) /\ NextLength \in Nat /\ Dealt \in Nat /\ Dealt <= Len(File)
      BY <1>3, <1>4, Constants DEF NextLength
    <3> HIDE DEF s
    <3> DEFINE S == Range(File)
    <3>3. File \in Seq(S) /\ rest \in Seq(S)
      BY <1>3, <3>2
    <3> HIDE DEF S
    <3>4. Fitting(S, File, Dealt, rest, NextLength, s)
      BY <3>1, <3>2, <3>3, NextBlockFits
    <3> QED
      BY <3>4 DEF S, Fitting
  <2> HIDE DEF s, data
  <2>4. line' = <<sent'>> /\ sent' \in Packets /\ sent'.good
    <3>1. data \in Payloads /\ packetnum \in Nat
      BY <1>3, <2>3 DEF Payloads, Units
    <3>2. NextBlock \in Packets /\ NextBlock.good
      BY <2>2, <3>1, Sendable
    <3> QED
      BY <1>2, <2>1, <3>2
  <2>5. rest' \in Seq(Range(File)) /\ Len(rest') = Len(rest) - NextLength
    <3>1. NextLength \in Nat /\ NextLength <= Len(rest)
      BY <1>4, <2>3
    <3> QED
      BY <1>3, <1>4, <2>1, <3>1, Part
  <2>6. Dealt' = Dealt + NextLength /\ Len(rest') <= Len(File)
    BY <1>3, <1>4, <2>3, <2>5, Constants DEF Dealt
  <2>7. TypeOK'
    <3>1. packetnum' \in Nat \ {0} /\ line' \in Lines
      BY <1>3, <2>1, <2>4 DEF Lines
    <3> QED
      BY <1>1, <2>1, <2>4, <2>5, <2>6, <3>1 DEF Ind, TypeOK
  <2>8. UnderWay'
    BY <1>1, <1>2, <2>1, <2>4 DEF UnderWay, Acks, Waits
  <2>9. sent'.type = "block" /\ sent'.num = packetnum % Numbers /\ sent'.payload = data
    BY <2>1, <2>2 DEF Packet
  <2>10. Cut(rx'.content \o sent'.payload, Len(File)) = Held'
    BY <1>1, <1>3, <2>3, <2>6, <2>9 DEF Held
  <2>11. packetnum' - 1 = packetnum /\ packetnum' > 1
    BY <1>3, <2>1
  <2>13. Gone' \/ (Stage(packetnum - 1))'
    BY <1>1, <1>3, <2>11 DEF Gone, Stage, OneFile
  <2>14. AtBlocks'
    BY <1>1, <1>2, <2>1, <2>3, <2>6, <2>9, <2>10, <2>11, <2>13 DEF AtBlocks
  <2>15. AtHeader' /\ AtEnd'
    BY <2>1 DEF AtHeader, AtEnd
  <2> QED
    BY <2>7, <2>8, <2>14, <2>15 DEF Ind
<1>6. CASE rest = <<>>
  <2>1. sent' = EOT /\ line' = Append(line, EOT) /\ pc' = "eot_ack" /\ UNCHANGED <<rest, packetnum>>
    BY <1>6 DEF SendBlock, Put
  <2>2. line' = <<sent'>> /\ sent' \in Packets /\ sent'.good
    BY <1>2, <2>1, Sendable DEF Payloads
  <2>3. TypeOK'
    BY <1>1, <2>1, <2>2 DEF Ind, TypeOK, Lines
  <2>4. UnderWay'
    BY <1>1, <1>2, <2>1, <2>2 DEF UnderWay, Acks, Waits
  <2>5. Held = File
    BY <1>6, Constants DEF Held, Dealt
  <2>6. AtEnd'
    BY <1>1, <1>2, <1>3, <1>6, <2>1, <2>5 DEF AtEnd, Gone, Stage, OneFile
  <2>7. AtHeader' /\ AtBlocks'
    BY <2>1 DEF AtHeader, AtBlocks
  <2> QED
    BY <2>3, <2>4, <2>6, <2>7 DEF Ind
<1> QED
  BY <1>5, <1>6

(* The sender waits for a verdict and hears a character.                   *)
LEMMA AfterHeard == ASSUME Ind, Acked PROVE Ind'
<1>1. /\ pc \in Acks /\ back # <<>> /\ back' = Tail(back)
      /\ UNCHANGED <<packetnum, rest, rx, faults>>
  BY Constants DEF Acked
<1>2. back \in Seq(Chars) /\ OneVerdict(back) /\ sent \in Packets /\ sent.good /\ line \in Lines
      /\ (line # <<>> => NoVerdict(back) /\ (line[1].good => line[1] = sent))
  BY DEF Ind, TypeOK, UnderWay
<1>3. /\ back' \in Seq(Chars) /\ OneVerdict(back')
      /\ (NoVerdict(back) => NoVerdict(back') /\ Head(back) \notin Verdict)
      /\ (Head(back) \in Verdict => NoVerdict(back'))
      /\ (NoAck(back) => NoAck(back') /\ Head(back) # "ACK")
  BY <1>1, <1>2, Heard
<1>4. CASE Head(back) \notin Verdict
  <2>1. UNCHANGED <<pc, sent, line>>
    BY <1>4 DEF Acked, Verdict
  <2>2. TypeOK' /\ UnderWay'
    BY <1>1, <1>2, <1>3, <2>1 DEF Ind, TypeOK, UnderWay, Waits, Acks
  <2>3. AtHeader'
    BY <1>1, <1>3, <2>1 DEF Ind, AtHeader, Gone, Fresh, HasHeader, OneFile
  <2>4. AtBlocks'
    BY <1>1, <1>3, <2>1 DEF Ind, AtBlocks, Gone, Stage, OneFile, Held, Dealt
  <2>5. AtEnd'
    BY <1>1, <1>3, <2>1 DEF Ind, AtEnd, Gone, OneFile
  <2> QED
    BY <2>2, <2>3, <2>4, <2>5 DEF Ind
<1>5. CASE Head(back) = "NAK"
  <2>1. sent' = sent /\ line' = Append(line, sent) /\ pc' = pc
    BY <1>5 DEF Acked, Put
  <2>2. line = <<>> /\ NoVerdict(back') /\ line' = <<sent>>
    <3>1. NoVerdict(back') /\ line = <<>>
      BY <1>2, <1>3, <1>5 DEF Verdict
    <3> QED
      BY <1>2, <2>1, <3>1
  <2>3. TypeOK'
    BY <1>1, <1>2, <1>3, <2>1, <2>2 DEF Ind, TypeOK, Lines
  <2>4. UnderWay'
    BY <1>1, <1>3, <2>1, <2>2 DEF UnderWay, Waits, Acks
  <2>5. AtHeader'
    BY <1>1, <1>3, <2>1 DEF Ind, AtHeader, Gone, Fresh, HasHeader, OneFile
  <2>6. AtBlocks'
    BY <1>1, <1>3, <2>1 DEF Ind, AtBlocks, Gone, Stage, OneFile, Held, Dealt
  <2>7. AtEnd'
    BY <1>1, <1>3, <2>1 DEF Ind, AtEnd, Gone, OneFile
  <2> QED
    BY <2>3, <2>4, <2>5, <2>6, <2>7 DEF Ind
<1>6. CASE Head(back) = "ACK"
  <2>1. UNCHANGED <<sent, line>> /\ pc' = AfterAck[pc]
    BY <1>6 DEF Acked
  <2>2. line = <<>> /\ NoVerdict(back') /\ ~NoAck(back)
    BY <1>2, <1>3, <1>6 DEF Verdict
  <2>3. \/ pc = "first_ack" /\ pc' = "wait_file"
        \/ pc = "file_ack" /\ pc' = "file"
        \/ pc = "eot_ack" /\ pc' = "wait_last"
        \/ pc = "last_ack" /\ pc' = "done"
    BY <1>1, <2>1 DEF Acks, AfterAck
  <2>4. TypeOK'
    BY <1>1, <1>3, <2>1, <2>3 DEF Ind, TypeOK
  <2>5. NakFirst(back')
    BY <2>2 DEF NoVerdict, NakFirst, Verdict
  <2>6. UnderWay'
    BY <1>3, <2>1, <2>2, <2>5 DEF UnderWay
  <2>7. AtHeader'
    BY <1>1, <2>1, <2>2, <2>3 DEF Ind, AtHeader, Gone, HasHeader, OneFile
  <2>8. AtBlocks'
    BY <1>1, <2>1, <2>2, <2>3 DEF Ind, AtBlocks, Gone, Stage, OneFile, Held, Dealt
  <2>9. AtEnd'
    BY <1>1, <2>1, <2>2, <2>3 DEF Ind, AtEnd, Gone, OneFile
  <2> QED
    BY <2>4, <2>6, <2>7, <2>8, <2>9 DEF Ind
<1> QED
  BY <1>4, <1>5, <1>6 DEF Verdict

(* A wait for C ends.                                                      *)
LEMMA AfterTimeout == ASSUME Ind, TimesOut PROVE Ind'
<1>1. /\ pc \in Waits /\ pc' = "quit" /\ UNCHANGED <<packetnum, rest, sent, line, back, rx, faults>>
  BY DEF TimesOut, Waits
<1>2. TypeOK' /\ UnderWay'
  BY <1>1 DEF Ind, TypeOK, UnderWay, Waits, Acks
<1>3. AtHeader' /\ AtBlocks' /\ AtEnd'
  BY <1>1 DEF AtHeader, AtBlocks, AtEnd
<1> QED
  BY <1>2, <1>3 DEF Ind

(* The receiver prompts.  Nothing else is under way then.                  *)
LEMMA AfterPrompt == ASSUME Ind, Prompt PROVE Ind'
<1>1. /\ pc \in Acks \cup Waits /\ line = <<>> /\ back' \in {<<"C">>, <<"NAK">>}
      /\ UNCHANGED <<pc, packetnum, rest, sent, line, faults>>
  BY Constants DEF Prompt, Silence, Waiting, Waits
<1>2. \E n \in Nat : rx' = [rx EXCEPT !.prompts = n]
  BY DEF Prompt, Ind, TypeOK, Receivers
<1>3. /\ rx' \in Receivers /\ rx'.state = rx.state /\ rx'.want = rx.want /\ rx'.header = rx.header
      /\ rx'.files = rx.files /\ rx'.content = rx.content
  BY <1>2 DEF Ind, TypeOK, Receivers
<1>4. back' \in Seq(Chars) /\ OneVerdict(back') /\ NakFirst(back') /\ NoAck(back')
  <2>1. CASE back' = <<"C">>
    BY <2>1 DEF Chars, OneVerdict, NakFirst, NoAck
  <2>2. CASE back' = <<"NAK">>
    BY <2>2 DEF Chars, OneVerdict, NakFirst, NoAck
  <2> QED
    BY <1>1, <2>1, <2>2
<1>5. TypeOK' /\ UnderWay'
  BY <1>1, <1>3, <1>4 DEF Ind, TypeOK, UnderWay, Waits, Acks
<1>6. AtHeader'
  BY <1>1, <1>3, <1>4 DEF Ind, AtHeader, Gone, Fresh, HasHeader, OneFile
<1>7. AtBlocks'
  BY <1>1, <1>3, <1>4 DEF Ind, AtBlocks, Gone, Stage, OneFile, Held, Dealt
<1>8. AtEnd'
  BY <1>1, <1>3, <1>4 DEF Ind, AtEnd, Gone, OneFile
<1> QED
  BY <1>5, <1>6, <1>7, <1>8 DEF Ind

(* A receiver that leaves keeps what it has.                               *)
LEMMA Leaving ==
  ASSUME TypeOK, rx.state # "closed", Leave
  PROVE  /\ rx' \in Receivers /\ Gone' /\ rx'.content = rx.content /\ back' = back \o <<"CAN">>
         /\ <<"CAN">> \in Answers
<1>1. rx' = [rx EXCEPT !.state = "gone"] /\ back' = back \o <<"CAN">>
  BY DEF Leave, Answer
<1> QED
  BY <1>1 DEF TypeOK, Receivers, Gone, Answers

(* The receiver is stopped.                                                *)
LEMMA AfterCancel == ASSUME Ind, Cancel PROVE Ind'
<1>1. /\ rx.state \in {"name", "open", "data"} /\ UNCHANGED <<pc, packetnum, rest, sent, line>> /\ Leave
  BY DEF Cancel
<1>2. /\ rx' \in Receivers /\ Gone' /\ rx'.content = rx.content /\ back' = back \o <<"CAN">>
      /\ <<"CAN">> \in Answers /\ back \in Seq(Chars)
  BY <1>1, Leaving DEF Ind, TypeOK
<1>3. /\ back' \in Seq(Chars)
      /\ NoAck(back) => NoAck(back')
      /\ NoVerdict(back) => NoVerdict(back')
      /\ OneVerdict(back) => OneVerdict(back')
      /\ NakFirst(back) => NakFirst(back')
  BY <1>2, Answered
<1>4. TypeOK' /\ UnderWay'
  BY <1>1, <1>2, <1>3 DEF Ind, TypeOK, UnderWay
<1>5. AtHeader'
  BY <1>1, <1>2, <1>3 DEF Ind, AtHeader
<1>6. AtBlocks'
  BY <1>1, <1>2, <1>3 DEF Ind, AtBlocks, Held, Dealt
<1>7. AtEnd'
  BY <1>1, <1>2, <1>3 DEF Ind, AtEnd, Gone
<1> QED
  BY <1>4, <1>5, <1>6, <1>7 DEF Ind

(* Something is lost or garbled.                                           *)
LEMMA AfterFault == ASSUME Ind, Fault PROVE Ind'
<1>1. UNCHANGED <<pc, packetnum, rest, sent, rx>>
  BY DEF Fault
<1>2. back \in Seq(Chars) /\ line \in Lines /\ OneVerdict(back)
  BY DEF Ind, TypeOK, UnderWay
<1>3. /\ back' \in Seq(Chars)
      /\ NoAck(back) => NoAck(back')
      /\ NoVerdict(back) => NoVerdict(back')
      /\ OneVerdict(back')
      /\ NakFirst(back) => NakFirst(back')
  <2>1. CASE back' = back
    BY <1>2, <2>1
  <2>2. CASE back # <<>> /\ back' = Tail(back)
    BY <1>2, <2>2, Heard
  <2>3. CASE back # <<>> /\ back' = [back EXCEPT ![1] = "?"]
    BY <1>2, <2>3, Garbled
  <2> QED
    BY <2>1, <2>2, <2>3 DEF Fault
<1>4. line' \in Lines /\ (line' # <<>> => line # <<>> /\ (line'[1].good => line' = line))
  <2>1. CASE line' = line
    BY <1>2, <2>1
  <2>2. CASE line # <<>> /\ line' = Tail(line)
    <3>1. PICK p \in Packets : line = <<p>>
      BY <1>2, <2>2 DEF Lines
    <3>2. Tail(line) = <<>>
      BY <3>1
    <3> QED
      BY <2>2, <3>2 DEF Lines
  <2>3. CASE line # <<>> /\ line' = [line EXCEPT ![1].good = FALSE]
    <3>1. PICK p \in Packets : line = <<p>>
      BY <1>2, <2>3 DEF Lines
    <3> DEFINE q == [p EXCEPT !.good = FALSE]
    <3>2. q \in Packets /\ ~q.good
      BY <3>1 DEF Packets
    <3>3. line \in Seq(Packets) /\ Len(line) = 1 /\ line[1] = p
      BY <3>1
    <3>4. line' = [line EXCEPT ![1] = q]
      BY <2>3, <3>3
    <3> HIDE DEF q
    <3>5. line' \in Seq(Packets) /\ Len(line') = 1 /\ line'[1] = q
      BY <3>2, <3>3, <3>4
    <3>6. line' = <<q>>
      BY <3>5
    <3>7. line' \in Lines
      BY <3>2, <3>6 DEF Lines
    <3> QED
      BY <2>3, <3>2, <3>5, <3>7
  <2> QED
    BY <2>1, <2>2, <2>3 DEF Fault
<1>5. TypeOK' /\ UnderWay'
  BY <1>1, <1>3, <1>4 DEF Ind, TypeOK, UnderWay
<1>6. AtHeader'
  BY <1>1, <1>3 DEF Ind, AtHeader, Gone, Fresh, HasHeader, OneFile
<1>7. AtBlocks'
  BY <1>1, <1>3 DEF Ind, AtBlocks, Gone, Stage, OneFile, Held, Dealt
<1>8. AtEnd'
  BY <1>1, <1>3 DEF Ind, AtEnd, Gone, OneFile
<1> QED
  BY <1>5, <1>6, <1>7, <1>8 DEF Ind

(* A packet that changes nothing at the receiver.                          *)
LEMMA SameReceiver ==
  ASSUME Ind, pc \in Acks, UNCHANGED <<pc, packetnum, rest, sent, rx, faults>>, line' = <<>>,
         back' \in Seq(Chars), OneVerdict(back'), NoAck(back) => NoAck(back')
  PROVE  Ind'
<1>1. TypeOK' /\ UnderWay'
  BY DEF Ind, TypeOK, Lines, UnderWay, Acks, Waits
<1>2. AtHeader'
  BY DEF Ind, AtHeader, Gone, Fresh, HasHeader, OneFile
<1>3. AtBlocks'
  BY DEF Ind, AtBlocks, Gone, Stage, OneFile, Held, Dealt
<1>4. AtEnd'
  BY DEF Ind, AtEnd, Gone, OneFile
<1> QED
  BY <1>1, <1>2, <1>3, <1>4 DEF Ind

(* The receiver gets a packet: the one being sent, or one it cannot read.  *)
LEMMA AfterReceive == ASSUME Ind, Receive PROVE Ind'
<1>1. PICK p \in Packets : line = <<p>>
  BY DEF Receive, Ind, TypeOK, Lines
<1>2. /\ line' = <<>> /\ Take(p) /\ UNCHANGED <<pc, packetnum, rest, sent, faults>>
  BY <1>1 DEF Receive
<1>3. /\ pc \in Acks /\ NoVerdict(back) /\ NoAck(back) /\ (p.good => p = sent)
      /\ back \in Seq(Chars) /\ rx \in Receivers /\ packetnum \in Nat \ {0} /\ OneVerdict(back)
  BY <1>1 DEF Ind, UnderWay, TypeOK, NoVerdict, NoAck, Verdict
<1>4. ASSUME NEW ans \in Answers
      PROVE  /\ back \o ans \in Seq(Chars) /\ OneVerdict(back \o ans)
             /\ ans \in {<<"NAK">>, <<"CAN">>} => NoAck(back \o ans)
  BY <1>3, Answered
<1>5. CASE ~p.good \/ rx.state \in {"closed", "gone"}
  <2>1. rx' = rx /\ (back' = back \/ back' = back \o <<"NAK">>)
    BY <1>2, <1>5 DEF Take, Whole, Answer
  <2>2. <<"NAK">> \in Answers
    BY DEF Answers
  <2>3. back' \in Seq(Chars) /\ OneVerdict(back') /\ NoAck(back')
    BY <1>3, <1>4, <2>1, <2>2
  <2> QED
    BY <1>2, <1>3, <2>1, <2>3, SameReceiver
<1>6. CASE p.good /\ rx.state \in {"name", "open", "data"}
  <2>1. p = sent /\ sent.good
    BY <1>3, <1>6
  <2>2. ASSUME back' \in Seq(Chars), OneVerdict(back'), rx' \in Receivers
        PROVE  TypeOK' /\ UnderWay'
    BY <1>2, <1>3, <2>2 DEF Ind, TypeOK, Lines, UnderWay, Acks, Waits
  <2>3. <<"ACK">> \in Answers /\ <<"ACK", "C">> \in Answers /\ <<"CAN">> \in Answers
    BY DEF Answers
  <2>4. ASSUME Leave
        PROVE  /\ back' \in Seq(Chars) /\ OneVerdict(back') /\ NoAck(back')
               /\ rx' \in Receivers /\ Gone' /\ rx'.content = rx.content
    BY <1>4, <1>6, <2>3, <2>4, Leaving DEF Ind
  <2>5. CASE pc = "first_ack"
    <3>1. /\ sent = Packet(0, Header) /\ packetnum = 1 /\ rest = File /\ rx.content = <<>>
          /\ HasHeader \/ Fresh
      BY <1>6, <2>5 DEF Ind, AtHeader, Gone
    <3>2. 0 % Numbers = 0
      BY Constants
    <3>3. p.type = "block" /\ p.num = 0 /\ p.payload = Header
      BY <2>1, <3>1, <3>2 DEF Packet
    <3>4. CASE HasHeader
      <4>1. rx.state = "open" /\ rx.want = 1
        BY <3>4 DEF HasHeader
      <4>2. Leave \/ (rx' = rx /\ back' = back \o <<"ACK", "C">>)
        BY <1>2, <1>6, <3>3, <4>1 DEF Take, Whole, Answer
      <4>3. /\ back' \in Seq(Chars) /\ OneVerdict(back') /\ rx' \in Receivers
            /\ Gone' \/ HasHeader'
        BY <1>3, <1>4, <2>3, <2>4, <3>1, <3>4, <4>2 DEF Gone, HasHeader, OneFile
      <4>4. rx'.content = <<>>
        BY <2>4, <3>1, <4>2
      <4>5. AtHeader'
        BY <1>2, <2>5, <3>1, <4>3, <4>4 DEF AtHeader
      <4>6. AtBlocks' /\ AtEnd'
        BY <1>2, <2>5 DEF AtBlocks, AtEnd
      <4> QED
        BY <2>2, <4>3, <4>5, <4>6 DEF Ind
    <3>5. CASE Fresh
      <4>1. rx.state = "name" /\ rx.files = 0
        BY <3>5 DEF Fresh
      <4>2. TakeHeader(p)
        BY <1>2, <1>6, <3>3, <4>1 DEF Take, Whole
      <4>3. /\ rx' = [rx EXCEPT !.state = "open", !.want = 1, !.prompts = 0,
                                !.header = Header, !.files = rx.files + 1, !.content = <<>>]
            /\ back' = back \o <<"ACK", "C">>
        BY <1>3, <3>3, <4>2, Constants DEF TakeHeader, Answer, Receivers
      <4>4. back' \in Seq(Chars) /\ OneVerdict(back')
        BY <1>4, <2>3, <4>3
      <4>5. 1 \in Number /\ <<>> \in Seq(Range(File)) /\ Header \in {Header, LastHeader} /\ rx.files + 1 = 1
        BY <4>1, Constants DEF Number
      <4>6. rx' \in Receivers
        <5>1. ASSUME NEW w \in Number, NEW h \in {Header, LastHeader}, NEW k \in Nat, NEW c \in Seq(Range(File))
              PROVE  [rx EXCEPT !.state = "open", !.want = w, !.prompts = 0,
                                !.header = h, !.files = k, !.content = c] \in Receivers
          BY <1>3 DEF Receivers
        <5>2. rx.files + 1 \in Nat
          BY <4>5
        <5> QED
          BY <4>3, <4>5, <5>1, <5>2
      <4>7. HasHeader' /\ rx'.content = <<>>
        BY <1>3, <4>3, <4>5 DEF Receivers, HasHeader, OneFile
      <4>8. AtHeader'
        BY <1>2, <2>5, <3>1, <4>7 DEF AtHeader
      <4>9. AtBlocks' /\ AtEnd'
        BY <1>2, <2>5 DEF AtBlocks, AtEnd
      <4> QED
        BY <2>2, <4>4, <4>6, <4>8, <4>9 DEF Ind
    <3> QED
      BY <3>1, <3>4, <3>5
  <2>6. CASE pc = "file_ack"
    <3> DEFINE n == packetnum - 1
    <3>1. /\ packetnum > 1 /\ n \in Nat /\ n + 1 = packetnum
          /\ rest = SubSeq(File, Dealt + 1, Len(File))
          /\ p.type = "block" /\ p.num = n % Numbers
          /\ \/ rx.content = Held /\ Stage(packetnum)
             \/ Cut(rx.content \o p.payload, Len(File)) = Held /\ Stage(n)
      BY <1>3, <1>6, <2>1, <2>6 DEF Ind, AtBlocks, Gone
    <3>2. n % Numbers # packetnum % Numbers /\ ((n % Numbers) + 1) % Numbers = packetnum % Numbers
      <4>1. n \in Nat /\ n + 1 = packetnum /\ Numbers \in Nat /\ Numbers > 1
        BY <3>1, Constants
      <4> HIDE DEF n
      <4> QED
        BY <4>1, NextNumber
    <3> HIDE DEF n
    <3>3. CASE rx.content = Held /\ Stage(packetnum)
      <4>1. rx.want = packetnum % Numbers /\ rx.state \in {"open", "data"}
        BY <3>3 DEF Stage
      <4>2. Leave \/ (rx' = rx /\ \E ans \in Answers : back' = back \o ans)
        BY <1>2, <1>6, <2>3, <3>1, <3>2, <4>1 DEF Take, Whole, Answer
      <4>3. back' \in Seq(Chars) /\ OneVerdict(back') /\ rx' \in Receivers
        BY <1>3, <1>4, <2>4, <4>2
      <4>4. rx'.content = Held' /\ (Gone' \/ Stage(packetnum)')
        BY <1>2, <2>4, <3>3, <4>2 DEF Held, Dealt, Stage, OneFile
      <4>5. AtBlocks'
        BY <1>2, <2>6, <2>1, <3>1, <4>4 DEF AtBlocks, Dealt, n
      <4>6. AtHeader' /\ AtEnd'
        BY <1>2, <2>6 DEF AtHeader, AtEnd
      <4> QED
        BY <2>2, <4>3, <4>5, <4>6 DEF Ind
    <3>4. CASE Cut(rx.content \o p.payload, Len(File)) = Held /\ Stage(n)
      <4>1. rx.want = n % Numbers /\ rx.state \in {"open", "data"} /\ OneFile /\ rx.header.size = Len(File)
        BY <3>4 DEF Stage, OneFile, Header
      <4>2. /\ rx' = [rx EXCEPT !.state = "data", !.want = packetnum % Numbers, !.content = Held]
            /\ back' = back \o <<"ACK">>
        BY <1>2, <1>3, <1>6, <3>1, <3>2, <3>4, <4>1 DEF Take, Whole, Answer, Receivers
      <4>3. back' \in Seq(Chars) /\ OneVerdict(back')
        BY <1>4, <2>3, <4>2
      <4>4. packetnum % Numbers \in Number
        BY <1>3, Constants, Quotient DEF Number
      <4>5. Held \in Seq(Range(File))
        BY Constants DEF Held, Dealt, Ind, TypeOK
      <4>6. rx' \in Receivers
        BY <1>3, <4>2, <4>4, <4>5 DEF Receivers
      <4>7. rx'.content = Held' /\ Stage(packetnum)'
        BY <1>2, <1>3, <3>1, <4>1, <4>2 DEF Held, Dealt, Stage, OneFile, Receivers
      <4>8. AtBlocks'
        BY <1>2, <2>6, <2>1, <3>1, <4>7 DEF AtBlocks, Dealt, n
      <4>9. AtHeader' /\ AtEnd'
        BY <1>2, <2>6 DEF AtHeader, AtEnd
      <4> QED
        BY <2>2, <4>3, <4>6, <4>8, <4>9 DEF Ind
    <3> QED
      BY <3>1, <3>3, <3>4
  <2>7. CASE pc = "eot_ack"
    <3>1. sent = EOT /\ rest = <<>> /\ rx.content = File /\ OneFile
      BY <1>6, <2>7 DEF Ind, AtEnd, Gone
    <3>2. p.type = "eot"
      BY <2>1, <3>1 DEF EOT
    <3>3. /\ \/ rx' = rx /\ rx.state = "name"
             \/ rx' = [rx EXCEPT !.state = "name", !.prompts = 0]
          /\ back' = back \o <<"ACK", "C">>
      BY <1>2, <1>6, <3>2 DEF Take, Whole, Answer
    <3>4. back' \in Seq(Chars) /\ OneVerdict(back')
      BY <1>4, <2>3, <3>3
    <3>5. /\ rx' \in Receivers /\ rx'.state = "name" /\ rx'.content = rx.content
          /\ rx'.header = rx.header /\ rx'.files = rx.files
      <4>1. CASE rx' = rx /\ rx.state = "name"
        BY <1>3, <4>1
      <4>2. CASE rx' = [rx EXCEPT !.state = "name", !.prompts = 0]
        BY <1>3, <4>2 DEF Receivers
      <4> QED
        BY <3>3, <4>1, <4>2
    <3>6. AtEnd'
      BY <1>2, <2>7, <3>1, <3>5 DEF AtEnd, Gone, OneFile
    <3>7. AtHeader' /\ AtBlocks'
      BY <1>2, <2>7 DEF AtHeader, AtBlocks
    <3> QED
      BY <2>2, <3>4, <3>5, <3>6, <3>7 DEF Ind
  <2>8. CASE pc = "last_ack"
    <3>1. /\ sent = Packet(0, LastHeader) /\ rest = <<>> /\ rx.content = File /\ OneFile
          /\ rx.state = "name"
      BY <1>6, <2>8 DEF Ind, AtEnd, Gone
    <3>2. 0 % Numbers = 0
      BY Constants
    <3>3. p.type = "block" /\ p.num = 0 /\ p.payload = LastHeader
      BY <2>1, <3>1, <3>2 DEF Packet
    <3>4. rx' = [rx EXCEPT !.state = "closed"] /\ back' = back \o <<"ACK">>
      BY <1>2, <1>6, <3>1, <3>3 DEF Take, Whole, Answer, TakeHeader
    <3>5. back' \in Seq(Chars) /\ OneVerdict(back')
      BY <1>4, <2>3, <3>4
    <3>6. /\ rx' \in Receivers /\ rx'.state = "closed" /\ rx'.content = rx.content
          /\ rx'.header = rx.header /\ rx'.files = rx.files
      BY <1>3, <3>4 DEF Receivers
    <3>7. AtEnd'
      BY <1>2, <2>8, <3>1, <3>6 DEF AtEnd, Gone, OneFile
    <3>8. AtHeader' /\ AtBlocks'
      BY <1>2, <2>8 DEF AtHeader, AtBlocks
    <3> QED
      BY <2>2, <3>5, <3>6, <3>7, <3>8 DEF Ind
  <2> QED
    BY <1>3, <2>5, <2>6, <2>7, <2>8 DEF Acks
<1> QED
  BY <1>3, <1>5, <1>6 DEF Receivers

(* Nothing happens.                                                        *)
LEMMA Idle == ASSUME Ind, UNCHANGED vars PROVE Ind'
<1>1. UNCHANGED <<pc, packetnum, rest, sent, line, back, rx, faults>>
  BY DEF vars
<1>2. TypeOK' /\ UnderWay'
  BY <1>1 DEF Ind, TypeOK, UnderWay
<1>3. AtHeader'
  BY <1>1 DEF Ind, AtHeader, Gone, Fresh, HasHeader, OneFile
<1>4. AtBlocks'
  BY <1>1 DEF Ind, AtBlocks, Gone, Stage, OneFile, Held, Dealt
<1>5. AtEnd'
  BY <1>1 DEF Ind, AtEnd, Gone, OneFile
<1> QED
  BY <1>2, <1>3, <1>4, <1>5 DEF Ind

(* Every step keeps the invariant.                                         *)
LEMMA Steps == ASSUME Ind, [Next]_vars PROVE Ind'
<1>1. CASE Sender
  <2>1. ASSUME \/ WaitForC("wait_first", "first") \/ WaitForC("wait_file", "file")
               \/ WaitForC("wait_last", "last")
        PROVE  Ind'
    BY <2>1, AfterWait
  <2> QED
    BY <1>1, <2>1, AfterFirst, AfterBlock, AfterLast, AfterHeard DEF Sender
<1>2. CASE Receive
  BY <1>2, AfterReceive
<1>3. CASE Prompt
  BY <1>3, AfterPrompt
<1>4. CASE TimesOut
  BY <1>4, AfterTimeout
<1>5. CASE Cancel
  BY <1>5, AfterCancel
<1>6. CASE Fault
  BY <1>6, AfterFault
<1>7. CASE UNCHANGED vars
  BY <1>7, Idle
<1> QED
  BY <1>1, <1>2, <1>3, <1>4, <1>5, <1>6, <1>7 DEF Next

(* The invariant is stronger than the property.                            *)
LEMMA Holds == ASSUME Ind PROVE AckMeansHeld
<1>1. pc = "file" => rx.content = SubSeq(File, 1, Len(File) - Len(rest))
  BY DEF Ind, AtBlocks, Held, Dealt
<1>2. pc \in {"wait_last", "last", "last_ack", "done"} => rx.content = SubSeq(File, 1, Len(File) - Len(rest))
  BY Constants DEF Ind, AtEnd
<1>3. pc = "done" => rx.state = "closed" /\ rx.files = 1 /\ rx.header = Header
  BY DEF Ind, AtEnd, Gone, OneFile
<1> QED
  BY <1>1, <1>2, <1>3 DEF AckMeansHeld

(* AckMeansHeld for every file, block size, wrap of the block numbers and  *)
(* number of faults: an answer to one packet is never taken for the answer *)
(* to another, though the sender looks at no number and its own timeout    *)
(* sends nothing again (sb.c, SendPacket).                                 *)
THEOREM AcksAreEarned == Spec => []AckMeansHeld
<1>1. Init => Ind
  BY Starts
<1>2. Ind /\ [Next]_vars => Ind'
  BY Steps
<1>3. Ind => AckMeansHeld
  BY Holds
<1> QED
  BY <1>1, <1>2, <1>3, PTL DEF Spec
=============================================================================
