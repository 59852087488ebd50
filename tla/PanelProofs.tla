----------------------------- MODULE PanelProofs ----------------------------
(***************************************************************************)
(* The text fields and the chat panel of ChatPanel, for every set of       *)
(* characters, every text and chat, and every size of the panel.  What     *)
(* recursion computes is proved by taking the least place where it could   *)
(* be wrong.                                                               *)
(***************************************************************************)
EXTENDS ChatPanel, FiniteSetTheorems, SequenceTheorems, WellFoundedInduction, TLAPS

-----------------------------------------------------------------------------
(* Numbers.                                                                *)

LEMMA LeastOf ==
  ASSUME NEW S \in SUBSET Nat, S # {}
  PROVE  \E n \in S : \A m \in S : n <= m
<1>1. PICK n \in S : \A m \in S : <<m, n>> \notin OpToRel(<, Nat)
  BY WFMin, NatLessThanWellFounded, Zenon
<1>2. \A m \in S : ~(m < n)
  BY <1>1 DEF OpToRel
<1> QED
  BY <1>2

\* Induction up to a number.
LEMMA UpTo ==
  ASSUME NEW N \in Nat, NEW S, 0 \in S, \A n \in 0..N - 1 : n \in S => n + 1 \in S
  PROVE  \A n \in 0..N : n \in S
<1> DEFINE T == {n \in 0..N : n \notin S}
<1>1. SUFFICES ASSUME T # {} PROVE FALSE
  OBVIOUS
<1>2. T \in SUBSET Nat
  OBVIOUS
<1>3. PICK n \in T : \A m \in T : n <= m
  BY <1>1, <1>2, LeastOf
<1>4. n # 0 /\ n - 1 \in 0..N - 1
  BY <1>3
<1>5. n - 1 \in S
  BY <1>3, <1>4
<1> QED
  BY <1>3, <1>4, <1>5

LEMMA MaxOfTwo ==
  ASSUME NEW a \in Int, NEW b \in Int
  PROVE  Max({a, b}) = IF a >= b THEN a ELSE b
<1>1. \E x \in {a, b} : \A y \in {a, b} : x >= y
  OBVIOUS
<1>2. Max({a, b}) \in {a, b} /\ \A y \in {a, b} : Max({a, b}) >= y
  BY <1>1 DEF Max
<1> QED
  BY <1>2

LEMMA MinOfTwo ==
  ASSUME NEW a \in Int, NEW b \in Int
  PROVE  Min({a, b}) = IF a <= b THEN a ELSE b
<1>1. \E x \in {a, b} : \A y \in {a, b} : x <= y
  OBVIOUS
<1>2. Min({a, b}) \in {a, b} /\ \A y \in {a, b} : Min({a, b}) <= y
  BY <1>1 DEF Min
<1> QED
  BY <1>2

\* A set of numbers has one ascending order.
Ascends(s) == \A i, j \in DOMAIN s : i < j => s[i] < s[j]

LEMMA OneOrder ==
  ASSUME NEW n \in Nat, NEW S \in SUBSET Nat, NEW e \in [1..n -> S], Ascends(e),
         \A x \in S : \E i \in 1..n : e[i] = x
  PROVE  /\ Cardinality(S) = n
         /\ \A s \in [1..n -> S] : Ascends(s) => s = e
<1>1. \A f \in [1..n -> S] : Ascends(f) => f \in Injection(1..n, S)
  <2>1. ASSUME NEW f \in [1..n -> S], Ascends(f), NEW i \in 1..n, NEW j \in 1..n, f[i] = f[j]
        PROVE  i = j
    <3>1. f[i] \in Nat /\ DOMAIN f = 1..n
      BY <2>1
    <3>2. ~(i < j) /\ ~(j < i)
      BY <2>1, <3>1 DEF Ascends
    <3> QED
      BY <3>2
  <2> QED
    BY <2>1, Zenon DEF Injection, IsInjective
<1>2. e \in Bijection(1..n, S)
  BY <1>1 DEF Bijection, Surjection
<1>3. IsFiniteSet(S) /\ Cardinality(S) = n
  <2>1. IsFiniteSet(1..n) /\ Cardinality(1..n) = n
    BY FS_Interval
  <2>2. ExistsBijection(1..n, S)
    BY <1>2 DEF ExistsBijection
  <2> QED
    BY <2>1, <2>2, FS_Bijection
<1>4. ASSUME NEW s \in [1..n -> S], Ascends(s) PROVE s = e
  <2>1. \A x \in S : \E i \in 1..n : s[i] = x
    <3>1. s \in Injection(1..n, S)
      BY <1>1, <1>4
    <3>2. Cardinality(1..n) = n
      BY FS_Interval
    <3>3. s \in Surjection(1..n, S)
      BY <1>3, <3>1, <3>2, FS_Injection
    <3> QED
      BY <3>3 DEF Surjection
  <2> DEFINE D == {i \in 1..n : s[i] # e[i]}
  <2>2. CASE D = {}
    BY <2>2
  <2>3. CASE D # {}
    <3>0. D \in SUBSET Nat
      OBVIOUS
    <3>1. PICK i \in D : \A j \in D : i <= j
      BY <2>3, <3>0, LeastOf
    <3>2. PICK j \in 1..n : e[j] = s[i]
      OBVIOUS
    <3>3. PICK k \in 1..n : s[k] = e[i]
      BY <2>1
    <3>4. \A l \in 1..n : l < i => s[l] = e[l]
      BY <3>1
    <3>5. e[j] \in Nat /\ e[i] \in Nat
      OBVIOUS
    <3>6. j > i
      BY <1>4, <3>1, <3>2, <3>4, <3>5 DEF Ascends
    <3>7. k > i
      BY <3>1, <3>3, <3>4, <3>5 DEF Ascends
    <3>8. e[i] < e[j] /\ s[i] < s[k]
      BY <1>4, <3>6, <3>7 DEF Ascends
    <3> QED
      BY <3>2, <3>3, <3>5, <3>8
  <2> QED
    BY <2>2, <2>3
<1> QED
  BY <1>3, <1>4
-----------------------------------------------------------------------------
(* Texts and their bytes.                                                  *)

Byte == (1..4) \X (1..4)

\* t is the bytes of chars; st[i] of them are those of the first i.
EncodesAt(t, chars, st) ==
  /\ chars \in Seq(1..4) /\ t \in Seq(Byte)
  /\ st \in [0..Len(chars) -> Nat] /\ st[0] = 0 /\ Len(t) = st[Len(chars)]
  /\ \A i \in 1..Len(chars) :
       /\ st[i] = st[i - 1] + chars[i]
       /\ \A k \in 1..chars[i] : t[st[i - 1] + k] = <<chars[i], k>>

Encodes(t, chars) == \E st : EncodesAt(t, chars, st)

\* The bytes of a character come before those of the next.
LEMMA PlacesAscend ==
  ASSUME NEW t, NEW chars, NEW st, EncodesAt(t, chars, st),
         NEW i \in 0..Len(chars) - 1, NEW j \in i + 1..Len(chars)
  PROVE  st[i + 1] <= st[j]
<1> DEFINE n == Len(chars)
           S == {m \in Nat : m <= i \/ st[i + 1] <= st[m]}
<1>1. /\ n \in Nat /\ st \in [0..n -> Nat]
      /\ \A m \in 1..n : chars[m] \in 1..4 /\ st[m] = st[m - 1] + chars[m]
  BY DEF EncodesAt
<1> HIDE DEF n
<1>2. 0 \in S
  BY DEF n
<1>3. ASSUME NEW m \in 0..n - 1, m \in S PROVE m + 1 \in S
  <2>1. m + 1 \in 1..n /\ st[m + 1] = st[m] + chars[m + 1] /\ st[m] \in Nat /\ st[m + 1] \in Nat
        /\ chars[m + 1] \in 1..4
    BY <1>1
  <2>2. st[i + 1] \in Nat
    BY <1>1 DEF n
  <2> QED
    BY <1>3, <2>1, <2>2 DEF n
<1>4. \A m \in 0..n : m \in S
  <2> HIDE DEF S
  <2> QED
    BY <1>1, <1>2, <1>3, UpTo
<1> QED
  BY <1>1, <1>4 DEF n

\* What EncodesAt says of n characters.
Laid(t, chars, st, n) ==
  /\ n \in Nat /\ chars \in [1..n -> 1..4] /\ chars \in Seq(1..4)
  /\ t \in Seq(Byte) /\ Len(t) \in Nat /\ DOMAIN t = 1..Len(t)
  /\ st \in [0..n -> Nat] /\ st[0] = 0 /\ Len(t) = st[n]
  /\ \A i \in 1..n : st[i] = st[i - 1] + chars[i]
  /\ \A i \in 1..n : \A k \in 1..chars[i] : t[st[i - 1] + k] = <<chars[i], k>>
  /\ \A i, j \in 0..n : i < j => st[i] < st[j]
  /\ \A i, j \in 0..n : i <= j => st[i] <= st[j]
  /\ \A i \in 0..n : st[i] <= Len(t)

LEMMA Places ==
  ASSUME NEW t, NEW chars, NEW st, EncodesAt(t, chars, st), NEW n, n = Len(chars)
  PROVE  Laid(t, chars, st, n)
<1>1. /\ chars \in Seq(1..4) /\ t \in Seq(Byte)
      /\ st \in [0..n -> Nat] /\ st[0] = 0 /\ Len(t) = st[n]
      /\ \A i \in 1..n : st[i] = st[i - 1] + chars[i]
      /\ \A i \in 1..n : \A k \in 1..chars[i] : t[st[i - 1] + k] = <<chars[i], k>>
  BY Zenon DEF EncodesAt
<1>2. n \in Nat /\ chars \in [1..n -> 1..4] /\ Len(t) \in Nat /\ DOMAIN t = 1..Len(t)
  BY <1>1
<1>3. ASSUME NEW i \in 0..n, NEW j \in 0..n, i < j PROVE st[i] < st[j]
  <2>1. i \in 0..Len(chars) - 1 /\ j \in i + 1..Len(chars)
    BY <1>2, <1>3
  <2>2. st[i + 1] <= st[j]
    BY <2>1, PlacesAscend
  <2>3. i + 1 \in 1..n /\ (i + 1) - 1 = i
    BY <1>2, <1>3
  <2>4. st[i + 1] = st[i] + chars[i + 1]
    BY <1>1, <2>3
  <2>5. chars[i + 1] \in 1..4 /\ st[i] \in Nat /\ st[j] \in Nat
    BY <1>1, <1>2, <2>3
  <2> QED
    BY <2>2, <2>4, <2>5
<1>4. ASSUME NEW i \in 0..n, NEW j \in 0..n, i <= j PROVE st[i] <= st[j]
  <2>1. i = j \/ st[i] < st[j]
    BY <1>2, <1>3, <1>4
  <2>2. st[i] \in Nat /\ st[j] \in Nat
    BY <1>1
  <2> QED
    BY <2>1, <2>2
<1>5. ASSUME NEW i \in 0..n PROVE st[i] <= Len(t)
  BY <1>1, <1>2, <1>4
<1> QED
  BY <1>1, <1>2, <1>3, <1>4, <1>5 DEF Laid

LEMMA Encoding ==
  ASSUME NEW c, NEW d \in Seq(1..4), c = Len(d), NEW u \in Seq(Byte), NEW r \in [0..c -> Nat],
         r[0] = 0, r[c] = Len(u),
         \A i \in 1..c : /\ r[i] = r[i - 1] + d[i]
                         /\ \A k \in 1..d[i] : u[r[i - 1] + k] = <<d[i], k>>
  PROVE  Encodes(u, d)
<1>1. EncodesAt(u, d, r)
  BY Zenon DEF EncodesAt
<1> QED
  BY <1>1 DEF Encodes

\* Every byte belongs to a character.
Tiled(t, chars, st, n) ==
  \A p \in 1..Len(t) : \E i \in 1..n : \E k \in 1..chars[i] : p = st[i - 1] + k

LEMMA EveryByte ==
  ASSUME NEW t, NEW chars, NEW st, EncodesAt(t, chars, st), NEW n, n = Len(chars)
  PROVE  Tiled(t, chars, st, n)
<1> SUFFICES ASSUME NEW p \in 1..Len(t)
             PROVE  \E i \in 1..n : \E k \in 1..chars[i] : p = st[i - 1] + k
  BY DEF Tiled
<1>1. /\ n \in Nat /\ chars \in [1..n -> 1..4] /\ Len(t) \in Nat
      /\ st \in [0..n -> Nat] /\ st[0] = 0 /\ Len(t) = st[n]
      /\ \A i \in 1..n : st[i] = st[i - 1] + chars[i]
  <2>1. Laid(t, chars, st, n)
    BY Places
  <2> QED
    BY <2>1, Zenon DEF Laid
<1> DEFINE S == {j \in 0..n : st[j] >= p}
<1>2. n \in S /\ S \in SUBSET Nat
  BY <1>1
<1>3. PICK j \in S : \A m \in S : j <= m
  BY <1>2, LeastOf
<1>4. j # 0 /\ j \in 1..n
  BY <1>1, <1>3
<1>5. j - 1 \in 0..n /\ ~(st[j - 1] >= p) /\ st[j - 1] \in Nat
  BY <1>1, <1>3, <1>4
<1>6. st[j] >= p /\ st[j] = st[j - 1] + chars[j] /\ chars[j] \in 1..4
  BY <1>1, <1>3, <1>4
<1>7. p - st[j - 1] \in 1..chars[j] /\ p = st[j - 1] + (p - st[j - 1])
  BY <1>5, <1>6
<1> QED
  BY <1>4, <1>7

\* Reading the text gives the characters, and byte_at where they begin.
LEMMA Decoded ==
  ASSUME NEW chars, NEW st, EncodesAt(text, chars, st), NEW n, n = Len(chars)
  PROVE  /\ Len(Content) = n /\ Content = chars
         /\ \A c \in 0..n : ByteAt(c) = st[c]
<1>1. /\ n \in Nat /\ chars \in [1..n -> 1..4] /\ chars \in Seq(1..4)
      /\ Len(text) \in Nat /\ DOMAIN text = 1..Len(text)
      /\ st \in [0..n -> Nat] /\ st[0] = 0 /\ Len(text) = st[n]
      /\ \A i \in 1..n : st[i] = st[i - 1] + chars[i]
      /\ \A i \in 1..n : \A k \in 1..chars[i] : text[st[i - 1] + k] = <<chars[i], k>>
      /\ \A i, j \in 0..n : i < j => st[i] < st[j]
      /\ \A i \in 0..n : st[i] <= Len(text)
  <2>1. Laid(text, chars, st, n)
    BY Places, Zenon
  <2> QED
    BY <2>1, Zenon DEF Laid
<1>0. Tiled(text, chars, st, n)
  BY EveryByte, Zenon
<1> DEFINE first == {i \in DOMAIN text : text[i][2] = 1}
           e     == [i \in 1..n |-> st[i - 1] + 1]
<1>2. ASSUME NEW i \in 1..n PROVE e[i] \in first /\ text[e[i]][1] = chars[i] /\ e[i] = st[i - 1] + 1
  <2>1. e[i] = st[i - 1] + 1 /\ st[i - 1] \in Nat /\ st[i] = st[i - 1] + chars[i] /\ chars[i] \in 1..4
        /\ st[i] <= Len(text)
    BY <1>1
  <2>2. e[i] \in 1..Len(text)
    BY <1>1, <2>1
  <2>3. text[st[i - 1] + 1] = <<chars[i], 1>>
    BY <1>1, <2>1
  <2> QED
    BY <1>1, <2>1, <2>2, <2>3
<1>3. ASSUME NEW p \in first PROVE \E i \in 1..n : e[i] = p
  <2>1. p \in 1..Len(text) /\ text[p][2] = 1
    BY <1>1
  <2>2. PICK i \in 1..n : \E k \in 1..chars[i] : p = st[i - 1] + k
    BY <1>0, <2>1 DEF Tiled
  <2>3. PICK k \in 1..chars[i] : p = st[i - 1] + k
    BY <2>2
  <2>5. text[p] = <<chars[i], k>>
    BY <1>1, <2>3
  <2>6. k = 1
    BY <2>1, <2>5
  <2> QED
    BY <2>3, <2>6
<1>4. e \in [1..n -> first] /\ first \in SUBSET Nat
  BY <1>1, <1>2
<1>5. Ascends(e)
  <2>1. ASSUME NEW i \in 1..n, NEW j \in 1..n, i < j PROVE e[i] < e[j]
    <3>1. i - 1 \in 0..n /\ j - 1 \in 0..n /\ i - 1 < j - 1
      BY <1>1, <2>1
    <3>2. st[i - 1] < st[j - 1] /\ st[i - 1] \in Nat /\ st[j - 1] \in Nat
      BY <1>1, <3>1
    <3> QED
      BY <3>2
  <2> QED
    BY <2>1 DEF Ascends
<1> HIDE DEF first, e
<1>6. Cardinality(first) = n /\ \A s \in [1..n -> first] : Ascends(s) => s = e
  BY <1>1, <1>3, <1>4, <1>5, OneOrder
<1>7. Starts = e
  <2>1. Starts = CHOOSE s \in [1..Cardinality(first) -> first] : Ascends(s)
    BY Zenon DEF Starts, first, Ascends
  <2> QED
    BY <1>4, <1>5, <1>6, <2>1
<1>8. Content = chars
  <2>1. DOMAIN e = 1..n
    BY <1>4
  <2>2. Content = [i \in 1..n |-> text[e[i]][1]]
    BY <1>7, <2>1, Zenon DEF Content
  <2> QED
    BY <1>1, <1>2, <2>2
<1>9. ASSUME NEW c \in 0..n PROVE ByteAt(c) = st[c]
  <2>1. Len(Starts) = n
    BY <1>1, <1>4, <1>7
  <2>2. CASE c < n
    <3>1. c + 1 \in 1..n /\ Starts[c + 1] = st[c] + 1 /\ st[c] \in Nat
      BY <1>1, <1>2, <1>7, <2>2
    <3> QED
      BY <2>1, <2>2, <3>1 DEF ByteAt
  <2>3. CASE c = n
    BY <1>1, <2>1, <2>3 DEF ByteAt
  <2> QED
    BY <1>1, <2>2, <2>3
<1> QED
  BY <1>1, <1>8, <1>9

\* A text is cut at the beginning of a character.
LEMMA Before ==
  ASSUME NEW t, NEW chars, NEW st, EncodesAt(t, chars, st), NEW c \in 0..Len(chars)
  PROVE  Encodes(SubSeq(t, 1, st[c]), SubSeq(chars, 1, c))
<1> DEFINE n == Len(chars)
           u == SubSeq(t, 1, st[c])
           d == SubSeq(chars, 1, c)
           r == [i \in 0..c |-> st[i]]
<1>1. Laid(t, chars, st, n) /\ c \in 0..n
  BY Places
<1> HIDE DEF n
<1>2. /\ n \in Nat /\ st \in [0..n -> Nat] /\ st[0] = 0 /\ st[c] <= Len(t) /\ st[c] \in Nat
      /\ \A i \in 1..n : st[i] = st[i - 1] + chars[i] /\ chars[i] \in 1..4
      /\ \A i, j \in 0..n : i <= j => st[i] <= st[j]
      /\ \A i \in 1..n : \A k \in 1..chars[i] : t[st[i - 1] + k] = <<chars[i], k>>
      /\ c \in Nat /\ c <= n
  <2>1. n \in Nat /\ st \in [0..n -> Nat] /\ chars \in [1..n -> 1..4]
    BY <1>1, Zenon DEF Laid
  <2>2. c \in Nat /\ c <= n
    BY <1>1, <2>1
  <2>3. \A i \in 1..n : st[i] = st[i - 1] + chars[i] /\ chars[i] \in 1..4
    BY <1>1, <2>1, Zenon DEF Laid
  <2> QED
    BY <1>1, <2>1, <2>2, <2>3, Zenon DEF Laid
<1>3. d \in Seq(1..4) /\ Len(d) = c /\ \A i \in 1..c : d[i] = chars[i]
  <2>1. chars \in Seq(1..4) /\ c <= Len(chars) /\ c \in Nat
    BY <1>1 DEF Laid, n
  <2> QED
    BY <2>1
<1>4. u \in Seq(Byte) /\ Len(u) = st[c] /\ \A p \in 1..st[c] : u[p] = t[p]
  BY <1>1, <1>2 DEF Laid
<1>5. r \in [0..c -> Nat] /\ r[0] = 0 /\ r[c] = st[c] /\ c \in Nat
  BY <1>1, <1>2
<1>6. ASSUME NEW i \in 1..c
      PROVE  /\ r[i] = r[i - 1] + d[i]
             /\ \A k \in 1..d[i] : u[r[i - 1] + k] = <<d[i], k>>
  <2> HIDE DEF u, d
  <2>1. i \in 1..n /\ i - 1 \in 0..n /\ i - 1 \in 0..c /\ i \in 0..c /\ c \in 0..n /\ i <= c /\ i \in 0..n
    BY <1>2
  <2>2. st[i] = st[i - 1] + chars[i] /\ chars[i] \in 1..4 /\ st[i - 1] \in Nat /\ st[i] \in Nat
    BY <1>2, <2>1
  <2>3. st[i] <= st[c]
    BY <1>2, <2>1
  <2>4. ASSUME NEW k \in 1..chars[i] PROVE u[st[i - 1] + k] = <<chars[i], k>>
    <3>1. st[i - 1] + k \in 1..st[c]
      <4>1. st[c] \in Nat /\ k \in Nat /\ 1 <= k /\ k <= chars[i]
        BY <1>2, <2>2
      <4> QED
        BY <2>2, <2>3, <4>1
    <3>2. t[st[i - 1] + k] = <<chars[i], k>>
      BY <1>2, <2>1
    <3> QED
      BY <1>4, <3>1, <3>2
  <2> QED
    BY <1>3, <2>1, <2>2, <2>4
<1> HIDE DEF u, d, r
<1>7. c = Len(d) /\ r[c] = Len(u)
  BY <1>3, <1>4, <1>5
<1>8. Encodes(u, d)
  BY <1>3, <1>4, <1>5, <1>6, <1>7, Encoding
<1> QED
  BY <1>8 DEF u, d

LEMMA After ==
  ASSUME NEW t, NEW chars, NEW st, EncodesAt(t, chars, st), NEW c \in 0..Len(chars)
  PROVE  Encodes(SubSeq(t, st[c] + 1, Len(t)), SubSeq(chars, c + 1, Len(chars)))
<1> DEFINE n == Len(chars)
           m == n - c
           u == SubSeq(t, st[c] + 1, Len(t))
           d == SubSeq(chars, c + 1, n)
           r == [i \in 0..m |-> st[c + i] - st[c]]
<1>1. Laid(t, chars, st, n) /\ c \in 0..n
  BY Places
<1> HIDE DEF n
<1>2. /\ n \in Nat /\ st \in [0..n -> Nat] /\ st[c] <= Len(t) /\ st[c] \in Nat
      /\ \A i \in 1..n : st[i] = st[i - 1] + chars[i] /\ chars[i] \in 1..4
      /\ \A i, j \in 0..n : i <= j => st[i] <= st[j]
      /\ \A i \in 0..n : st[i] <= Len(t)
      /\ \A i \in 1..n : \A k \in 1..chars[i] : t[st[i - 1] + k] = <<chars[i], k>>
      /\ c \in Nat /\ c <= n
      /\ Len(t) \in Nat /\ Len(t) = st[n] /\ m \in Nat
  <2>1. n \in Nat /\ st \in [0..n -> Nat] /\ chars \in [1..n -> 1..4]
    BY <1>1, Zenon DEF Laid
  <2>2. c \in Nat /\ c <= n /\ m \in Nat
    BY <1>1, <2>1
  <2>3. \A i \in 1..n : st[i] = st[i - 1] + chars[i] /\ chars[i] \in 1..4
    BY <1>1, <2>1, Zenon DEF Laid
  <2> HIDE DEF m
  <2> QED
    BY <1>1, <2>1, <2>2, <2>3, Zenon DEF Laid
<1>3. d \in Seq(1..4) /\ Len(d) = m /\ \A i \in 1..m : d[i] = chars[c + i]
  <2>1. chars \in Seq(1..4) /\ c <= Len(chars) /\ c \in Nat /\ n = Len(chars)
    BY <1>1 DEF Laid, n
  <2> QED
    BY <2>1
<1>4. u \in Seq(Byte) /\ Len(u) = Len(t) - st[c] /\ \A p \in 1..Len(t) - st[c] : u[p] = t[st[c] + p]
  <2>1. t \in Seq(Byte) /\ st[c] \in Nat /\ st[c] <= Len(t)
    BY <1>1, <1>2, Zenon DEF Laid
  <2> QED
    BY <2>1
<1>5. ASSUME NEW i \in 0..m PROVE r[i] \in Nat /\ r[i] = st[c + i] - st[c] /\ c + i \in 0..n
  <2>1. c + i \in 0..n /\ c \in 0..n /\ c <= c + i
    BY <1>2
  <2>2. st[c + i] \in Nat /\ st[c] <= st[c + i]
    BY <1>2, <2>1
  <2> QED
    BY <1>2, <2>1, <2>2
<1>6. r \in [0..m -> Nat] /\ r[0] = 0 /\ r[m] = Len(u)
  <2>1. r \in [0..m -> Nat]
    BY <1>5
  <2>2. 0 \in 0..m /\ m \in 0..m /\ c + 0 = c /\ c + m = n
    BY <1>2
  <2>3. r[0] = st[c + 0] - st[c] /\ r[m] = st[c + m] - st[c]
    BY <1>5, <2>2
  <2> HIDE DEF r, m, u
  <2> QED
    BY <1>2, <1>4, <2>1, <2>2, <2>3
<1>7. ASSUME NEW i \in 1..m
      PROVE  /\ r[i] = r[i - 1] + d[i]
             /\ \A k \in 1..d[i] : u[r[i - 1] + k] = <<d[i], k>>
  <2>1. c + i \in 1..n /\ i - 1 \in 0..m /\ i \in 0..m /\ c + (i - 1) = (c + i) - 1
        /\ (c + i) - 1 \in 0..n /\ c + i \in 0..n
    BY <1>2
  <2>2. /\ st[c + i] = st[(c + i) - 1] + chars[c + i] /\ chars[c + i] \in 1..4
        /\ st[(c + i) - 1] \in Nat /\ st[c + i] \in Nat /\ st[c + i] <= Len(t)
    BY <1>2, <2>1
  <2>3. r[i] = st[c + i] - st[c] /\ r[i - 1] = st[(c + i) - 1] - st[c] /\ r[i - 1] \in Nat
    BY <1>5, <2>1
  <2> HIDE DEF u, d, r, m
  <2> DEFINE A == st[c]   P == st[(c + i) - 1]   H == chars[c + i]   R == r[i - 1]
             B == st[c + i]   L == Len(t)
  <2>4. /\ A \in Nat /\ B \in Nat /\ P \in Nat /\ H \in 1..4 /\ L \in Nat /\ R \in Nat
        /\ B = P + H /\ B <= L /\ R = P - A /\ r[i] = B - A
    BY <1>2, <2>2, <2>3
  <2>5. d[i] = H
    BY <1>3
  <2>6. \A k \in 1..H : t[P + k] = <<H, k>>
    BY <1>2, <2>1
  <2>7. \A q \in 1..L - A : u[q] = t[A + q]
    BY <1>4
  <2>8. r[i - 1] = R
    OBVIOUS
  <2> HIDE DEF A, P, H, R, B, L
  <2>9. r[i] = R + H
    BY <2>4
  <2>10. ASSUME NEW k \in 1..H PROVE u[R + k] = <<H, k>>
    <3>1. R + k \in 1..L - A /\ A + (R + k) = P + k
      BY <2>4
    <3> QED
      BY <2>6, <2>7, <3>1
  <2> QED
    BY <2>5, <2>8, <2>9, <2>10
<1>8. d = SubSeq(chars, c + 1, Len(chars))
  BY DEF n
<1> HIDE DEF u, d, r, m
<1>9. Encodes(u, d)
  BY <1>3, <1>4, <1>6, <1>7, Encoding
<1> QED
  BY <1>8, <1>9 DEF u

\* The bytes of one character.
Bytes(c) == [k \in 1..c |-> <<c, k>>]

LEMMA BytesOfOne ==
  ASSUME NEW c \in 1..4
  PROVE  Bytes(c) \in Seq(Byte) /\ Len(Bytes(c)) = c /\ \A k \in 1..c : Bytes(c)[k] = <<c, k>>
<1>1. \A k \in 1..c : <<c, k>> \in Byte
  BY DEF Byte
<1>2. Bytes(c) \in [1..c -> Byte]
  BY <1>1 DEF Bytes
<1>3. c \in Nat
  OBVIOUS
<1> QED
  BY <1>2, <1>3 DEF Bytes

LEMMA Piece ==
  ASSUME NEW t \in Seq(Byte), NEW a \in Nat, NEW c \in 1..4, a + c <= Len(t),
         \A k \in 1..c : t[a + k] = <<c, k>>
  PROVE  SubSeq(t, 1, a + c) = SubSeq(t, 1, a) \o Bytes(c)
<1> DEFINE f == Bytes(c)   u == SubSeq(t, 1, a)   v == SubSeq(t, 1, a + c)
<1>1. f \in Seq(Byte) /\ Len(f) = c /\ \A k \in 1..c : f[k] = <<c, k>>
  BY BytesOfOne
<1>2. u \in Seq(Byte) /\ Len(u) = a /\ \A p \in 1..a : u[p] = t[p]
  OBVIOUS
<1>3. v \in Seq(Byte) /\ Len(v) = a + c /\ \A p \in 1..a + c : v[p] = t[p]
  OBVIOUS
<1> HIDE DEF f, u, v
<1>4. /\ u \o f \in Seq(Byte) /\ Len(u \o f) = a + c
      /\ \A p \in 1..a + c : (u \o f)[p] = IF p <= a THEN u[p] ELSE f[p - a]
  BY <1>1, <1>2
<1>5. ASSUME NEW p \in 1..a + c PROVE v[p] = (u \o f)[p]
  <2>1. CASE p <= a
    <3>1. p \in 1..a
      BY <2>1
    <3>2. (u \o f)[p] = u[p]
      BY <1>4, <2>1
    <3> QED
      BY <1>2, <1>3, <3>1, <3>2
  <2>2. CASE ~(p <= a)
    <3>1. p - a \in 1..c /\ a + (p - a) = p
      BY <2>2
    <3> QED
      BY <1>1, <1>3, <1>4, <2>2, <3>1
  <2> QED
    BY <2>1, <2>2
<1>6. v = u \o f
  BY <1>3, <1>4, <1>5, SeqEqual
<1> QED
  BY <1>6 DEF u, v, f

\* Utf8 gives the bytes of the characters.
LEMMA Utf8Encodes ==
  ASSUME NEW t, NEW chars, NEW st, EncodesAt(t, chars, st)
  PROVE  Utf8(chars) = t
<1> DEFINE n == Len(chars)
           S == [i \in DOMAIN chars |-> Bytes(chars[i])]
           h == [i \in 1..n |-> SubSeq(t, 1, st[i])]
<1>1. Laid(t, chars, st, n)
  BY Places
<1>2. Utf8(chars) = FlattenSeq(S)
  BY Zenon DEF Utf8, Bytes
<1>3. DOMAIN chars = 1..n /\ n \in Nat /\ t \in Seq(Byte)
  BY <1>1 DEF Laid
<1>4. S \in [1..n -> Seq(Byte)] /\ Len(S) = n /\ S \in Seq(Seq(Byte))
  <2>1. chars \in [1..n -> 1..4]
    BY <1>1, Zenon DEF Laid
  <2>2. S \in [1..n -> Seq(Byte)]
    BY <1>3, <2>1, BytesOfOne
  <2> QED
    BY <1>3, <2>2
<1>5. CASE n = 0
  <2>1. FlattenSeq(S) = S
    BY <1>4, <1>5, Zenon DEF FlattenSeq
  <2>2. Len(t) = 0
    BY <1>1, <1>5 DEF Laid
  <2>3. S = <<>> /\ t = <<>>
    BY <1>3, <1>4, <1>5, <2>2, EmptySeq
  <2> QED
    BY <1>2, <2>1, <2>3
<1>6. CASE n # 0
  <2> HIDE DEF n, S, h
  <2>1. ASSUME NEW i \in 1..n
        PROVE  h[i] = IF i = 1 THEN S[i] ELSE h[i - 1] \o S[i]
    <3>1. /\ st[i] = st[i - 1] + chars[i] /\ chars[i] \in 1..4 /\ st[i - 1] \in Nat
          /\ st[i] <= Len(t) /\ \A k \in 1..chars[i] : t[st[i - 1] + k] = <<chars[i], k>>
          /\ st[0] = 0
      <4>1. i \in 0..n /\ i - 1 \in 0..n
        BY <1>3
      <4>2. st \in [0..n -> Nat] /\ chars \in [1..n -> 1..4]
        BY <1>1, Zenon DEF Laid
      <4> QED
        BY <1>1, <4>1, <4>2, Zenon DEF Laid
    <3>2. SubSeq(t, 1, st[i]) = SubSeq(t, 1, st[i - 1]) \o Bytes(chars[i])
      BY <1>3, <3>1, Piece
    <3>3. S[i] = Bytes(chars[i]) /\ h[i] = SubSeq(t, 1, st[i])
      BY <1>3 DEF S, h
    <3>4. CASE i = 1
      <4>1. SubSeq(t, 1, 0) = <<>>
        BY <1>3
      <4>2. Bytes(chars[i]) \in Seq(Byte)
        BY <3>1, BytesOfOne
      <4>3. <<>> \o Bytes(chars[i]) = Bytes(chars[i])
        BY <4>2
      <4>4. st[i - 1] = 0
        BY <3>1, <3>4
      <4> QED
        BY <3>2, <3>3, <3>4, <4>1, <4>3, <4>4
    <3>5. CASE i # 1
      <4>1. i - 1 \in 1..n
        BY <1>3, <3>5
      <4>2. h[i - 1] = SubSeq(t, 1, st[i - 1])
        BY <4>1 DEF h
      <4> QED
        BY <3>2, <3>3, <3>5, <4>2
    <3> QED
      BY <3>4, <3>5
  <2>2. h = [i \in 1..n |-> IF i = 1 THEN S[i] ELSE h[i - 1] \o S[i]]
    <3>1. h = [i \in 1..n |-> h[i]]
      BY DEF h
    <3> QED
      BY <2>1, <3>1
  <2>3. ASSUME NEW g, g = [i \in 1..n |-> IF i = 1 THEN S[i] ELSE g[i - 1] \o S[i]]
        PROVE  g = h
    <3> DEFINE D == {i \in 1..n : g[i] # h[i]}
    <3>1. CASE D = {}
      <4>1. g = [i \in 1..n |-> g[i]] /\ h = [i \in 1..n |-> h[i]]
        BY <2>2, <2>3
      <4> QED
        BY <3>1, <4>1
    <3>2. CASE D # {}
      <4>1. D \in SUBSET Nat
        OBVIOUS
      <4>2. PICK i \in D : \A j \in D : i <= j
        BY <3>2, <4>1, LeastOf
      <4>3. g[i] = IF i = 1 THEN S[i] ELSE g[i - 1] \o S[i]
        BY <2>3
      <4>4. i # 1 => i - 1 \in 1..n /\ g[i - 1] = h[i - 1]
        BY <1>3, <4>2
      <4> QED
        BY <2>1, <4>2, <4>3, <4>4
    <3> QED
      BY <3>1, <3>2
  <2>4. FlattenSeq(S) = h[n]
    BY <1>4, <1>6, <2>2, <2>3, Zenon DEF FlattenSeq
  <2>5. h[n] = SubSeq(t, 1, Len(t))
    BY <1>1, <1>3, <1>6 DEF h, Laid
  <2>6. SubSeq(t, 1, Len(t)) = t
    BY <1>3
  <2> QED
    BY <1>2, <2>4, <2>5, <2>6
<1> QED
  BY <1>5, <1>6

\* A character, and a text after a text.
LEMMA One ==
  ASSUME NEW c \in 1..4
  PROVE  Encodes(Bytes(c), <<c>>)
<1> DEFINE r == [i \in 0..1 |-> IF i = 0 THEN 0 ELSE c]
           d == <<c>>
           u == Bytes(c)
<1>1. d \in Seq(1..4) /\ 1 = Len(d) /\ d[1] = c
  OBVIOUS
<1>2. u \in Seq(Byte) /\ Len(u) = c /\ \A k \in 1..c : u[k] = <<c, k>>
  BY BytesOfOne
<1>3. r \in [0..1 -> Nat] /\ r[0] = 0 /\ r[1] = c
  OBVIOUS
<1> HIDE DEF r, d, u
<1>4. ASSUME NEW i \in 1..1
      PROVE  r[i] = r[i - 1] + d[i] /\ \A k \in 1..d[i] : u[r[i - 1] + k] = <<d[i], k>>
  <2>1. i = 1 /\ i - 1 = 0
    OBVIOUS
  <2>2. \A k \in 1..c : 0 + k = k
    OBVIOUS
  <2> QED
    BY <1>1, <1>2, <1>3, <2>1, <2>2
<1>5. r[1] = Len(u)
  BY <1>2, <1>3
<1>6. Encodes(u, d)
  BY <1>1, <1>2, <1>3, <1>4, <1>5, Encoding
<1> QED
  BY <1>6 DEF u, d

LEMMA Join ==
  ASSUME NEW t, NEW chars, Encodes(t, chars), NEW v, NEW more, Encodes(v, more)
  PROVE  Encodes(t \o v, chars \o more)
<1>1. PICK st : EncodesAt(t, chars, st)
  BY DEF Encodes
<1>2. PICK sv : EncodesAt(v, more, sv)
  BY DEF Encodes
<1> DEFINE n == Len(chars)
           m == Len(more)
           l == Len(t)
           u == t \o v
           d == chars \o more
           r == [i \in 0..n + m |-> IF i <= n THEN st[i] ELSE l + sv[i - n]]
<1>3. Laid(t, chars, st, n) /\ Laid(v, more, sv, m)
  BY <1>1, <1>2, Places
<1>4. /\ n \in Nat /\ m \in Nat /\ l \in Nat /\ t \in Seq(Byte) /\ v \in Seq(Byte)
      /\ chars \in Seq(1..4) /\ more \in Seq(1..4)
      /\ st[0] = 0 /\ st[n] = l /\ sv[0] = 0 /\ sv[m] = Len(v)
      /\ st \in [0..n -> Nat] /\ sv \in [0..m -> Nat]
      /\ chars \in [1..n -> 1..4] /\ more \in [1..m -> 1..4]
  <2> HIDE DEF n, m
  <2> QED
    BY <1>3, Zenon DEF Laid, l
<1>5. d \in Seq(1..4) /\ n + m = Len(d) /\ (\A i \in 1..n : d[i] = chars[i])
      /\ \A i \in n + 1..n + m : d[i] = more[i - n]
  BY <1>4
<1>6. u \in Seq(Byte) /\ Len(u) = l + Len(v) /\ (\A p \in 1..l : u[p] = t[p])
      /\ \A p \in 1..Len(v) : u[l + p] = v[p]
  <2>1. Len(v) \in Nat
    BY <1>4
  <2> QED
    BY <1>4, <2>1
<1> HIDE DEF n, m, l, u, d
<1>7. (\A i \in 0..n : r[i] = st[i]) /\ (\A i \in n + 1..n + m : r[i] = l + sv[i - n])
  BY <1>4
<1>8. r \in [0..n + m -> Nat] /\ r[0] = 0 /\ r[n + m] = Len(u)
  <2>1. ASSUME NEW i \in 0..n + m PROVE (IF i <= n THEN st[i] ELSE l + sv[i - n]) \in Nat
    <3>1. CASE i <= n
      BY <1>4, <3>1
    <3>2. CASE ~(i <= n)
      <4>1. i - n \in 0..m
        BY <1>4, <3>2
      <4>2. sv[i - n] \in Nat
        BY <1>4, <4>1
      <4> QED
        BY <1>4, <3>2, <4>2
    <3> QED
      BY <3>1, <3>2
  <2>2. r \in [0..n + m -> Nat]
    BY <2>1
  <2>3. r[0] = 0
    BY <1>4, <1>7
  <2>4. CASE m = 0
    <3>1. Len(v) = 0 /\ n + m = n /\ n \in 0..n
      BY <1>4, <2>4
    <3> QED
      BY <1>4, <1>6, <1>7, <2>2, <2>3, <3>1
  <2>5. CASE m # 0
    <3>1. n + m \in n + 1..n + m /\ (n + m) - n = m
      BY <1>4, <2>5
    <3> QED
      BY <1>4, <1>6, <1>7, <2>2, <2>3, <3>1
  <2> QED
    BY <2>4, <2>5
<1> HIDE DEF r
<1>9. ASSUME NEW i \in 1..n + m
      PROVE  r[i] = r[i - 1] + d[i] /\ \A k \in 1..d[i] : u[r[i - 1] + k] = <<d[i], k>>
  <2>1. CASE i <= n
    <3> DEFINE a == st[i - 1]   c == chars[i]
    <3>1. i \in 1..n /\ i \in 0..n /\ i - 1 \in 0..n
      BY <1>4, <2>1
    <3>2. /\ r[i] = a + c /\ c \in 1..4 /\ a \in Nat /\ a + c <= l /\ r[i - 1] = a /\ d[i] = c
      <4>1. st[i] = a + c /\ st[i] <= l
        BY <1>3, <3>1, Zenon DEF Laid, l
      <4> QED
        BY <1>4, <1>5, <1>7, <3>1, <4>1
    <3>3. \A k \in 1..c : t[a + k] = <<c, k>>
      BY <1>3, <3>1, Zenon DEF Laid
    <3> HIDE DEF a, c
    <3>4. ASSUME NEW k \in 1..c PROVE u[a + k] = <<c, k>>
      <4>1. a + k \in 1..l
        BY <1>4, <3>2
      <4> QED
        BY <1>6, <3>3, <4>1
    <3> QED
      BY <3>2, <3>4
  <2>2. CASE ~(i <= n)
    <3> DEFINE j == i - n   a == sv[j - 1]   c == more[j]
    <3>1. j \in 1..m /\ j \in 0..m /\ j - 1 \in 0..m /\ i \in n + 1..n + m
      BY <1>4, <2>2
    <3>2. c \in 1..4 /\ a \in Nat /\ sv[j] = a + c /\ sv[j] <= Len(v)
      BY <1>3, <1>4, <3>1, Zenon DEF Laid
    <3>3. \A k \in 1..c : v[a + k] = <<c, k>>
      BY <1>3, <3>1, Zenon DEF Laid
    <3>4. r[i - 1] = l + a
      <4>1. CASE j = 1
        <5>1. i - 1 = n /\ n \in 0..n /\ j - 1 = 0
          BY <1>4, <4>1
        <5> QED
          BY <1>4, <1>7, <5>1
      <4>2. CASE j # 1
        <5>1. i - 1 \in n + 1..n + m /\ (i - 1) - n = j - 1
          BY <1>4, <3>1, <4>2
        <5> QED
          BY <1>7, <5>1
      <4> QED
        BY <4>1, <4>2
    <3>5. r[i] = l + (a + c) /\ d[i] = c
      BY <1>5, <1>7, <3>1, <3>2
    <3> HIDE DEF a, c, j
    <3>6. r[i] = (l + a) + c /\ a + c <= Len(v) /\ Len(v) \in Nat
      BY <1>4, <3>2, <3>5
    <3>7. ASSUME NEW k \in 1..c PROVE u[(l + a) + k] = <<c, k>>
      <4>1. a + k \in 1..Len(v) /\ (l + a) + k = l + (a + k)
        BY <1>4, <3>2, <3>6
      <4> QED
        BY <1>6, <3>3, <4>1
    <3> QED
      BY <3>4, <3>5, <3>6, <3>7
  <2> QED
    BY <2>1, <2>2
<1>10. Encodes(u, d)
  BY <1>4, <1>5, <1>6, <1>8, <1>9, Encoding
<1> QED
  BY <1>10 DEF u, d

-----------------------------------------------------------------------------
(* The editor.                                                             *)

\* The inductive invariant: the text is the bytes of the characters in it.
TextInv == Encodes(text, Content) /\ cursor \in 0..Len(Content)

Decodes == \A chars : Encodes(text, chars) => Content = chars

LEMMA ReadsBack == Decodes
<1> SUFFICES ASSUME NEW chars, Encodes(text, chars) PROVE Content = chars
  BY DEF Decodes
<1>1. PICK st : EncodesAt(text, chars, st)
  BY DEF Encodes
<1> QED
  BY <1>1, Decoded, Zenon

LEMMA ReadsBackNext == Decodes'
<1>1. Decodes
  BY ReadsBack
<1> QED
  BY <1>1, PTL

\* Cut where byte_at says, both parts are texts.
LEMMA CutAt ==
  ASSUME Encodes(text, Content), NEW k \in 0..Len(Content)
  PROVE  /\ Content \in Seq(1..4) /\ text \in Seq(Byte)
         /\ Encodes(SubSeq(text, 1, ByteAt(k)), SubSeq(Content, 1, k))
         /\ Encodes(SubSeq(text, ByteAt(k) + 1, Len(text)), SubSeq(Content, k + 1, Len(Content)))
<1>1. PICK st : EncodesAt(text, Content, st)
  BY DEF Encodes
<1>2. ByteAt(k) = st[k]
  BY <1>1, Decoded
<1>3. Content \in Seq(1..4) /\ text \in Seq(Byte)
  BY <1>1, Zenon DEF EncodesAt
<1>4. Encodes(SubSeq(text, 1, st[k]), SubSeq(Content, 1, k))
  BY <1>1, Before
<1>5. Encodes(SubSeq(text, st[k] + 1, Len(text)), SubSeq(Content, k + 1, Len(Content)))
  BY <1>1, After
<1> QED
  BY <1>2, <1>3, <1>4, <1>5

\* Two parts put together are cut apart again.
LEMMA Parts ==
  ASSUME NEW S, NEW b \in Seq(S), NEW a \in Seq(S)
  PROVE  /\ b \o a \in Seq(S) /\ Len(b \o a) = Len(b) + Len(a)
         /\ SubSeq(b \o a, 1, Len(b)) = b
         /\ SubSeq(b \o a, Len(b) + 1, Len(b \o a)) = a
<1> DEFINE s == b \o a   u == SubSeq(s, 1, Len(b))   v == SubSeq(s, Len(b) + 1, Len(s))
<1>1. s \in Seq(S) /\ Len(s) = Len(b) + Len(a) /\ Len(b) \in Nat /\ Len(a) \in Nat
      /\ (\A i \in 1..Len(b) : s[i] = b[i]) /\ \A i \in 1..Len(a) : s[Len(b) + i] = a[i]
  OBVIOUS
<1> HIDE DEF s
<1>2. u \in Seq(S) /\ Len(u) = Len(b) /\ \A i \in 1..Len(b) : u[i] = s[i]
  BY <1>1
<1>3. v \in Seq(S) /\ Len(v) = Len(a) /\ \A i \in 1..Len(a) : v[i] = s[Len(b) + i]
  BY <1>1
<1> HIDE DEF u, v
<1>4. u = b
  BY <1>1, <1>2, SeqEqual
<1>5. v = a
  BY <1>1, <1>3, SeqEqual
<1> QED
  BY <1>1, <1>4, <1>5 DEF s, u, v

LEMMA Whole ==
  ASSUME NEW S, NEW s \in Seq(S), NEW k \in 0..Len(s)
  PROVE  /\ SubSeq(s, 1, k) \in Seq(S) /\ Len(SubSeq(s, 1, k)) = k
         /\ SubSeq(s, k + 1, Len(s)) \in Seq(S) /\ Len(SubSeq(s, k + 1, Len(s))) = Len(s) - k
         /\ SubSeq(s, 1, k) \o SubSeq(s, k + 1, Len(s)) = s
<1> DEFINE b == SubSeq(s, 1, k)   a == SubSeq(s, k + 1, Len(s))
<1>1. b \in Seq(S) /\ Len(b) = k /\ \A i \in 1..k : b[i] = s[i]
  OBVIOUS
<1>2. a \in Seq(S) /\ Len(a) = Len(s) - k /\ \A i \in 1..Len(s) - k : a[i] = s[k + i]
  OBVIOUS
<1> HIDE DEF a, b
<1>3. b \o a \in Seq(S) /\ Len(b \o a) = Len(s)
  <2>1. Len(s) \in Nat /\ k \in Nat /\ Len(b) = k /\ Len(a) = Len(s) - k
    BY <1>1, <1>2
  <2>2. Len(b) + Len(a) = Len(s)
    BY <2>1
  <2>3. b \o a \in Seq(S) /\ Len(b \o a) = Len(b) + Len(a)
    BY <1>1, <1>2, ConcatProperties, Zenon
  <2> QED
    BY <2>2, <2>3
<1>4. ASSUME NEW i \in 1..Len(s) PROVE (b \o a)[i] = s[i]
  <2>1. CASE i <= k
    BY <1>1, <1>2, <2>1
  <2>2. CASE ~(i <= k)
    <3>1. i - k \in 1..Len(s) - k /\ k + (i - k) = i
      BY <2>2
    <3>2. (b \o a)[i] = a[i - k]
      BY <1>1, <1>2, <2>2
    <3> QED
      BY <1>2, <3>1, <3>2
  <2> QED
    BY <2>1, <2>2
<1>5. b \o a = s
  BY <1>3, <1>4, SeqEqual
<1> QED
  BY <1>1, <1>2, <1>5 DEF a, b

\* The characters around the cursor.
Around(b, a) == Slice(Content, 0, cursor) = b /\ Slice(Content, cursor, Len(Content)) = a

LEMMA Edited ==
  ASSUME NEW b \in Seq(1..4), NEW a \in Seq(1..4), Encodes(text', b \o a), cursor' = Len(b)
  PROVE  TextInv' /\ Around(b, a)'
<1>1. Content' = b \o a
  BY ReadsBackNext, Zenon DEF Decodes
<1>2. /\ Len(b \o a) = Len(b) + Len(a)
      /\ SubSeq(b \o a, 1, Len(b)) = b
      /\ SubSeq(b \o a, Len(b) + 1, Len(b \o a)) = a
  BY Parts
<1>3. Len(b) \in 0..Len(b \o a)
  BY <1>2
<1>4. Encodes(text', Content')
  BY <1>1
<1>5. cursor' \in 0..Len(Content')
  BY <1>1, <1>3
<1>6. SubSeq(Content', 0 + 1, cursor') = b /\ SubSeq(Content', cursor' + 1, Len(Content')) = a
  BY <1>1, <1>2
<1> QED
  BY <1>4, <1>5, <1>6 DEF TextInv, Around, Slice

Encodable == {s \in Seq(1..4) : Encodes(Utf8(s), s)}

LEMMA Typed ==
  /\ \A c \in Chars : <<c>> \in Encodable
  /\ \A s \in Pastes : s \in Encodable
<1>1. ASSUME NEW c \in 1..4 PROVE <<c>> \in Encodable /\ Encodes(Bytes(c), <<c>>)
  <2>1. Encodes(Bytes(c), <<c>>)
    BY One
  <2>2. PICK st : EncodesAt(Bytes(c), <<c>>, st)
    BY <2>1 DEF Encodes
  <2>3. Utf8(<<c>>) = Bytes(c)
    BY <2>2, Utf8Encodes
  <2> QED
    BY <2>1, <2>3 DEF Encodable
<1>2. ASSUME NEW c \in 1..4, NEW d \in 1..4 PROVE <<c, d>> \in Encodable
  <2>1. Encodes(Bytes(c) \o Bytes(d), <<c>> \o <<d>>)
    BY <1>1, Join
  <2>2. <<c>> \o <<d>> = <<c, d>> /\ <<c, d>> \in Seq(1..4)
    <3> DEFINE p == <<c>> \o <<d>>
    <3>1. p \in Seq(1..4) /\ Len(p) = 2 /\ p[1] = c /\ p[2] = d
      <4>1. <<c>> \in Seq(1..4) /\ <<d>> \in Seq(1..4) /\ Len(<<c>>) = 1 /\ Len(<<d>>) = 1
        OBVIOUS
      <4> QED
        BY <4>1
    <3>2. <<c, d>> \in Seq(1..4) /\ Len(<<c, d>>) = 2 /\ <<c, d>>[1] = c /\ <<c, d>>[2] = d
      OBVIOUS
    <3> HIDE DEF p
    <3>3. \A i \in 1..2 : p[i] = <<c, d>>[i]
      BY <3>1, <3>2
    <3>4. p = <<c, d>>
      BY <3>1, <3>2, <3>3, SeqEqual
    <3> QED
      BY <3>2, <3>4 DEF p
  <2>3. PICK st : EncodesAt(Bytes(c) \o Bytes(d), <<c, d>>, st)
    BY <2>1, <2>2 DEF Encodes
  <2>4. Utf8(<<c, d>>) = Bytes(c) \o Bytes(d)
    BY <2>3, Utf8Encodes
  <2> QED
    BY <2>1, <2>2, <2>4 DEF Encodable
<1> QED
  BY <1>1, <1>2, PanelAssumption DEF Pastes

\* Every edit, by the characters around the cursor.
LEMMA Inserts ==
  ASSUME TextInv, NEW s \in Encodable, Insert(s), NEW b, NEW a, Around(b, a)
  PROVE  TextInv' /\ Around(b \o s, a)'
<1>1. Encodes(text, Content) /\ cursor \in 0..Len(Content)
  BY DEF TextInv
<1>2. /\ b = SubSeq(Content, 1, cursor) /\ a = SubSeq(Content, cursor + 1, Len(Content))
  BY DEF Around, Slice
<1> DEFINE t == SubSeq(text, 1, ByteAt(cursor))
           v == SubSeq(text, ByteAt(cursor) + 1, Len(text))
<1>3. Encodes(t, b) /\ Encodes(v, a) /\ Content \in Seq(1..4)
  BY <1>1, <1>2, CutAt
<1>4. b \in Seq(1..4) /\ a \in Seq(1..4) /\ Len(b) = cursor
  BY <1>1, <1>2, <1>3, Whole
<1>5. s \in Seq(1..4) /\ Encodes(Utf8(s), s)
  BY DEF Encodable
<1>6. text' = t \o Utf8(s) \o v /\ cursor' = cursor + Len(s)
  BY DEF Insert, InsertBytes
<1> HIDE DEF t, v
<1>7. Encodes(t \o Utf8(s), b \o s)
  BY <1>3, <1>5, Join
<1>8. Encodes(text', (b \o s) \o a)
  BY <1>3, <1>6, <1>7, Join
<1>9. b \o s \in Seq(1..4) /\ Len(b \o s) = cursor'
  BY <1>4, <1>5, <1>6
<1> QED
  BY <1>4, <1>8, <1>9, Edited

LEMMA Backspaces ==
  ASSUME TextInv, Backspace, NEW b, NEW a, Around(b, a)
  PROVE  TextInv' /\ b # <<>> /\ Around(SubSeq(b, 1, Len(b) - 1), a)'
<1>1. Encodes(text, Content) /\ cursor \in 0..Len(Content)
  BY DEF TextInv
<1>2. /\ b = SubSeq(Content, 1, cursor) /\ a = SubSeq(Content, cursor + 1, Len(Content))
  BY DEF Around, Slice
<1> DEFINE t == SubSeq(text, 1, ByteAt(cursor - 1))
           v == SubSeq(text, ByteAt(cursor) + 1, Len(text))
           c == SubSeq(Content, 1, cursor - 1)
<1>3. Content \in Seq(1..4) /\ text \in Seq(Byte)
  BY <1>1, CutAt
<1>4. text' = t \o v /\ cursor' = cursor - 1 /\ cursor - 1 \in 0..Len(Content)
  BY <1>1, <1>3 DEF Backspace, RemoveBytes
<1>5. Encodes(t, c) /\ Encodes(v, a)
  BY <1>1, <1>2, <1>4, CutAt
<1>6. /\ b \in Seq(1..4) /\ a \in Seq(1..4) /\ Len(b) = cursor
      /\ c \in Seq(1..4) /\ Len(c) = cursor - 1
  BY <1>1, <1>2, <1>3, <1>4, Whole
<1>7. c = SubSeq(b, 1, Len(b) - 1) /\ b # <<>>
  <2>1. Len(b) > 0
    BY <1>1, <1>3, <1>4, <1>6
  <2>2. b # <<>>
    BY <2>1
  <2>3. /\ SubSeq(b, 1, Len(b) - 1) \in Seq(1..4) /\ Len(SubSeq(b, 1, Len(b) - 1)) = cursor - 1
        /\ \A i \in 1..cursor - 1 : SubSeq(b, 1, Len(b) - 1)[i] = b[i]
    BY <1>1, <1>3, <1>4, <1>6
  <2>4. \A i \in 1..cursor - 1 : b[i] = Content[i]
    BY <1>1, <1>2, <1>3
  <2>5. \A i \in 1..cursor - 1 : c[i] = Content[i]
    BY <1>1, <1>3, <1>4
  <2> HIDE DEF c
  <2>6. c = SubSeq(b, 1, Len(b) - 1)
    BY <1>6, <2>3, <2>4, <2>5, SeqEqual
  <2> QED
    BY <2>2, <2>6
<1> HIDE DEF t, v, c
<1>8. Encodes(text', c \o a)
  BY <1>4, <1>5, Join
<1> QED
  BY <1>4, <1>6, <1>7, <1>8, Edited

LEMMA Deletes ==
  ASSUME TextInv, Delete, NEW b, NEW a, Around(b, a)
  PROVE  TextInv' /\ a # <<>> /\ Around(b, Tail(a))'
<1>1. Encodes(text, Content) /\ cursor \in 0..Len(Content)
  BY DEF TextInv
<1>2. /\ b = SubSeq(Content, 1, cursor) /\ a = SubSeq(Content, cursor + 1, Len(Content))
  BY DEF Around, Slice
<1> DEFINE t == SubSeq(text, 1, ByteAt(cursor))
           v == SubSeq(text, ByteAt(cursor + 1) + 1, Len(text))
           c == SubSeq(Content, (cursor + 1) + 1, Len(Content))
<1>3. Content \in Seq(1..4) /\ text \in Seq(Byte)
  BY <1>1, CutAt
<1>4. text' = t \o v /\ cursor' = cursor /\ cursor + 1 \in 0..Len(Content)
  BY <1>1, <1>3 DEF Delete, RemoveBytes
<1>5. Encodes(t, b) /\ Encodes(v, c)
  BY <1>1, <1>2, <1>4, CutAt
<1>6. /\ b \in Seq(1..4) /\ a \in Seq(1..4) /\ Len(b) = cursor /\ Len(a) = Len(Content) - cursor
      /\ c \in Seq(1..4) /\ Len(c) = Len(Content) - (cursor + 1)
  BY <1>1, <1>2, <1>3, <1>4, Whole
<1>7. c = Tail(a) /\ a # <<>>
  <2>1. Len(a) > 0 /\ Len(Content) \in Nat
    BY <1>1, <1>3, <1>4, <1>6
  <2>2. a # <<>>
    BY <2>1
  <2>3. /\ Tail(a) \in Seq(1..4) /\ Len(Tail(a)) = Len(a) - 1
        /\ \A i \in 1..Len(a) - 1 : Tail(a)[i] = a[i + 1]
    BY <1>6, <2>1, <2>2
  <2>4. \A i \in 1..Len(a) - 1 : a[i + 1] = Content[cursor + (i + 1)]
    BY <1>1, <1>2, <1>3, <1>6
  <2>5. \A i \in 1..Len(a) - 1 : c[i] = Content[(cursor + 1) + i]
    BY <1>1, <1>3, <1>4, <1>6
  <2> HIDE DEF c
  <2>6. \A i \in 1..Len(a) - 1 : c[i] = Tail(a)[i]
    BY <1>1, <2>1, <2>3, <2>4, <2>5
  <2>7. c = Tail(a)
    <3>1. Len(c) = Len(Tail(a)) /\ Len(c) = Len(a) - 1
      BY <1>1, <1>6, <2>1, <2>3
    <3> QED
      BY <1>6, <2>3, <2>6, <3>1, SeqEqual
  <2> QED
    BY <2>2, <2>7
<1> HIDE DEF t, v, c
<1>8. Encodes(text', b \o c)
  BY <1>4, <1>5, Join
<1> QED
  BY <1>4, <1>6, <1>7, <1>8, Edited

LEMMA Moves ==
  ASSUME TextInv, NEW d \in Int, MoveCursor(d)
  PROVE  /\ TextInv'
         /\ \E b, a : Around(b, a)' /\ b \o a = Content
<1>1. Encodes(text, Content) /\ cursor \in 0..Len(Content)
  BY DEF TextInv
<1>2. Content \in Seq(1..4)
  BY <1>1, CutAt
<1>3. text' = text /\ cursor' \in 0..Len(Content)
  <2>1. Min({cursor + d, Len(Content)}) = IF cursor + d <= Len(Content) THEN cursor + d ELSE Len(Content)
    BY <1>1, <1>2, MinOfTwo
  <2> QED
    BY <1>1, <1>2, <2>1 DEF MoveCursor
<1>0. PICK b, a : b = SubSeq(Content, 1, cursor') /\ a = SubSeq(Content, cursor' + 1, Len(Content))
  OBVIOUS
<1>4. b \in Seq(1..4) /\ a \in Seq(1..4) /\ Len(b) = cursor' /\ b \o a = Content
  BY <1>0, <1>2, <1>3, Whole
<1>5. Encodes(text', b \o a)
  BY <1>1, <1>3, <1>4
<1>6. TextInv' /\ Around(b, a)'
  BY <1>4, <1>5, Edited
<1> QED
  BY <1>4, <1>6

LEMMA EmptyText == Encodes(<<>>, <<>>)
<1> DEFINE r == [i \in 0..0 |-> 0]
<1>1. <<>> \in Seq(1..4) /\ <<>> \in Seq(Byte) /\ Len(<<>>) = 0 /\ r \in [0..0 -> Nat] /\ r[0] = 0
      /\ \A i \in 1..0 : FALSE
  OBVIOUS
<1> QED
  BY <1>1, Encoding

LEMMA Forgets ==
  ASSUME Forget
  PROVE  TextInv' /\ Around(<<>>, <<>>)'
<1>1. text' = <<>> /\ cursor' = 0
  BY DEF Forget
<1>2. <<>> \in Seq(1..4) /\ Len(<<>>) = 0 /\ <<>> \o <<>> = <<>>
  BY ConcatEmptySeq, EmptySeq
<1>3. Encodes(text', <<>> \o <<>>)
  BY <1>1, <1>2, EmptyText
<1> QED
  BY <1>1, <1>2, <1>3, Edited

LEMMA Stands ==
  ASSUME UNCHANGED editorVars
  PROVE  Content' = Content /\ (TextInv => TextInv') /\ \A b, a : Around(b, a) => Around(b, a)'
<1>1. text' = text /\ cursor' = cursor
  BY DEF editorVars
<1>2. Starts' = Starts
  BY <1>1, Zenon DEF Starts
<1>3. Content' = Content
  BY <1>1, <1>2, Zenon DEF Content
<1> QED
  BY <1>1, <1>3, Zenon DEF TextInv, Around

bufferVars == <<Slice(Content, 0, cursor), Slice(Content, cursor, Len(Content))>>

\* A step keeps the invariant, and is a step of the buffer.
LEMMA EditorStep ==
  ASSUME TextInv, [Next]_vars
  PROVE  TextInv' /\ [Buffer!Next]_bufferVars
<1>1. PICK b, a : Around(b, a)
  BY DEF Around
<1>2. b = Slice(Content, 0, cursor) /\ a = Slice(Content, cursor, Len(Content))
  BY <1>1, Zenon DEF Around
<1>3. Content \in Seq(1..4) /\ b \in Seq(1..4) /\ a \in Seq(1..4) /\ b \o a = Content
  <2>1. Content \in Seq(1..4) /\ cursor \in 0..Len(Content)
    BY CutAt DEF TextInv
  <2>2. b = SubSeq(Content, 1, cursor) /\ a = SubSeq(Content, cursor + 1, Len(Content))
    BY <1>2 DEF Slice
  <2> QED
    BY <2>1, <2>2, Whole
<1>4. ASSUME NEW c \in Chars, Insert(<<c>>) PROVE TextInv' /\ Buffer!Insert
  <2>1. TextInv' /\ Around(b \o <<c>>, a)'
    BY <1>1, <1>4, Inserts, Typed
  <2>2. b \o <<c>> = Append(b, c)
    BY <1>3, PanelAssumption, AppendIsConcat
  <2> QED
    BY <1>2, <2>1, <2>2, Zenon DEF Around, Buffer!Insert
<1>5. ASSUME NEW s \in Pastes, Insert(s) PROVE TextInv' /\ Buffer!Paste
  <2>1. TextInv' /\ Around(b \o s, a)'
    BY <1>1, <1>5, Inserts, Typed
  <2> QED
    BY <1>2, <2>1, Zenon DEF Around, Buffer!Paste
<1>6. ASSUME Backspace PROVE TextInv' /\ Buffer!Backspace
  <2>1. TextInv' /\ b # <<>> /\ Around(SubSeq(b, 1, Len(b) - 1), a)'
    BY <1>1, <1>6, Backspaces
  <2> QED
    BY <1>2, <2>1, Zenon DEF Around, Buffer!Backspace
<1>7. ASSUME Delete PROVE TextInv' /\ Buffer!Delete
  <2>1. TextInv' /\ a # <<>> /\ Around(b, Tail(a))'
    BY <1>1, <1>7, Deletes
  <2> QED
    BY <1>2, <2>1, Zenon DEF Around, Buffer!Delete
<1>8. ASSUME NEW d \in Int, MoveCursor(d) PROVE TextInv' /\ Buffer!Move
  <2>1. TextInv' /\ \E y, x : Around(y, x)' /\ y \o x = Content
    BY <1>8, Moves
  <2>2. PICK y, x : Around(y, x)' /\ y \o x = Content
    BY <2>1
  <2> QED
    BY <1>2, <1>3, <2>1, <2>2, Zenon DEF Around, Buffer!Move
<1>9. ASSUME Forget PROVE TextInv' /\ Buffer!Clear
  BY <1>9, Forgets, Zenon DEF Around, Buffer!Clear
<1>10. ASSUME UNCHANGED editorVars PROVE TextInv' /\ UNCHANGED bufferVars
  <2>1. Around(b, a)' /\ TextInv'
    BY <1>1, <1>10, Stands
  <2> QED
    BY <1>2, <2>1, Zenon DEF Around, bufferVars
<1>11. ASSUME ChatGrows \/ ChatCleared \/ UNCHANGED vars PROVE UNCHANGED editorVars
  BY <1>11 DEF ChatGrows, ChatCleared, vars, editorVars
<1>12. \A d \in {-MaxText, -1, 1, MaxText} : d \in Int
  BY PanelAssumption
<1> QED
  BY <1>4, <1>5, <1>6, <1>7, <1>8, <1>9, <1>10, <1>11, <1>12, Zenon DEF Next, Buffer!Next

LEMMA EditorInit == Init => TextInv /\ Around(<<>>, <<>>)
<1> SUFFICES ASSUME Init PROVE TextInv /\ Around(<<>>, <<>>)
  OBVIOUS
<1>1. text = <<>> /\ cursor = 0
  BY DEF Init
<1>2. Encodes(text, <<>>)
  BY <1>1, EmptyText
<1>3. Content = <<>>
  BY <1>2, ReadsBack DEF Decodes
<1>4. Len(<<>>) = 0 /\ SubSeq(<<>>, 1, 0) = <<>>
  OBVIOUS
<1>5. cursor \in 0..Len(Content) /\ SubSeq(Content, 0 + 1, cursor) = <<>>
      /\ SubSeq(Content, cursor + 1, Len(Content)) = <<>>
  BY <1>1, <1>3, <1>4
<1> QED
  BY <1>2, <1>3, <1>5 DEF TextInv, Around, Slice

LEMMA EditorInvariant == Spec => []TextInv
<1>1. Init => TextInv
  BY EditorInit
<1>2. TextInv /\ [Next]_vars => TextInv'
  BY EditorStep
<1> QED
  BY <1>1, <1>2, PTL DEF Spec

\* Whatever is typed, pasted and deleted, wherever the cursor is moved, for
\* every set of characters: the text stays the UTF-8 of whole characters and
\* the cursor stays in it, so that byte_at finds a boundary and replace_range
\* is called with one (TextEditor).
THEOREM TextStaysUtf8 == Spec => []TextIsUtf8
<1>1. TextInv => TextIsUtf8
  <2> SUFFICES ASSUME TextInv PROVE TextIsUtf8
    OBVIOUS
  <2>1. PICK st : EncodesAt(text, Content, st)
    BY DEF TextInv, Encodes
  <2>2. Utf8(Content) = text
    BY <2>1, Utf8Encodes
  <2> QED
    BY <2>2 DEF TextIsUtf8, TextInv
<1> QED
  BY <1>1, EditorInvariant, PTL

\* The editor implements the abstract text buffer: every edit at byte offsets
\* is the edit of the characters next to the cursor that its name promises
\* (TextEditor).
THEOREM EditorIsBuffer == Spec => EditsBuffer
<1>1. Init => Buffer!Init
  BY EditorInit, Zenon DEF Around, Buffer!Init
<1>2. TextInv /\ [Next]_vars => [Buffer!Next]_bufferVars
  BY EditorStep
<1> QED
  BY <1>1, <1>2, EditorInvariant, PTL DEF Spec, EditsBuffer, Buffer!Spec, bufferVars

-----------------------------------------------------------------------------
(* The rows a draft is shown in.                                           *)

LEMMA Taken ==
  ASSUME NEW s \in Seq(Int), NEW i \in Nat, NEW j \in Nat, i <= j, j <= Len(s)
  PROVE  /\ SubSeq(s, i + 1, j) \in Seq(Int) /\ Len(SubSeq(s, i + 1, j)) = j - i
         /\ \A p \in 1..j - i : SubSeq(s, i + 1, j)[p] = s[i + p]
OBVIOUS

Glued(s, i, j, k) == SubSeq(s, i + 1, j) \o SubSeq(s, j + 1, k) = SubSeq(s, i + 1, k)

LEMMA Adjoined ==
  ASSUME NEW s \in Seq(Int), NEW i \in Nat, NEW j \in Nat, NEW k \in Nat,
         i <= j, j <= k, k <= Len(s)
  PROVE  Glued(s, i, j, k)
<1> DEFINE b == SubSeq(s, i + 1, j)   a == SubSeq(s, j + 1, k)   v == SubSeq(s, i + 1, k)
<1>0. Len(s) \in Nat
  OBVIOUS
<1>1. b \in Seq(Int) /\ Len(b) = j - i /\ \A p \in 1..j - i : b[p] = s[i + p]
  BY <1>0, Taken
<1>2. a \in Seq(Int) /\ Len(a) = k - j /\ \A p \in 1..k - j : a[p] = s[j + p]
  BY <1>0, Taken
<1>3. v \in Seq(Int) /\ Len(v) = k - i /\ \A p \in 1..k - i : v[p] = s[i + p]
  BY <1>0, Taken
<1> HIDE DEF a, b, v
<1>4. /\ b \o a \in Seq(Int) /\ Len(b \o a) = Len(b) + Len(a)
      /\ \A p \in 1..Len(b) + Len(a) : (b \o a)[p] = IF p <= Len(b) THEN b[p] ELSE a[p - Len(b)]
  BY <1>1, <1>2, ConcatProperties, Zenon
<1>5. Len(b) + Len(a) = k - i
  BY <1>1, <1>2
<1>6. ASSUME NEW p \in 1..k - i PROVE v[p] = (b \o a)[p]
  <2>1. CASE p <= j - i
    <3>1. p \in 1..j - i
      BY <2>1
    <3> QED
      BY <1>1, <1>3, <1>4, <1>5, <2>1, <3>1
  <2>2. CASE ~(p <= j - i)
    <3>1. p - (j - i) \in 1..k - j /\ j + (p - (j - i)) = i + p
      BY <2>2
    <3>2. (b \o a)[p] = a[p - (j - i)]
      BY <1>1, <1>4, <1>5, <2>2
    <3> QED
      BY <1>2, <1>3, <3>1, <3>2
  <2> QED
    BY <2>1, <2>2
<1>7. v = b \o a
  BY <1>3, <1>4, <1>5, <1>6, SeqEqual
<1> QED
  BY <1>7 DEF a, b, v, Glued

\* The cells of a text, with one for the cursor at its end.
Cells == Append(Content, Glyph)

LEMMA CellsOf ==
  ASSUME TextInv
  PROVE  /\ Content \in Seq(1..4) /\ Content \in Seq(Int) /\ Len(Content) \in Nat
         /\ cursor \in Nat /\ cursor <= Len(Content)
         /\ Cells \in Seq(Int) /\ Len(Cells) = Len(Content) + 1
         /\ \A i \in 1..Len(Content) : Cells[i] = Content[i]
         /\ Cells[Len(Content) + 1] = Glyph
<1>1. Content \in Seq(1..4) /\ cursor \in 0..Len(Content)
  BY CutAt DEF TextInv
<1>2. Content \in Seq(Int) /\ Len(Content) \in Nat /\ Glyph \in Int
  BY <1>1 DEF Glyph
<1>3. cursor \in Nat /\ cursor <= Len(Content)
  BY <1>1, <1>2
<1> QED
  BY <1>1, <1>2, <1>3 DEF Cells

\* Characters side by side are cells side by side.
LEMMA SliceOfCells ==
  ASSUME TextInv, NEW i \in Nat, NEW j \in Nat, i <= j, j <= Len(Content)
  PROVE  Slice(Content, i, j) = SubSeq(Cells, i + 1, j) /\ Len(SubSeq(Cells, i + 1, j)) = j - i
<1> DEFINE a == SubSeq(Content, i + 1, j)   b == SubSeq(Cells, i + 1, j)
<1>1. /\ Content \in Seq(Int) /\ Len(Content) \in Nat
      /\ Cells \in Seq(Int) /\ Len(Cells) = Len(Content) + 1
      /\ \A p \in 1..Len(Content) : Cells[p] = Content[p]
  BY CellsOf
<1>2. a \in Seq(Int) /\ Len(a) = j - i /\ \A p \in 1..j - i : a[p] = Content[i + p]
  BY <1>1, Taken
<1>3. b \in Seq(Int) /\ Len(b) = j - i /\ \A p \in 1..j - i : b[p] = Cells[i + p]
  BY <1>1, Taken
<1> HIDE DEF a, b
<1>4. \A p \in 1..j - i : a[p] = b[p]
  <2> SUFFICES ASSUME NEW p \in 1..j - i PROVE a[p] = b[p]
    OBVIOUS
  <2>1. i + p \in 1..Len(Content)
    BY <1>1
  <2> QED
    BY <1>1, <1>2, <1>3, <2>1
<1>5. a = b
  BY <1>2, <1>3, <1>4, SeqEqual
<1> QED
  BY <1>3, <1>5 DEF a, b, Slice

\* A row around the cursor, from the cell after `start` to the one at `end`.
LEMMA Window ==
  ASSUME TextInv, NEW start \in Nat, NEW end \in Nat, start <= cursor, end <= Len(Content),
         cursor < Len(Content) => cursor < end,
         NEW rest, rest = IF cursor < end THEN Slice(Content, cursor + 1, end) ELSE <<>>,
         NEW cells, cells = Slice(Content, start, cursor) \o <<CursorCell(Glyph)>> \o rest
  PROVE  /\ Len(cells) = (IF cursor < end THEN end ELSE cursor + 1) - start
         /\ Faithful(Row(cells, cursor - start + 1))
<1> DEFINE e == IF cursor < end THEN end ELSE cursor + 1
<1>1. /\ Content \in Seq(Int) /\ Len(Content) \in Nat /\ cursor \in Nat /\ cursor <= Len(Content)
      /\ Cells \in Seq(Int) /\ Len(Cells) = Len(Content) + 1
  BY CellsOf
<1>0. /\ \A i \in 1..Len(Content) : Cells[i] = Content[i]
      /\ Cells[Len(Content) + 1] = Glyph
  BY CellsOf
<1>2. Slice(Content, start, cursor) = SubSeq(Cells, start + 1, cursor)
  BY <1>1, SliceOfCells
<1>3. <<CursorCell(Glyph)>> = SubSeq(Cells, cursor + 1, cursor + 1)
  <2>1. CursorCell(Glyph) = Cells[cursor + 1]
    <3>1. CASE cursor < Len(Content)
      <4>1. cursor + 1 \in 1..Len(Content)
        BY <1>1, <3>1
      <4> QED
        BY <1>0, <3>1, <4>1, Zenon DEF CursorCell
    <3>2. CASE cursor = Len(Content)
      <4>1. ~(cursor < Len(Content))
        BY <1>1, <3>2
      <4> QED
        BY <1>0, <3>2, <4>1, Zenon DEF CursorCell
    <3> QED
      BY <1>1, <3>1, <3>2
  <2>2. SubSeq(Cells, cursor + 1, cursor + 1) = <<Cells[cursor + 1]>>
    <3> DEFINE a == SubSeq(Cells, cursor + 1, cursor + 1)   x == Cells[cursor + 1]
    <3>1. a \in Seq(Int) /\ Len(a) = 1 /\ a[1] = x /\ x \in Int
      <4>1. /\ a \in Seq(Int) /\ Len(a) = (cursor + 1) - cursor
            /\ \A p \in 1..(cursor + 1) - cursor : a[p] = Cells[cursor + p]
        <5>1. cursor + 1 \in Nat /\ cursor <= cursor + 1 /\ cursor + 1 <= Len(Cells)
          BY <1>1
        <5> QED
          BY <1>1, <5>1, Taken, Zenon
      <4>2. (cursor + 1) - cursor = 1 /\ cursor + 1 \in 1..Len(Cells)
        BY <1>1
      <4> QED
        BY <1>1, <4>1, <4>2
    <3> HIDE DEF a, x
    <3>2. <<x>> \in Seq(Int) /\ Len(<<x>>) = 1 /\ <<x>>[1] = x
      BY <3>1
    <3>3. a = <<x>>
      <4>1. \A p \in 1..1 : a[p] = <<x>>[p]
        BY <3>1, <3>2
      <4> QED
        BY <3>1, <3>2, <4>1, SeqEqual
    <3> QED
      BY <3>3 DEF a, x
  <2> QED
    BY <2>1, <2>2
<1>4. rest = SubSeq(Cells, (cursor + 1) + 1, e)
  <2>1. CASE cursor < end
    <3>1. cursor + 1 \in Nat /\ cursor + 1 <= end /\ e = end
      BY <1>1, <2>1
    <3> QED
      BY <2>1, <3>1, SliceOfCells, Zenon
  <2>2. CASE ~(cursor < end)
    <3>1. e = cursor + 1 /\ rest = <<>>
      BY <2>2
    <3>2. SubSeq(Cells, (cursor + 1) + 1, cursor + 1) = <<>>
      <4>1. cursor + 1 < (cursor + 1) + 1 /\ cursor + 1 \in Nat
        BY <1>1
      <4> QED
        BY <1>1, <4>1
    <3> QED
      BY <3>1, <3>2
  <2> QED
    BY <2>1, <2>2
<1>5. e \in Nat /\ cursor + 1 <= e /\ e <= Len(Cells) /\ start <= cursor
  BY <1>1
<1> HIDE DEF e
<1>6. Glued(Cells, start, cursor, cursor + 1) /\ Glued(Cells, start, cursor + 1, e)
  <2>1. cursor + 1 \in Nat /\ start <= cursor + 1 /\ cursor <= cursor + 1 /\ cursor + 1 <= Len(Cells)
    BY <1>1
  <2> QED
    BY <1>1, <1>5, <2>1, Adjoined, Zenon
<1>8. cells = SubSeq(Cells, start + 1, e)
  BY <1>2, <1>3, <1>4, <1>6, Zenon DEF Glued
<1>9. Len(cells) = e - start
  <2>1. start <= e
    BY <1>1, <1>5
  <2>2. Len(SubSeq(Cells, start + 1, e)) = e - start
    BY <1>1, <1>5, <2>1, Taken
  <2> QED
    BY <1>8, <2>2, Zenon
<1>10. Faithful(Row(cells, cursor - start + 1))
  <2>1. start \in 0..Len(Content) /\ start + Len(cells) = e /\ start + (cursor - start + 1) = cursor + 1
    <3>1. e \in Nat /\ start \in Nat /\ cursor \in Nat /\ Len(Content) \in Nat
          /\ start <= cursor /\ cursor <= Len(Content)
      BY <1>1, <1>5
    <3>2. start + (e - start) = e /\ start \in 0..Len(Content) /\ start + (cursor - start + 1) = cursor + 1
      BY <3>1
    <3> QED
      BY <1>9, <3>2, Zenon
  <2> QED
    BY <1>8, <2>1 DEF Faithful, Row, Cells
<1> QED
  BY <1>9, <1>10 DEF e

\* The row of the composer.
LEMMA ComposerShows ==
  ASSUME TextInv, NEW w \in Nat \ {0}
  PROVE  /\ Len(ComposerRow(w).cells) <= w /\ Faithful(ComposerRow(w))
         /\ ComposerRow(w).cursor # 0
<1> DEFINE n     == Len(Content)
           start == Max({0, cursor - Max({0, w - 1})})
           end   == Min({start + w, n})
           from  == Min({cursor + 1, end})
           rest  == Slice(Content, from, end)
           cells == Slice(Content, start, cursor) \o <<CursorCell(Glyph)>> \o rest
<1>1. n \in Nat /\ cursor \in Nat /\ cursor <= n /\ Content \in Seq(Int)
  BY CellsOf
<1> HIDE DEF n
<1>2. Max({0, w - 1}) = w - 1
  BY MaxOfTwo
<1>3. start = IF cursor >= w THEN cursor - (w - 1) ELSE 0
  BY <1>1, <1>2, MaxOfTwo
<1> HIDE DEF start
<1>4. end = IF start + w <= n THEN start + w ELSE n
  BY <1>1, <1>3, MinOfTwo
<1> HIDE DEF end
<1>5. from = IF cursor + 1 <= end THEN cursor + 1 ELSE end
  BY <1>1, <1>3, <1>4, MinOfTwo
<1> HIDE DEF from
<1>6. /\ start \in Nat /\ end \in Nat /\ start <= cursor /\ end <= n
      /\ (cursor < n => cursor < end) /\ cursor + 1 <= start + w /\ end <= start + w
  BY <1>1, <1>3, <1>4
<1>7. rest = IF cursor < end THEN Slice(Content, cursor + 1, end) ELSE <<>>
  <2>1. CASE cursor < end
    BY <1>1, <1>5, <1>6, <2>1
  <2>2. CASE ~(cursor < end)
    <3>1. from = end
      BY <1>1, <1>5, <1>6, <2>2
    <3>2. SubSeq(Content, end + 1, end) = <<>>
      BY <1>1, <1>6
    <3> QED
      BY <2>2, <3>1, <3>2 DEF Slice
  <2> QED
    BY <2>1, <2>2
<1> HIDE DEF rest
<1>8. /\ Len(cells) = (IF cursor < end THEN end ELSE cursor + 1) - start
      /\ Faithful(Row(cells, cursor - start + 1))
  BY <1>6, <1>7, Window DEF n
<1>9. ComposerRow(w) = Row(cells, cursor - start + 1)
  BY Zenon DEF ComposerRow, start, end, from, rest, n
<1> HIDE DEF cells
<1>10. Len(cells) <= w
  BY <1>1, <1>6, <1>8
<1>11. cursor - start + 1 # 0
  BY <1>1, <1>6
<1> QED
  BY <1>8, <1>9, <1>10, <1>11 DEF Row

\* The row of a draft that is not being typed.
LEMMA CroppedShows ==
  ASSUME TextInv, NEW w \in Nat
  PROVE  Len(CroppedRow(w).cells) <= w /\ Faithful(CroppedRow(w))
<1> DEFINE n     == Len(Content)
           start == IF n <= w THEN 0 ELSE n - w
           cells == IF n <= w THEN Content ELSE Slice(Content, n - w, n)
<1>1. n \in Nat /\ Content \in Seq(Int)
  BY CellsOf
<1>2. start \in Nat /\ start <= n /\ n - start <= w
  BY <1>1
<1>3. cells = Slice(Content, start, n)
  <2>1. SubSeq(Content, 1, Len(Content)) = Content
    BY <1>1
  <2>2. 0 + 1 = 1
    OBVIOUS
  <2> QED
    BY <2>1, <2>2 DEF Slice
<1> HIDE DEF start
<1>4. Slice(Content, start, n) = SubSeq(Cells, start + 1, n) /\ Len(SubSeq(Cells, start + 1, n)) = n - start
  BY <1>1, <1>2, SliceOfCells
<1>5. CroppedRow(w) = Row(cells, 0)
  BY Zenon DEF CroppedRow
<1> HIDE DEF cells, n
<1>6. Len(cells) = n - start /\ cells = SubSeq(Cells, start + 1, n)
  BY <1>3, <1>4
<1>7. start + Len(cells) = n /\ start \in 0..Len(Content)
  BY <1>1, <1>2, <1>6 DEF n
<1>8. Faithful(Row(cells, 0))
  <2>1. cells = SubSeq(Append(Content, Glyph), start + 1, start + Len(cells))
    BY <1>6, <1>7, Zenon DEF Cells
  <2>2. Row(cells, 0).cells = cells /\ Row(cells, 0).cursor = 0
    BY DEF Row
  <2> QED
    BY <1>7, <2>1, <2>2, Zenon DEF Faithful
<1>9. Row(cells, 0).cells = cells
  BY DEF Row
<1>10. Len(cells) <= w
  BY <1>2, <1>6
<1> QED
  BY <1>5, <1>8, <1>9, <1>10, Zenon

\* fit_peer_id makes a text that is too long as long as it may be.
LEMMA FittedLength ==
  ASSUME TextInv, NEW k \in Nat, k < Len(Content)
  PROVE  Fitted(k) \in Seq(Int) /\ Len(Fitted(k)) = k
<1> DEFINE n    == Len(Content)
           half == (k - 1) \div 2
           b    == Slice(Content, 0, k - 1 - half)
           a    == Slice(Content, n - half, n)
<1>1. n \in Nat /\ Content \in Seq(Int)
  BY CellsOf
<1>2. CASE k = 0
  <2>1. Fitted(k) = <<>>
    <3>1. ~(Len(Content) <= k)
      BY <1>1
    <3> QED
      BY <1>2, <3>1, Zenon DEF Fitted
  <2> QED
    BY <1>2, <2>1, EmptySeq, Zenon
<1>3. CASE k # 0
  <2>1. half \in Nat /\ half <= k - 1 /\ k - 1 - half \in Nat
    BY <1>3
  <2>2. Fitted(k) = b \o <<Ellipsis>> \o a
    <3>1. ~(Len(Content) <= k)
      BY <1>1
    <3> QED
      BY <1>3, <3>1, Zenon DEF Fitted
  <2> HIDE DEF half
  <2>3. b \in Seq(Int) /\ Len(b) = k - 1 - half
    <3>1. 0 <= k - 1 - half /\ k - 1 - half <= Len(Content) /\ (k - 1 - half) - 0 = k - 1 - half
      BY <1>1, <2>1
    <3> QED
      BY <1>1, <2>1, <3>1, Taken DEF Slice
  <2>4. a \in Seq(Int) /\ Len(a) = half
    <3>1. n - half \in Nat /\ n - half <= n /\ n <= Len(Content) /\ n - (n - half) = half
      BY <1>1, <2>1
    <3> QED
      BY <1>1, <2>1, <3>1, Taken DEF Slice
  <2>5. <<Ellipsis>> \in Seq(Int) /\ Len(<<Ellipsis>>) = 1
    BY DEF Ellipsis
  <2> HIDE DEF a, b, n
  <2>6. b \o <<Ellipsis>> \in Seq(Int) /\ Len(b \o <<Ellipsis>>) = (k - 1 - half) + 1
    BY <2>3, <2>5, ConcatProperties
  <2>7. (b \o <<Ellipsis>>) \o a \in Seq(Int) /\ Len((b \o <<Ellipsis>>) \o a) = ((k - 1 - half) + 1) + half
    BY <2>4, <2>6, ConcatProperties
  <2> QED
    BY <2>1, <2>2, <2>7
<1> QED
  BY <1>2, <1>3

\* The row of the dialog.
LEMMA DialogShows ==
  ASSUME TextInv, NEW w \in Nat
  PROVE  LET row == DialogRow(w)
         IN /\ Len(row.cells) <= w
            /\ Len(Content) < w => Faithful(row) /\ row.cursor # 0
            /\ w > 0 /\ cursor = Len(Content) => row.cursor = Len(row.cells)
<1> DEFINE n     == Len(Content)
           rest  == Slice(Content, cursor + 1, n)
           cells == Slice(Content, 0, cursor) \o <<CursorCell(Glyph)>> \o rest
           need  == n + (IF cursor = n THEN 1 ELSE 0)
<1>1. n \in Nat /\ cursor \in Nat /\ cursor <= n /\ Content \in Seq(Int)
  BY CellsOf
<1>2. CASE w = 0
  <2>1. DialogRow(w) = Row(<<>>, 0)
    BY <1>2, Zenon DEF DialogRow
  <2> QED
    BY <1>1, <1>2, <2>1 DEF Row
<1>3. CASE w # 0 /\ need <= w
  <2>1. DialogRow(w) = Row(cells, cursor + 1)
    BY <1>3, Zenon DEF DialogRow
  <2>2. rest = IF cursor < n THEN Slice(Content, cursor + 1, n) ELSE <<>>
    <3>1. CASE cursor < n
      BY <3>1
    <3>2. CASE ~(cursor < n)
      <4>1. cursor = n
        BY <1>1, <3>2
      <4>2. SubSeq(Content, (n + 1) + 1, n) = <<>>
        BY <1>1
      <4> QED
        BY <3>2, <4>1, <4>2 DEF Slice
    <3> QED
      BY <3>1, <3>2
  <2> HIDE DEF rest
  <2>3. /\ Len(cells) = (IF cursor < n THEN n ELSE cursor + 1) - 0
        /\ Faithful(Row(cells, cursor - 0 + 1))
    <3>1. 0 \in Nat /\ 0 <= cursor /\ n <= Len(Content)
      BY <1>1
    <3> HIDE DEF cells
    <3>2. cells = Slice(Content, 0, cursor) \o <<CursorCell(Glyph)>> \o rest
      BY DEF cells
    <3> QED
      BY <1>1, <2>2, <3>1, <3>2, Window
  <2> HIDE DEF cells, n
  <2>4. cursor - 0 + 1 = cursor + 1 /\ cursor + 1 # 0
    BY <1>1
  <2>5. Len(cells) = need
    BY <1>1, <2>3
  <2>6. need \in Nat /\ (cursor = n => need = cursor + 1)
    BY <1>1
  <2> QED
    BY <1>3, <2>1, <2>3, <2>4, <2>5, <2>6 DEF Row, n
<1>4. CASE w # 0 /\ ~(need <= w) /\ cursor = n
  <2>1. DialogRow(w) = Row(Append(Fitted(w - 1), Glyph), Len(Fitted(w - 1)) + 1)
    BY <1>4, Zenon DEF DialogRow
  <2>2. w - 1 \in Nat /\ w - 1 < Len(Content) /\ ~(Len(Content) < w)
    BY <1>1, <1>4
  <2>3. Fitted(w - 1) \in Seq(Int) /\ Len(Fitted(w - 1)) = w - 1
    BY <2>2, FittedLength
  <2>4. Len(Append(Fitted(w - 1), Glyph)) = (w - 1) + 1
    BY <2>3 DEF Glyph
  <2> QED
    BY <2>1, <2>2, <2>3, <2>4 DEF Row
<1>5. CASE w # 0 /\ ~(need <= w) /\ cursor # n
  <2>1. DialogRow(w) = Row(Fitted(w), 0)
    BY <1>5, Zenon DEF DialogRow
  <2>2. w < Len(Content) /\ ~(Len(Content) < w)
    BY <1>1, <1>5
  <2>3. Fitted(w) \in Seq(Int) /\ Len(Fitted(w)) = w
    BY <2>2, FittedLength
  <2> QED
    BY <1>5, <2>1, <2>2, <2>3 DEF Row
<1> QED
  BY <1>2, <1>3, <1>4, <1>5

\* However wide the panel is and wherever the cursor stands: the row of the
\* composer shows the cursor at its place among the characters next to it and
\* is never wider than the panel; the row of the dialog loses the cursor only
\* inside a text that is too long (composer_body, crop_draft_left, draft_line).
THEOREM DraftsShowCursor == Spec => []RowsShowCursor
<1>1. ASSUME TextInv, NEW w \in Widths
      PROVE  /\ \A row \in {ComposerRow(ContentWidth(w)), CroppedRow(ContentWidth(w))} :
                  Len(row.cells) <= ContentWidth(w) /\ Faithful(row)
             /\ ComposerRow(ContentWidth(w)).cursor # 0
             /\ LET row == DialogRow(w)
                IN /\ Len(row.cells) <= w
                   /\ Len(Content) < w => Faithful(row) /\ row.cursor # 0
                   /\ w > 0 /\ cursor = Len(Content) => row.cursor = Len(row.cells)
  <2>1. w \in Nat
    BY PanelAssumption
  <2>2. ContentWidth(w) \in Nat \ {0}
    <3>1. Max({1, w - 2 * CardPadX}) = IF 1 >= w - 2 * CardPadX THEN 1 ELSE w - 2 * CardPadX
      BY <2>1, MaxOfTwo DEF CardPadX
    <3> QED
      BY <2>1, <3>1 DEF ContentWidth, CardPadX
  <2>3. /\ Len(ComposerRow(ContentWidth(w)).cells) <= ContentWidth(w)
        /\ Faithful(ComposerRow(ContentWidth(w))) /\ ComposerRow(ContentWidth(w)).cursor # 0
    BY <1>1, <2>2, ComposerShows
  <2>4. Len(CroppedRow(ContentWidth(w)).cells) <= ContentWidth(w) /\ Faithful(CroppedRow(ContentWidth(w)))
    BY <1>1, <2>2, CroppedShows
  <2> QED
    BY <1>1, <2>1, <2>3, <2>4, DialogShows, Zenon
<1>2. TextInv => RowsShowCursor
  BY <1>1, Zenon DEF RowsShowCursor
<1> QED
  BY <1>2, EditorInvariant, PTL

-----------------------------------------------------------------------------
(* Folds.  A fold of the library is one function on all sets of positions; *)
(* that there is one, and one only, is shown by the size of the sets.      *)

\* C takes a place out of every set that is not empty.
Picks(C, D) == \A s \in SUBSET D : s # {} => C[s] \in s

FoldsBy(h, D, V, C, base, G) ==
  /\ h \in [SUBSET D -> V]
  /\ \A s \in SUBSET D : h[s] = IF s = {} THEN base ELSE G[<<C[s], h[s \ {C[s]}]>>]

LEMMA Sizes ==
  ASSUME NEW n \in Nat, NEW s \in SUBSET (1..n)
  PROVE  /\ IsFiniteSet(s) /\ Cardinality(s) \in Nat /\ Cardinality(s) <= n
         /\ Cardinality(s) <= 0 => s = {}
         /\ \A x \in s : Cardinality(s \ {x}) = Cardinality(s) - 1
<1>1. IsFiniteSet(1..n) /\ Cardinality(1..n) = n
  BY FS_Interval
<1>2. IsFiniteSet(s) /\ Cardinality(s) <= Cardinality(1..n)
  BY <1>1, FS_Subset
<1>3. Cardinality(s) \in Nat /\ (Cardinality(s) = 0 <=> s = {})
  BY <1>2, FS_CardinalityType, FS_EmptySet
<1>4. \A x \in s : Cardinality(s \ {x}) = Cardinality(s) - 1
  BY <1>2, FS_RemoveElement
<1> QED
  BY <1>1, <1>2, <1>3, <1>4

LEMMA FoldExists ==
  ASSUME NEW n \in Nat, NEW D, D = 1..n, NEW V, NEW base \in V, NEW C, Picks(C, D),
         NEW G \in [D \X V -> V]
  PROVE  \E h : FoldsBy(h, D, V, C, base, G)
<1> DEFINE Fits(h, k) ==
             /\ h \in [SUBSET D -> V]
             /\ \A s \in SUBSET D : Cardinality(s) <= k =>
                  h[s] = IF s = {} THEN base ELSE G[<<C[s], h[s \ {C[s]}]>>]
           S == {k \in Nat : \E h : Fits(h, k)}
<1>1. 0 \in S
  <2> DEFINE h == [s \in SUBSET D |-> base]
  <2>1. h \in [SUBSET D -> V]
    OBVIOUS
  <2>2. \A s \in SUBSET D : Cardinality(s) <= 0 => h[s] = base /\ s = {}
    BY Sizes
  <2>3. Fits(h, 0)
    BY <2>1, <2>2
  <2> QED
    BY <2>3
<1>2. ASSUME NEW k \in 0..n - 1, k \in S PROVE k + 1 \in S
  <2>1. PICK h : Fits(h, k)
    BY <1>2
  <2> DEFINE g == [s \in SUBSET D |-> IF s = {} THEN base ELSE G[<<C[s], h[s \ {C[s]}]>>]]
  <2>2. ASSUME NEW s \in SUBSET D, s # {}
        PROVE  <<C[s], h[s \ {C[s]}]>> \in D \X V
    <3>1. C[s] \in D
      BY <2>2 DEF Picks
    <3>2. h[s \ {C[s]}] \in V
      BY <2>1
    <3> QED
      BY <3>1, <3>2
  <2>3. g \in [SUBSET D -> V]
    BY <2>2
  <2>4. ASSUME NEW s \in SUBSET D, Cardinality(s) <= k PROVE g[s] = h[s]
    BY <2>1, <2>4
  <2>5. ASSUME NEW s \in SUBSET D, Cardinality(s) <= k + 1
        PROVE  g[s] = IF s = {} THEN base ELSE G[<<C[s], g[s \ {C[s]}]>>]
    <3>1. CASE s = {}
      BY <3>1
    <3>2. CASE s # {}
      <4>1. C[s] \in s
        BY <3>2 DEF Picks
      <4>2. Cardinality(s \ {C[s]}) <= k
        <5>1. Cardinality(s \ {C[s]}) = Cardinality(s) - 1 /\ Cardinality(s) \in Nat
          BY <4>1, Sizes
        <5> QED
          BY <2>5, <5>1
      <4>3. g[s \ {C[s]}] = h[s \ {C[s]}]
        BY <2>4, <4>2
      <4> QED
        BY <3>2, <4>3
    <3> QED
      BY <3>1, <3>2
  <2> HIDE DEF g
  <2>6. Fits(g, k + 1)
    BY <2>3, <2>5
  <2>7. k + 1 \in Nat
    OBVIOUS
  <2> HIDE DEF Fits
  <2> QED
    BY <2>6, <2>7
<1> HIDE DEF S
<1>3. n \in S
  <2>1. \A m \in 0..n : m \in S
    BY <1>1, <1>2, UpTo, Zenon
  <2>2. n \in 0..n
    OBVIOUS
  <2> QED
    BY <2>1, <2>2
<1>4. PICK h : Fits(h, n)
  BY <1>3 DEF S
<1>5. \A s \in SUBSET D : Cardinality(s) <= n
  BY Sizes
<1> QED
  BY <1>4, <1>5 DEF FoldsBy

\* h and g agree on a set if they do on it without the place C takes out.
Agree(h, g, D, C) ==
  /\ h = [s \in SUBSET D |-> h[s]] /\ g = [s \in SUBSET D |-> g[s]]
  /\ g[{}] = h[{}]
  /\ \A s \in SUBSET D : s # {} /\ g[s \ {C[s]}] = h[s \ {C[s]}] => g[s] = h[s]

LEMMA FoldUnique ==
  ASSUME NEW n \in Nat, NEW D, D = 1..n, NEW C, Picks(C, D), NEW h, NEW g, Agree(h, g, D, C)
  PROVE  g = h
<1>0. /\ h = [s \in SUBSET D |-> h[s]] /\ g = [s \in SUBSET D |-> g[s]]
      /\ g[{}] = h[{}]
      /\ \A s \in SUBSET D : s # {} /\ g[s \ {C[s]}] = h[s \ {C[s]}] => g[s] = h[s]
  BY Zenon DEF Agree
<1> DEFINE T == {k \in 0..n : \E s \in SUBSET D : Cardinality(s) = k /\ g[s] # h[s]}
<1>1. CASE T = {}
  <2>1. ASSUME NEW s \in SUBSET D PROVE g[s] = h[s]
    <3>1. Cardinality(s) \in 0..n
      BY Sizes
    <3> QED
      BY <1>1, <3>1
  <2> QED
    BY <1>0, <2>1
<1>2. CASE T # {}
  <2>1. T \in SUBSET Nat
    OBVIOUS
  <2>2. PICK k \in T : \A m \in T : k <= m
    BY <1>2, <2>1, LeastOf
  <2>3. PICK s \in SUBSET D : Cardinality(s) = k /\ g[s] # h[s]
    BY <2>2
  <2>4. s # {} /\ C[s] \in s
    BY <1>0, <2>3, Zenon DEF Picks
  <2>5. Cardinality(s \ {C[s]}) = k - 1 /\ k - 1 \in 0..n /\ s \ {C[s]} \in SUBSET D
    <3>1. Cardinality(s \ {C[s]}) = Cardinality(s) - 1 /\ ~(Cardinality(s) <= 0) /\ s \in SUBSET (1..n)
      BY <2>4, Sizes
    <3>2. k \in 0..n /\ Cardinality(s) = k
      BY <2>2, <2>3, Zenon
    <3>3. k - 1 \in 0..n
      BY <3>1, <3>2
    <3>4. s \ {C[s]} \in SUBSET D
      BY Zenon
    <3> QED
      BY <3>1, <3>2, <3>3, <3>4, Zenon
  <2>6. g[s \ {C[s]}] = h[s \ {C[s]}]
    BY <2>2, <2>5
  <2> QED
    BY <1>0, <2>3, <2>4, <2>6
<1> QED
  BY <1>1, <1>2

\* The last and the first of some places.
LEMMA LastOf ==
  ASSUME NEW n \in Nat, NEW s \in SUBSET (1..n), s # {}
  PROVE  Max(s) \in s /\ \A y \in s : y <= Max(s)
<1> DEFINE T == {m \in Nat : n - m \in s}
<1>1. PICK x \in s : TRUE
  OBVIOUS
<1>2. n - x \in T
  <2>1. n - x \in Nat /\ n - (n - x) = x
    OBVIOUS
  <2> QED
    BY <2>1
<1>3. PICK m \in T : \A l \in T : m <= l
  BY <1>2, LeastOf
<1>4. \A y \in s : y <= n - m
  <2> SUFFICES ASSUME NEW y \in s PROVE y <= n - m
    OBVIOUS
  <2>1. n - y \in Nat /\ n - (n - y) = y
    OBVIOUS
  <2>2. m <= n - y
    BY <1>3, <2>1
  <2> QED
    BY <2>1, <2>2
<1>5. \E z \in s : \A y \in s : z >= y
  BY <1>3, <1>4
<1> QED
  BY <1>5 DEF Max

LEMMA FirstOf ==
  ASSUME NEW n \in Nat, NEW s \in SUBSET (1..n), s # {}
  PROVE  Min(s) \in s /\ \A y \in s : Min(s) <= y
<1>1. \E x \in s : \A y \in s : x <= y
  BY LeastOf
<1> QED
  BY <1>1 DEF Min

LEMMA PicksLast ==
  ASSUME NEW n \in Nat, NEW D, D = 1..n
  PROVE  Picks([s \in SUBSET D |-> Max(s)], D)
BY LastOf DEF Picks

LEMMA PicksFirst ==
  ASSUME NEW n \in Nat, NEW D, D = 1..n
  PROVE  Picks([s \in SUBSET D |-> Min(s)], D)
BY FirstOf DEF Picks

\* The rows of a part of a message.
LEMMA RowsOfType ==
  ASSUME NEW lines \in Seq(Nat), NEW w \in Nat \ {0}
  PROVE  RowsOf(lines, w) \in Nat
<1> DEFINE n == Len(lines)
           D == DOMAIN lines
           C == [s \in SUBSET D |-> Max(s)]
           F(x, v) == v + Max({1, (lines[x] + w - 1) \div w})
           G == [p \in D \X Nat |-> F(p[1], p[2])]
<1>1. n \in Nat /\ D = 1..n
  OBVIOUS
<1>2. ASSUME NEW x \in D, NEW v \in Nat PROVE F(x, v) \in Nat
  <2>1. lines[x] \in Nat
    BY <1>1
  <2> DEFINE k == (lines[x] + w - 1) \div w
  <2>2. k \in Int
    BY <2>1
  <2> HIDE DEF k
  <2>3. Max({1, k}) = IF 1 >= k THEN 1 ELSE k
    BY <2>2, MaxOfTwo
  <2> QED
    BY <2>2, <2>3 DEF k
<1>3. Picks(C, D)
  BY <1>1, PicksLast
<1> HIDE DEF F
<1>4. G \in [D \X Nat -> Nat] /\ \A x \in D, v \in Nat : G[<<x, v>>] = F(x, v)
  BY <1>2
<1> HIDE DEF C, D, G, n
<1>5. PICK h : FoldsBy(h, D, Nat, C, 0, G)
  BY <1>1, <1>3, <1>4, FoldExists
<1>6. h \in [SUBSET D -> Nat]
  BY <1>5 DEF FoldsBy
<1>7. ASSUME NEW s \in SUBSET D
      PROVE  h[s] = IF s = {} THEN 0 ELSE F(Max(s), h[s \ {Max(s)}])
  <2>1. CASE s = {}
    BY <1>5, <2>1 DEF FoldsBy
  <2>2. CASE s # {}
    <3>1. C[s] = Max(s) /\ Max(s) \in D
      BY <1>3, <2>2 DEF C, Picks
    <3>2. h[s \ {Max(s)}] \in Nat
      BY <1>6
    <3>3. h[s] = G[<<Max(s), h[s \ {Max(s)}]>>]
      BY <1>5, <2>2, <3>1 DEF FoldsBy
    <3> QED
      BY <1>4, <2>2, <3>1, <3>2, <3>3
  <2> QED
    BY <2>1, <2>2
<1>8. h = [s \in SUBSET D |-> IF s = {} THEN 0 ELSE F(Max(s), h[s \ {Max(s)}])]
  <2>1. h = [s \in SUBSET D |-> h[s]]
    BY <1>6
  <2> QED
    BY <1>7, <2>1
<1>9. ASSUME NEW g, g = [s \in SUBSET D |-> IF s = {} THEN 0 ELSE F(Max(s), g[s \ {Max(s)}])]
      PROVE  g = h
  <2>1. h = [s \in SUBSET D |-> h[s]] /\ g = [s \in SUBSET D |-> g[s]]
    BY <1>6, <1>9
  <2>2. g[{}] = h[{}]
    BY <1>7, <1>9
  <2>3. ASSUME NEW s \in SUBSET D, s # {}, g[s \ {C[s]}] = h[s \ {C[s]}] PROVE g[s] = h[s]
    <3>1. C[s] = Max(s)
      BY DEF C
    <3>2. g[s] = F(Max(s), g[s \ {Max(s)}]) /\ h[s] = F(Max(s), h[s \ {Max(s)}])
      BY <1>7, <1>9, <2>3
    <3> QED
      BY <2>3, <3>1, <3>2
  <2>4. Agree(h, g, D, C)
    BY <2>1, <2>2, <2>3, Zenon DEF Agree
  <2> QED
    BY <1>1, <1>3, <2>4, FoldUnique, Zenon
<1>10. RowsOf(lines, w) = h[DOMAIN lines]
  BY <1>8, <1>9, Zenon DEF RowsOf, FoldLeft, MapThenFoldSet, F, D
<1> QED
  BY <1>6, <1>10 DEF D

\* The values of a fold from the first place on, and from the last.
Climbs(h, n, V, base, G) ==
  /\ h[1..0] = base
  /\ \A i \in 1..n : h[1..i] = G[<<i, h[1..i - 1]>>]
  /\ \A i \in 0..n : h[1..i] \in V

Descends(h, n, V, base, G) ==
  /\ h[n + 1..n] = base
  /\ \A i \in 1..n : h[i..n] = G[<<i, h[i + 1..n]>>]
  /\ \A i \in 1..n + 1 : h[i..n] \in V

LEMMA FoldUp ==
  ASSUME NEW n \in Nat, NEW D, D = 1..n, NEW V, NEW base, NEW G, NEW h,
         FoldsBy(h, D, V, [s \in SUBSET D |-> Max(s)], base, G)
  PROVE  Climbs(h, n, V, base, G)
<1>1. h \in [SUBSET D -> V]
  BY DEF FoldsBy
<1>2. \A s \in SUBSET D : s = {} => h[s] = base
  BY DEF FoldsBy
<1>3. \A s \in SUBSET D : s # {} => h[s] = G[<<Max(s), h[s \ {Max(s)}]>>]
  BY DEF FoldsBy
<1>4. h[1..0] = base
  <2>1. 1..0 = {} /\ {} \in SUBSET D
    OBVIOUS
  <2> QED
    BY <1>2, <2>1
<1>5. ASSUME NEW i \in 1..n PROVE h[1..i] = G[<<i, h[1..i - 1]>>]
  <2>1. 1..i \in SUBSET D /\ 1..i # {} /\ i \in 1..i
    <3>1. i \in 1..i
      OBVIOUS
    <3>2. 1..i \in SUBSET D
      OBVIOUS
    <3> QED
      BY <3>1, <3>2, Zenon
  <2>2. Max(1..i) \in 1..i /\ i <= Max(1..i)
    <3>1. 1..i \in SUBSET (1..n)
      BY <2>1
    <3> QED
      BY <2>1, <3>1, LastOf, Zenon
  <2>3. Max(1..i) = i
    BY <2>2
  <2>4. (1..i) \ {i} = 1..i - 1
    OBVIOUS
  <2> QED
    BY <1>3, <2>1, <2>3, <2>4, Zenon
<1>6. \A i \in 0..n : 1..i \in SUBSET D
  OBVIOUS
<1> QED
  BY <1>1, <1>4, <1>5, <1>6, Zenon DEF Climbs

LEMMA FoldDown ==
  ASSUME NEW n \in Nat, NEW D, D = 1..n, NEW V, NEW base, NEW G, NEW h,
         FoldsBy(h, D, V, [s \in SUBSET D |-> Min(s)], base, G)
  PROVE  Descends(h, n, V, base, G)
<1>1. h \in [SUBSET D -> V]
  BY DEF FoldsBy
<1>2. \A s \in SUBSET D : s = {} => h[s] = base
  BY DEF FoldsBy
<1>3. \A s \in SUBSET D : s # {} => h[s] = G[<<Min(s), h[s \ {Min(s)}]>>]
  BY DEF FoldsBy
<1>4. h[n + 1..n] = base
  <2>1. n + 1..n = {} /\ {} \in SUBSET D
    OBVIOUS
  <2> QED
    BY <1>2, <2>1
<1>5. ASSUME NEW i \in 1..n PROVE h[i..n] = G[<<i, h[i + 1..n]>>]
  <2>1. i..n \in SUBSET D /\ i..n # {} /\ i \in i..n
    OBVIOUS
  <2>2. Min(i..n) \in i..n /\ Min(i..n) <= i
    <3>1. i..n \in SUBSET (1..n)
      BY <2>1
    <3> QED
      BY <2>1, <3>1, FirstOf, Zenon
  <2>3. Min(i..n) = i
    BY <2>2
  <2>4. (i..n) \ {i} = i + 1..n
    OBVIOUS
  <2> QED
    BY <1>3, <2>1, <2>3, <2>4, Zenon
<1>6. \A i \in 1..n + 1 : i..n \in SUBSET D
  OBVIOUS
<1> QED
  BY <1>1, <1>4, <1>5, <1>6, Zenon DEF Descends

Taking == [used : Nat, count : Nat, full : BOOLEAN]
Nothing == [used |-> 0, count |-> 0, full |-> FALSE]

LEMMA TakeUpType ==
  ASSUME NEW acc \in Taking, NEW h \in Nat, NEW rows \in Nat
  PROVE  TakeUp(acc, h, rows) \in Taking
<1>1. Gap \in Nat
  BY PanelAssumption
<1> DEFINE used == IF acc.used = 0 THEN h ELSE acc.used + Gap + h
<1>2. acc.used \in Nat /\ acc.count \in Nat /\ used \in Nat /\ acc.count + 1 \in Nat
  BY <1>1 DEF Taking
<1>3. [acc EXCEPT !.full = TRUE] \in Taking
  BY DEF Taking
<1> HIDE DEF used
<1>4. [used |-> used, count |-> acc.count + 1, full |-> used >= rows] \in Taking
  BY <1>2 DEF Taking
<1> QED
  BY <1>3, <1>4, Zenon DEF TakeUp, used

\* The choice of the messages, one by one from the lowest.
Choice(a, hs, rows, n) ==
  /\ a \in [0..n -> Taking] /\ a[0] = Nothing /\ Chosen(hs, rows) = a[n]
  /\ \A i \in 1..n : a[i] = TakeUp(a[i - 1], hs[n + 1 - i], rows)

LEMMA ChosenStepwise ==
  ASSUME NEW hs \in Seq(Nat), NEW rows \in Nat, NEW n, n = Len(hs)
  PROVE  \E a : Choice(a, hs, rows, n)
<1> DEFINE D == DOMAIN hs
           C == [s \in SUBSET D |-> Min(s)]
           F(x, v) == TakeUp(v, hs[x], rows)
           G == [p \in D \X Taking |-> F(p[1], p[2])]
<1>1. n \in Nat /\ D = 1..n
  OBVIOUS
<1>2. ASSUME NEW x \in D, NEW v \in Taking PROVE F(x, v) \in Taking
  <2>1. hs[x] \in Nat
    BY <1>1
  <2> QED
    BY <2>1, TakeUpType
<1>3. Picks(C, D)
  BY <1>1, PicksFirst
<1> HIDE DEF F
<1>4. G \in [D \X Taking -> Taking] /\ \A x \in D, v \in Taking : G[<<x, v>>] = F(x, v)
  BY <1>2
<1> HIDE DEF D, G
<1>5. PICK h : FoldsBy(h, D, Taking, C, Nothing, G)
  <2>1. Nothing \in Taking
    BY DEF Nothing, Taking
  <2> HIDE DEF C
  <2> QED
    BY <1>1, <1>3, <1>4, <2>1, FoldExists
<1>6. /\ h[n + 1..n] = Nothing
      /\ \A i \in 1..n : h[i..n] = G[<<i, h[i + 1..n]>>]
      /\ \A i \in 1..n + 1 : h[i..n] \in Taking
  <2>1. Descends(h, n, Taking, Nothing, G)
    BY <1>1, <1>5, FoldDown, Zenon
  <2> QED
    BY <2>1, Zenon DEF Descends
<1> HIDE DEF C
<1>7. h \in [SUBSET D -> Taking]
  BY <1>5 DEF FoldsBy
<1>8. ASSUME NEW s \in SUBSET D
      PROVE  h[s] = IF s = {} THEN Nothing ELSE F(Min(s), h[s \ {Min(s)}])
  <2>1. CASE s = {}
    BY <1>5, <2>1 DEF FoldsBy
  <2>2. CASE s # {}
    <3>1. C[s] = Min(s) /\ Min(s) \in D
      BY <1>3, <2>2 DEF C, Picks
    <3>2. h[s \ {Min(s)}] \in Taking
      BY <1>7
    <3>3. h[s] = G[<<Min(s), h[s \ {Min(s)}]>>]
      BY <1>5, <2>2, <3>1 DEF FoldsBy
    <3> QED
      BY <1>4, <2>2, <3>1, <3>2, <3>3
  <2> QED
    BY <2>1, <2>2
<1>9. h = [s \in SUBSET D |-> IF s = {} THEN Nothing ELSE F(Min(s), h[s \ {Min(s)}])]
  <2>1. h = [s \in SUBSET D |-> h[s]]
    BY <1>7
  <2> QED
    BY <1>8, <2>1
<1>10. ASSUME NEW g, g = [s \in SUBSET D |-> IF s = {} THEN Nothing ELSE F(Min(s), g[s \ {Min(s)}])]
       PROVE  g = h
  <2>1. h = [s \in SUBSET D |-> h[s]] /\ g = [s \in SUBSET D |-> g[s]]
    BY <1>7, <1>10
  <2>2. g[{}] = h[{}]
    BY <1>8, <1>10
  <2>3. ASSUME NEW s \in SUBSET D, s # {}, g[s \ {C[s]}] = h[s \ {C[s]}] PROVE g[s] = h[s]
    <3>1. C[s] = Min(s)
      BY DEF C
    <3>2. g[s] = F(Min(s), g[s \ {Min(s)}]) /\ h[s] = F(Min(s), h[s \ {Min(s)}])
      BY <1>8, <1>10, <2>3
    <3> QED
      BY <2>3, <3>1, <3>2
  <2>4. Agree(h, g, D, C)
    BY <2>1, <2>2, <2>3, Zenon DEF Agree
  <2> QED
    BY <1>1, <1>3, <2>4, FoldUnique, Zenon
<1>11. Chosen(hs, rows) = h[DOMAIN hs]
  BY <1>9, <1>10, Zenon DEF Chosen, FoldRight, MapThenFoldSet, F, D, Nothing
<1> DEFINE a == [i \in 0..n |-> h[n + 1 - i..n]]
<1>12. ASSUME NEW i \in 0..n PROVE a[i] = h[n + 1 - i..n] /\ a[i] \in Taking
  <2>1. n + 1 - i \in 1..n + 1
    BY <1>1
  <2> QED
    BY <1>6, <2>1
<1>13. a \in [0..n -> Taking]
  BY <1>12
<1>14. a[0] = Nothing /\ Chosen(hs, rows) = a[n]
  <2>1. n + 1 - 0 = n + 1 /\ n + 1 - n = 1 /\ 0 \in 0..n /\ n \in 0..n
    BY <1>1
  <2>2. a[0] = h[n + 1..n] /\ a[n] = h[1..n]
    BY <1>12, <2>1
  <2> QED
    BY <1>1, <1>6, <1>11, <2>2 DEF D
<1>15. ASSUME NEW i \in 1..n PROVE a[i] = TakeUp(a[i - 1], hs[n + 1 - i], rows)
  <2>1. n + 1 - i \in 1..n /\ (n + 1 - i) + 1 = n + 1 - (i - 1) /\ i \in 0..n /\ i - 1 \in 0..n
    BY <1>1
  <2>2. a[i] = h[n + 1 - i..n] /\ a[i - 1] = h[n + 1 - (i - 1)..n] /\ a[i - 1] \in Taking
    BY <1>12, <2>1
  <2>3. h[n + 1 - i..n] = G[<<n + 1 - i, h[(n + 1 - i) + 1..n]>>]
    BY <1>6, <2>1
  <2>4. a[i] = G[<<n + 1 - i, a[i - 1]>>]
    BY <2>1, <2>2, <2>3
  <2> QED
    BY <1>1, <1>4, <2>1, <2>2, <2>4 DEF F
<1> HIDE DEF a
<1>16. Choice(a, hs, rows, n)
  BY <1>13, <1>14, <1>15 DEF Choice
<1> QED
  BY <1>16

\* One more rectangle, downwards.
Cards == Seq([top : Nat, height : Nat])
Drawing == [y : Nat, cards : Cards]

DrawOne(acc, h, rows) ==
  IF acc.y >= rows THEN acc
  ELSE LET bottom == acc.y + Min({h, rows - acc.y})
       IN [y     |-> IF bottom + Gap <= rows THEN bottom + Gap ELSE bottom,
           cards |-> Append(acc.cards, [top |-> acc.y, height |-> bottom - acc.y])]

LEMMA DrawOneType ==
  ASSUME NEW acc \in Drawing, NEW h \in Nat, NEW rows \in Nat
  PROVE  DrawOne(acc, h, rows) \in Drawing
<1> DEFINE bottom == acc.y + Min({h, rows - acc.y})
           z == IF bottom + Gap <= rows THEN bottom + Gap ELSE bottom
           card == [top |-> acc.y, height |-> bottom - acc.y]
<1>1. Gap \in Nat /\ acc.y \in Nat /\ acc.cards \in Cards
  BY PanelAssumption DEF Drawing
<1>2. CASE acc.y >= rows
  BY <1>2, Zenon DEF DrawOne
<1>3. CASE ~(acc.y >= rows)
  <2>1. bottom = acc.y + (IF h <= rows - acc.y THEN h ELSE rows - acc.y)
    BY <1>1, MinOfTwo
  <2> HIDE DEF bottom
  <2>2. bottom \in Nat /\ bottom - acc.y \in Nat
    BY <1>1, <1>3, <2>1
  <2>3. z \in Nat
    BY <1>1, <2>2
  <2>4. card \in [top : Nat, height : Nat]
    BY <1>1, <2>2
  <2> HIDE DEF z, card
  <2>5. Append(acc.cards, card) \in Cards
    BY <1>1, <2>4 DEF Cards
  <2>6. DrawOne(acc, h, rows) = [y |-> z, cards |-> Append(acc.cards, card)]
    BY <1>3, Zenon DEF DrawOne, z, card, bottom
  <2> QED
    BY <2>3, <2>5, <2>6 DEF Drawing
<1> QED
  BY <1>2, <1>3

\* The drawing of the messages that are shown, one by one from the top.
Shown(hs, rows) ==
  LET chosen == Chosen(hs, rows)
  IN SubSeq(hs, Len(hs) - chosen.count + 1, Len(hs))

Blank(hs, rows) == [y |-> rows - Min({Chosen(hs, rows).used, rows}), cards |-> <<>>]

DrawAll(shown, rows, blank) == FoldLeft(LAMBDA acc, h : DrawOne(acc, h, rows), blank, shown)

Drafting(a, hs, rows, n) ==
  /\ a \in [0..n -> Drawing] /\ a[0] = Blank(hs, rows) /\ Drawn(hs, rows) = a[n].cards
  /\ \A i \in 1..n : a[i] = DrawOne(a[i - 1], Shown(hs, rows)[i], rows)

LEMMA DrawnStepwise ==
  ASSUME NEW hs, NEW rows \in Nat, Blank(hs, rows) \in Drawing,
         NEW shown \in Seq(Nat), shown = Shown(hs, rows), NEW n, n = Len(shown)
  PROVE  \E a : Drafting(a, hs, rows, n)
<1> DEFINE D == DOMAIN shown
           C == [s \in SUBSET D |-> Max(s)]
           F(x, v) == DrawOne(v, shown[x], rows)
           G == [p \in D \X Drawing |-> F(p[1], p[2])]
<1>1. n \in Nat /\ D = 1..n
  OBVIOUS
<1>2. ASSUME NEW x \in D, NEW v \in Drawing PROVE F(x, v) \in Drawing
  <2>1. shown[x] \in Nat
    BY <1>1
  <2> QED
    BY <2>1, DrawOneType
<1>3. Picks(C, D)
  BY <1>1, PicksLast
<1> HIDE DEF F
<1>4. G \in [D \X Drawing -> Drawing] /\ \A x \in D, v \in Drawing : G[<<x, v>>] = F(x, v)
  BY <1>2
<1> HIDE DEF D, G
<1>5. PICK h : FoldsBy(h, D, Drawing, C, Blank(hs, rows), G)
  <2> HIDE DEF C
  <2> QED
    BY <1>1, <1>3, <1>4, FoldExists
<1>6. /\ h[1..0] = Blank(hs, rows)
      /\ \A i \in 1..n : h[1..i] = G[<<i, h[1..i - 1]>>]
      /\ \A i \in 0..n : h[1..i] \in Drawing
  <2>1. Climbs(h, n, Drawing, Blank(hs, rows), G)
    BY <1>1, <1>5, FoldUp, Zenon
  <2> QED
    BY <2>1, Zenon DEF Climbs
<1> HIDE DEF C
<1>7. h \in [SUBSET D -> Drawing]
  BY <1>5 DEF FoldsBy
<1>8. ASSUME NEW s \in SUBSET D
      PROVE  h[s] = IF s = {} THEN Blank(hs, rows) ELSE F(Max(s), h[s \ {Max(s)}])
  <2>1. CASE s = {}
    BY <1>5, <2>1 DEF FoldsBy
  <2>2. CASE s # {}
    <3>1. C[s] = Max(s) /\ Max(s) \in D
      BY <1>3, <2>2 DEF C, Picks
    <3>2. h[s \ {Max(s)}] \in Drawing
      BY <1>7
    <3>3. h[s] = G[<<Max(s), h[s \ {Max(s)}]>>]
      BY <1>5, <2>2, <3>1 DEF FoldsBy
    <3> QED
      BY <1>4, <2>2, <3>1, <3>2, <3>3
  <2> QED
    BY <2>1, <2>2
<1>9. h = [s \in SUBSET D |-> IF s = {} THEN Blank(hs, rows) ELSE F(Max(s), h[s \ {Max(s)}])]
  <2>1. h = [s \in SUBSET D |-> h[s]]
    BY <1>7
  <2> QED
    BY <1>8, <2>1
<1>10. ASSUME NEW g, g = [s \in SUBSET D |-> IF s = {} THEN Blank(hs, rows) ELSE F(Max(s), g[s \ {Max(s)}])]
       PROVE  g = h
  <2>1. h = [s \in SUBSET D |-> h[s]] /\ g = [s \in SUBSET D |-> g[s]]
    BY <1>7, <1>10
  <2>2. g[{}] = h[{}]
    BY <1>8, <1>10
  <2>3. ASSUME NEW s \in SUBSET D, s # {}, g[s \ {C[s]}] = h[s \ {C[s]}] PROVE g[s] = h[s]
    <3>1. C[s] = Max(s)
      BY DEF C
    <3>2. g[s] = F(Max(s), g[s \ {Max(s)}]) /\ h[s] = F(Max(s), h[s \ {Max(s)}])
      BY <1>8, <1>10, <2>3
    <3> QED
      BY <2>3, <3>1, <3>2
  <2>4. Agree(h, g, D, C)
    BY <2>1, <2>2, <2>3, Zenon DEF Agree
  <2> QED
    BY <1>1, <1>3, <2>4, FoldUnique, Zenon
<1>11. Drawn(hs, rows) = h[DOMAIN shown].cards
  <2>1. DrawAll(shown, rows, Blank(hs, rows)) = h[DOMAIN shown]
    BY <1>9, <1>10, Zenon DEF DrawAll, FoldLeft, MapThenFoldSet, F, D
  <2>2. Drawn(hs, rows) = DrawAll(Shown(hs, rows), rows, Blank(hs, rows)).cards
    BY Zenon DEF Drawn, DrawAll, Blank, Shown, DrawOne, FoldLeft, MapThenFoldSet
  <2> QED
    BY <2>1, <2>2
<1> DEFINE a == [i \in 0..n |-> h[1..i]]
<1>12. ASSUME NEW i \in 0..n PROVE a[i] = h[1..i] /\ a[i] \in Drawing
  BY <1>6
<1>13. a \in [0..n -> Drawing]
  BY <1>12
<1>14. a[0] = Blank(hs, rows) /\ Drawn(hs, rows) = a[n].cards
  <2>1. 0 \in 0..n /\ n \in 0..n
    BY <1>1
  <2>2. a[0] = h[1..0] /\ a[n] = h[1..n]
    BY <1>12, <2>1
  <2> QED
    BY <1>1, <1>6, <1>11, <2>2 DEF D
<1>15. ASSUME NEW i \in 1..n PROVE a[i] = DrawOne(a[i - 1], Shown(hs, rows)[i], rows)
  <2>1. i \in 0..n /\ i - 1 \in 0..n
    BY <1>1
  <2>2. a[i] = h[1..i] /\ a[i - 1] = h[1..i - 1] /\ a[i - 1] \in Drawing
    BY <1>12, <2>1
  <2>3. a[i] = G[<<i, a[i - 1]>>]
    BY <1>6, <2>2
  <2> QED
    BY <1>1, <1>4, <2>2, <2>3 DEF F
<1> HIDE DEF a
<1>16. Drafting(a, hs, rows, n)
  BY <1>13, <1>14, <1>15 DEF Drafting
<1> QED
  BY <1>16

-----------------------------------------------------------------------------
(* The transcript.                                                         *)

\* The rows that the lowest messages take, with the space between them.
Stack(U, hs, n) ==
  /\ U \in [0..n -> Nat] /\ U[0] = 0
  /\ \A i \in 1..n : U[i] = hs[n + 1 - i] + (IF i = 1 THEN 0 ELSE U[i - 1] + Gap)

LEMMA StackExists ==
  ASSUME NEW hs \in Seq(Nat), NEW n, n = Len(hs)
  PROVE  \E U : Stack(U, hs, n)
<1> DEFINE D == DOMAIN hs
           C == [s \in SUBSET D |-> Min(s)]
           F(x, v) == hs[x] + (IF x = n THEN 0 ELSE v + Gap)
           G == [p \in D \X Nat |-> F(p[1], p[2])]
<1>1. n \in Nat /\ D = 1..n
  OBVIOUS
<1>2. ASSUME NEW x \in D, NEW v \in Nat PROVE F(x, v) \in Nat
  <2>1. hs[x] \in Nat /\ Gap \in Nat
    BY <1>1, PanelAssumption
  <2> QED
    BY <2>1
<1>3. Picks(C, D)
  BY <1>1, PicksFirst
<1> HIDE DEF F
<1>4. G \in [D \X Nat -> Nat] /\ \A x \in D, v \in Nat : G[<<x, v>>] = F(x, v)
  BY <1>2
<1> HIDE DEF D, G
<1>5. PICK h : FoldsBy(h, D, Nat, C, 0, G)
  <2> HIDE DEF C
  <2> QED
    BY <1>1, <1>3, <1>4, FoldExists
<1>6. /\ h[n + 1..n] = 0
      /\ \A i \in 1..n : h[i..n] = G[<<i, h[i + 1..n]>>]
      /\ \A i \in 1..n + 1 : h[i..n] \in Nat
  <2>1. Descends(h, n, Nat, 0, G)
    BY <1>1, <1>5, FoldDown, Zenon
  <2> QED
    BY <2>1, Zenon DEF Descends
<1> DEFINE U == [i \in 0..n |-> h[n + 1 - i..n]]
<1>7. ASSUME NEW i \in 0..n PROVE U[i] = h[n + 1 - i..n] /\ U[i] \in Nat
  <2>1. n + 1 - i \in 1..n + 1
    BY <1>1
  <2> QED
    BY <1>6, <2>1
<1>8. U \in [0..n -> Nat]
  BY <1>7
<1>9. U[0] = 0
  <2>1. n + 1 - 0 = n + 1 /\ 0 \in 0..n
    BY <1>1
  <2> QED
    BY <1>6, <1>7, <2>1
<1>10. ASSUME NEW i \in 1..n
       PROVE  U[i] = hs[n + 1 - i] + (IF i = 1 THEN 0 ELSE U[i - 1] + Gap)
  <2>1. /\ n + 1 - i \in 1..n /\ (n + 1 - i) + 1 = n + 1 - (i - 1) /\ i \in 0..n /\ i - 1 \in 0..n
        /\ (n + 1 - i = n <=> i = 1)
    BY <1>1
  <2>2. U[i] = h[n + 1 - i..n] /\ U[i - 1] = h[n + 1 - (i - 1)..n] /\ U[i - 1] \in Nat
    BY <1>7, <2>1
  <2>3. h[n + 1 - i..n] = G[<<n + 1 - i, h[(n + 1 - i) + 1..n]>>]
    BY <1>6, <2>1
  <2>4. U[i] = G[<<n + 1 - i, U[i - 1]>>]
    BY <2>1, <2>2, <2>3
  <2>5. U[i] = F(n + 1 - i, U[i - 1])
    BY <1>1, <1>4, <2>1, <2>2, <2>4
  <2> HIDE DEF U
  <2> QED
    BY <2>1, <2>5, Zenon DEF F
<1> HIDE DEF U
<1>11. Stack(U, hs, n)
  BY <1>8, <1>9, <1>10 DEF Stack
<1> QED
  BY <1>11

\* What is chosen of the lowest i messages: as many as fit, the first always.
ChosenOf(acc, U, rows, i) ==
  /\ acc.count \in 0..i /\ acc.used = U[acc.count]
  /\ i > 0 => acc.count > 0
  /\ acc.count > 1 => acc.used <= rows
  /\ acc.full => acc.used >= rows \/ (acc.count < i /\ U[acc.count + 1] > rows)
  /\ ~acc.full => acc.count = i /\ acc.used < rows

LEMMA ChosenNext ==
  ASSUME NEW acc \in Taking, NEW U, NEW rows \in Nat \ {0}, NEW i \in Nat,
         ChosenOf(acc, U, rows, i), NEW h \in Nat \ {0}, U[0] = 0, U[i] \in Nat,
         i > 0 => U[i] > 0,
         U[i + 1] = h + (IF i + 1 = 1 THEN 0 ELSE U[i] + Gap)
  PROVE  ChosenOf(TakeUp(acc, h, rows), U, rows, i + 1)
<1> DEFINE used == IF acc.used = 0 THEN h ELSE acc.used + Gap + h
           next == TakeUp(acc, h, rows)
<1>1. Gap \in Nat
  BY PanelAssumption
<1>2. acc.used \in Nat /\ acc.count \in Nat /\ acc.full \in BOOLEAN
  BY DEF Taking
<1>3. /\ acc.count \in 0..i /\ acc.used = U[acc.count]
      /\ i > 0 => acc.count > 0
      /\ acc.count > 1 => acc.used <= rows
      /\ acc.full => acc.used >= rows \/ (acc.count < i /\ U[acc.count + 1] > rows)
      /\ ~acc.full => acc.count = i /\ acc.used < rows
  BY DEF ChosenOf
<1>4. CASE acc.full \/ (acc.used > 0 /\ used > rows)
  <2>1. next = [acc EXCEPT !.full = TRUE]
    BY <1>4, Zenon DEF TakeUp
  <2>2. next.used = acc.used /\ next.count = acc.count /\ next.full = TRUE
    BY <2>1 DEF Taking
  <2> HIDE DEF next
  <2>3. CASE acc.full
    <3>1. i > 0
      <4>1. CASE i = 0
        <5>1. acc.count = 0 /\ acc.used = 0
          BY <1>3, <4>1
        <5> QED
          BY <1>3, <2>3, <4>1, <5>1
      <4> QED
        BY <4>1
    <3>2. acc.count \in 0..i + 1 /\ acc.count > 0 /\ (acc.count < i => acc.count < i + 1)
      BY <1>3, <3>1
    <3>3. acc.used >= rows \/ (acc.count < i + 1 /\ U[acc.count + 1] > rows)
      BY <1>3, <2>3, <3>2
    <3>4. next.count \in 0..i + 1 /\ next.count > 0 /\ next.used = U[next.count] /\ next.full
      BY <1>3, <2>2, <3>2
    <3>5. next.used >= rows \/ (next.count < i + 1 /\ U[next.count + 1] > rows)
      BY <2>2, <3>3
    <3>6. next.count > 1 => next.used <= rows
      BY <1>3, <2>2
    <3> QED
      BY <3>4, <3>5, <3>6, Zenon DEF ChosenOf, next
  <2>4. CASE ~acc.full
    <3>1. acc.count = i /\ acc.used = U[i] /\ acc.used > 0 /\ used > rows
      BY <1>3, <1>4, <2>4
    <3>2. i # 0
      BY <3>1
    <3>3. used = U[i + 1]
      BY <1>1, <1>2, <3>1, <3>2
    <3>4. i \in 0..i + 1 /\ i < i + 1 /\ i > 0
      BY <3>2
    <3> HIDE DEF used
    <3>5. next.count \in 0..i + 1 /\ next.count > 0 /\ next.used = U[next.count] /\ next.full
      BY <2>2, <3>1, <3>4
    <3>6. next.count < i + 1 /\ U[next.count + 1] > rows
      BY <2>2, <3>1, <3>3, <3>4
    <3>7. next.count > 1 => next.used <= rows
      BY <1>3, <2>2
    <3> QED
      BY <3>5, <3>6, <3>7, Zenon DEF ChosenOf, next
  <2> QED
    BY <1>2, <2>3, <2>4 DEF next
<1>5. CASE ~(acc.full \/ (acc.used > 0 /\ used > rows))
  <2>1. next = [used |-> used, count |-> acc.count + 1, full |-> used >= rows]
    BY <1>5, Zenon DEF TakeUp
  <2>2. next.used = used /\ next.count = acc.count + 1 /\ next.full = (used >= rows)
    BY <2>1
  <2> HIDE DEF next
  <2>3. acc.count = i /\ acc.used = U[i]
    BY <1>3, <1>5
  <2>4. used = U[i + 1] /\ used \in Nat
    <3>1. CASE i = 0
      BY <2>3, <3>1
    <3>2. CASE i # 0
      BY <1>1, <1>2, <2>3, <3>2
    <3> QED
      BY <3>1, <3>2
  <2>5. i + 1 > 1 => used <= rows
    <3> SUFFICES ASSUME i + 1 > 1 PROVE used <= rows
      OBVIOUS
    <3>1. acc.used > 0
      BY <2>3
    <3>2. ~(used > rows)
      BY <1>5, <3>1
    <3> HIDE DEF used
    <3> QED
      BY <2>4, <3>2
  <2> HIDE DEF used
  <2>6. i + 1 \in 0..i + 1 /\ i + 1 > 0 /\ (~(used >= rows) => used < rows)
    BY <2>4
  <2> QED
    BY <2>2, <2>3, <2>4, <2>5, <2>6 DEF ChosenOf, next
<1> QED
  BY <1>4, <1>5

LEMMA ChosenFits ==
  ASSUME NEW hs \in Seq(Nat \ {0}), NEW rows \in Nat \ {0}, NEW n, n = Len(hs),
         NEW U, Stack(U, hs, n)
  PROVE  ChosenOf(Chosen(hs, rows), U, rows, n) /\ Chosen(hs, rows) \in Taking
<1>1. n \in Nat /\ hs \in Seq(Nat) /\ rows \in Nat /\ \A i \in 1..n : hs[i] \in Nat \ {0}
  OBVIOUS
<1>2. PICK a : Choice(a, hs, rows, n)
  BY <1>1, ChosenStepwise
<1>3. /\ a \in [0..n -> Taking] /\ a[0] = Nothing /\ Chosen(hs, rows) = a[n]
      /\ \A i \in 1..n : a[i] = TakeUp(a[i - 1], hs[n + 1 - i], rows)
  BY <1>2, Zenon DEF Choice
<1>4. /\ U \in [0..n -> Nat] /\ U[0] = 0
      /\ \A i \in 1..n : U[i] = hs[n + 1 - i] + (IF i = 1 THEN 0 ELSE U[i - 1] + Gap)
  BY Zenon DEF Stack
<1>5. ASSUME NEW i \in 1..n PROVE U[i] > 0
  <2>1. n + 1 - i \in 1..n /\ i - 1 \in 0..n
    BY <1>1
  <2>2. hs[n + 1 - i] \in Nat \ {0} /\ U[i - 1] \in Nat /\ Gap \in Nat
    BY <1>1, <1>4, <2>1, PanelAssumption
  <2>3. U[i] = hs[n + 1 - i] + (IF i = 1 THEN 0 ELSE U[i - 1] + Gap)
    BY <1>4
  <2> QED
    BY <2>2, <2>3
<1> DEFINE S == {i \in 0..n : ChosenOf(a[i], U, rows, i)}
<1>6. 0 \in S
  <2>1. Nothing.count = 0 /\ Nothing.used = 0 /\ Nothing.full = FALSE
    BY DEF Nothing
  <2>2. ChosenOf(Nothing, U, rows, 0)
    BY <1>4, <2>1 DEF ChosenOf
  <2> QED
    BY <1>1, <1>3, <2>2
<1>7. ASSUME NEW i \in 0..n - 1, i \in S PROVE i + 1 \in S
  <2>1. i + 1 \in 1..n /\ (i + 1) - 1 = i /\ n + 1 - (i + 1) \in 1..n /\ i \in 0..n /\ i + 1 \in 0..n
        /\ i \in Nat
    BY <1>1
  <2>2. a[i + 1] = TakeUp(a[i], hs[n + 1 - (i + 1)], rows)
    BY <1>3, <2>1
  <2>3. U[i + 1] = hs[n + 1 - (i + 1)] + (IF i + 1 = 1 THEN 0 ELSE U[i] + Gap)
    BY <1>4, <2>1
  <2>4. a[i] \in Taking /\ U[i] \in Nat /\ hs[n + 1 - (i + 1)] \in Nat \ {0}
    BY <1>1, <1>3, <1>4, <2>1
  <2>5. i > 0 => U[i] > 0
    BY <1>5, <2>1
  <2>6. ChosenOf(a[i], U, rows, i)
    BY <1>7
  <2>7. ChosenOf(a[i + 1], U, rows, i + 1)
    <3>1. ChosenOf(TakeUp(a[i], hs[n + 1 - (i + 1)], rows), U, rows, i + 1)
      BY <1>4, <2>1, <2>3, <2>4, <2>5, <2>6, ChosenNext, Zenon
    <3> QED
      BY <2>2, <3>1, Zenon
  <2> QED
    BY <2>1, <2>7
<1>8. n \in S
  <2> HIDE DEF S
  <2>1. \A i \in 0..n : i \in S
    BY <1>1, <1>6, <1>7, UpTo, Zenon
  <2>2. n \in 0..n
    BY <1>1
  <2> QED
    BY <2>1, <2>2
<1> QED
  BY <1>3, <1>8

\* A rectangle of h rows at the top of the u lowest, and what it leaves.
Leaves(rows, h, u, v) ==
  /\ h <= u /\ ~(rows - u >= rows) /\ rows - (rows - u) = u
  /\ \A b : b = (rows - u) + h => (IF b + Gap <= rows THEN b + Gap ELSE b) = rows - v

LEMMA OneBelow ==
  ASSUME NEW rows \in Nat, NEW h \in Nat \ {0}, NEW u \in Nat, NEW v \in Nat, u <= rows,
         (u = h /\ v = 0) \/ u = h + (v + Gap)
  PROVE  Leaves(rows, h, u, v)
<1>1. Gap \in Nat
  BY PanelAssumption
<1>2. CASE u = h /\ v = 0
  <2>1. (rows - u) + h = rows /\ h <= u
    BY <1>2
  <2> QED
    BY <1>1, <1>2, <2>1 DEF Leaves
<1>3. CASE u = h + (v + Gap)
  <2>1. (rows - u) + h = (rows - v) - Gap /\ h <= u
    BY <1>1, <1>3
  <2> QED
    BY <1>1, <1>3, <2>1 DEF Leaves
<1> QED
  BY <1>2, <1>3

\* What has been drawn of the j uppermost of c messages.
DrawnOf(acc, U, hs, rows, c, j) ==
  /\ acc \in Drawing /\ acc.y = rows - U[c - j] /\ Len(acc.cards) = j
  /\ \A i \in 1..j : /\ acc.cards[i].top = rows - U[c - i + 1]
                     /\ acc.cards[i].height = hs[Len(hs) - c + i]

LEMMA DrawnNext ==
  ASSUME NEW acc, NEW U, NEW hs, NEW rows \in Nat \ {0}, NEW c \in Nat, NEW j \in 0..c - 1,
         DrawnOf(acc, U, hs, rows, c, j), NEW h \in Nat \ {0}, h = hs[Len(hs) - c + (j + 1)],
         U[c - j] \in Nat, U[c - j] <= rows, U[c - (j + 1)] \in Nat,
         U[c - j] = h + (IF c - j = 1 THEN 0 ELSE U[c - (j + 1)] + Gap), U[0] = 0
  PROVE  DrawnOf(DrawOne(acc, h, rows), U, hs, rows, c, j + 1)
<1> DEFINE u == U[c - j]   v == U[c - (j + 1)]
           bottom == acc.y + Min({h, rows - acc.y})
           z == IF bottom + Gap <= rows THEN bottom + Gap ELSE bottom
           card == [top |-> acc.y, height |-> bottom - acc.y]
           next == DrawOne(acc, h, rows)
<1>1. Gap \in Nat /\ u \in Nat /\ v \in Nat /\ h \in Nat /\ h > 0 /\ u <= rows /\ rows \in Nat
  BY PanelAssumption
<1>2. acc \in Drawing /\ acc.y = rows - u /\ Len(acc.cards) = j
      /\ \A i \in 1..j : /\ acc.cards[i].top = rows - U[c - i + 1]
                         /\ acc.cards[i].height = hs[Len(hs) - c + i]
  BY Zenon DEF DrawnOf
<1>3. Leaves(rows, h, u, v)
  <2>1. CASE c - j = 1
    <3>1. c - (j + 1) = 0
      BY <2>1
    <3>2. u = h /\ v = 0
      BY <2>1, <3>1
    <3> QED
      BY <1>1, <3>2, OneBelow, Zenon
  <2>2. CASE c - j # 1
    <3>1. u = h + (v + Gap)
      BY <2>2, Zenon
    <3> QED
      BY <1>1, <3>1, OneBelow, Zenon
  <2> QED
    BY <2>1, <2>2
<1>4. next \in Drawing
  BY <1>1, <1>2, DrawOneType
<1> HIDE DEF u, v
<1>5. ~(acc.y >= rows) /\ rows - acc.y = u /\ h <= u
  BY <1>2, <1>3, Zenon DEF Leaves
<1>6. bottom = (rows - u) + h
  <2>1. Min({h, u}) = IF h <= u THEN h ELSE u
    BY <1>1, MinOfTwo
  <2>2. Min({h, u}) = h
    BY <1>5, <2>1, Zenon
  <2> QED
    BY <1>2, <1>5, <2>2, Zenon
<1>7. next = [y |-> z, cards |-> Append(acc.cards, card)]
  <2>1. ~(acc.y >= rows)
    BY <1>5
  <2> QED
    BY <2>1, Zenon DEF DrawOne, z, card, bottom
<1> HIDE DEF bottom, next
<1>8. z = rows - v
  BY <1>3, <1>6, Zenon DEF Leaves
<1> HIDE DEF z
<1>9. next.y = rows - v /\ next.cards = Append(acc.cards, card)
  BY <1>7, <1>8
<1>10. card.top = rows - u /\ card.height = h
  BY <1>1, <1>2, <1>6
<1>11. card \in [top : Nat, height : Nat]
  BY <1>1, <1>2, <1>6
<1> HIDE DEF card
<1>12. /\ Len(next.cards) = j + 1 /\ next.cards[j + 1] = card
       /\ \A i \in 1..j : next.cards[i] = acc.cards[i]
  <2>1. acc.cards \in Seq([top : Nat, height : Nat])
    BY <1>2 DEF Drawing, Cards
  <2>2. /\ Len(Append(acc.cards, card)) = Len(acc.cards) + 1
        /\ \A i \in 1..Len(acc.cards) : Append(acc.cards, card)[i] = acc.cards[i]
        /\ Append(acc.cards, card)[Len(acc.cards) + 1] = card
    BY <1>11, <2>1, AppendProperties
  <2>3. Len(acc.cards) = j /\ next.cards = Append(acc.cards, card)
    BY <1>2, <1>9
  <2> QED
    BY <2>2, <2>3
<1>13. ASSUME NEW i \in 1..j + 1
       PROVE  next.cards[i].top = rows - U[c - i + 1] /\ next.cards[i].height = hs[Len(hs) - c + i]
  <2>1. CASE i \in 1..j
    BY <1>2, <1>12, <2>1
  <2>2. CASE i = j + 1
    <3>1. c - i + 1 = c - j
      BY <2>2
    <3> QED
      BY <1>10, <1>12, <2>2, <3>1 DEF u
  <2>3. i \in 1..j \/ i = j + 1
    OBVIOUS
  <2> QED
    BY <2>1, <2>2, <2>3
<1> QED
  BY <1>4, <1>9, <1>12, <1>13, Zenon DEF DrawnOf, next, v

\* The messages that are shown are the lowest.
LEMMA ShownLowest ==
  ASSUME NEW hs \in Seq(Nat \ {0}), NEW rows, NEW c, c = Chosen(hs, rows).count, c \in 0..Len(hs)
  PROVE  /\ Shown(hs, rows) \in Seq(Nat) /\ Len(Shown(hs, rows)) = c
         /\ \A i \in 1..c : Shown(hs, rows)[i] = hs[Len(hs) - c + i]
<1> DEFINE n == Len(hs)
           k == n - c
           s == SubSeq(hs, k + 1, n)
<1>1. n \in Nat /\ c \in Nat /\ k \in Nat /\ n - k = c
  OBVIOUS
<1>2. Shown(hs, rows) = s
  BY Zenon DEF Shown
<1> HIDE DEF k
<1>3. s \in Seq(Nat) /\ Len(s) = n - k /\ \A i \in 1..n - k : s[i] = hs[k + i]
  BY <1>1
<1> QED
  BY <1>1, <1>2, <1>3 DEF k

\* The lowest message is shown at the bottom, whole if it fits; those above
\* follow without overlapping, as many as fit and no fewer.
Fills(hs, rows) ==
  LET cards == Drawn(hs, rows)
      n     == Len(cards)
      Height(i) == hs[Len(hs) - n + i]
      Bottom(i) == cards[i].top + cards[i].height
  IN hs # <<>> =>
       /\ n > 0 /\ Bottom(n) = rows
       /\ \A i \in 1..n : cards[i].height = Height(i) \/ (n = 1 /\ cards[1].height = rows)
       /\ \A i \in 1..n - 1 : cards[i + 1].top = Bottom(i) + Gap
       /\ n < Len(hs) => cards[1].top < Gap + hs[Len(hs) - n]

LEMMA DrawnFills ==
  ASSUME NEW hs \in Seq(Nat \ {0}), NEW rows \in Nat \ {0}, hs # <<>>
  PROVE  Fills(hs, rows)
<1> DEFINE n     == Len(hs)
           acc   == Chosen(hs, rows)
           c     == acc.count
           cards == Drawn(hs, rows)
<1>1. n \in Nat /\ n > 0 /\ hs \in Seq(Nat) /\ rows \in Nat /\ rows > 0
      /\ \A i \in 1..n : hs[i] \in Nat /\ hs[i] > 0
  <2>1. n # 0
    BY EmptySeq
  <2> QED
    BY <2>1
<1>2. PICK U : Stack(U, hs, n)
  BY <1>1, StackExists
<1>3. ChosenOf(acc, U, rows, n) /\ acc \in Taking
  BY <1>2, ChosenFits
<1> HIDE DEF n, acc
<1>4. /\ U \in [0..n -> Nat] /\ U[0] = 0
      /\ \A i \in 1..n : U[i] = hs[n + 1 - i] + (IF i = 1 THEN 0 ELSE U[i - 1] + Gap)
  BY <1>2, Zenon DEF Stack
<1>5. /\ c \in 1..n /\ c \in Nat /\ acc.used = U[c] /\ U[c] \in Nat
      /\ c > 1 => U[c] <= rows
      /\ c < n => U[c] >= rows \/ U[c + 1] > rows
  <2>1. /\ c \in 0..n /\ acc.used = U[c] /\ c > 0
        /\ c > 1 => acc.used <= rows
        /\ acc.full => acc.used >= rows \/ (c < n /\ U[c + 1] > rows)
        /\ ~acc.full => c = n /\ acc.used < rows
    BY <1>1, <1>3 DEF ChosenOf
  <2> HIDE DEF c
  <2>2. c \in 1..n /\ c \in Nat /\ U[c] \in Nat
    BY <1>1, <1>4, <2>1
  <2>3. c < n => acc.full
    BY <1>1, <2>1
  <2> QED
    BY <2>1, <2>2, <2>3
<1> DEFINE shown == Shown(hs, rows)
<1>6. shown \in Seq(Nat) /\ Len(shown) = c /\ \A i \in 1..c : shown[i] = hs[n - c + i]
  <2>1. c \in 0..Len(hs) /\ c = Chosen(hs, rows).count
    BY <1>1, <1>5 DEF n, acc
  <2> QED
    BY <2>1, ShownLowest DEF n
<1>7. Blank(hs, rows) = [y |-> IF U[c] <= rows THEN rows - U[c] ELSE 0, cards |-> <<>>]
      /\ Blank(hs, rows) \in Drawing
  <2>1. Min({acc.used, rows}) = IF U[c] <= rows THEN U[c] ELSE rows
    BY <1>1, <1>5, MinOfTwo
  <2> DEFINE y == rows - Min({acc.used, rows})
  <2>2. y = IF U[c] <= rows THEN rows - U[c] ELSE 0
    BY <1>1, <1>5, <2>1
  <2>3. y \in Nat
    BY <1>1, <1>5, <2>2
  <2>4. Blank(hs, rows) = [y |-> y, cards |-> <<>>]
    BY Zenon DEF Blank, acc
  <2> HIDE DEF y
  <2>5. <<>> \in Cards
    BY EmptySeq DEF Cards
  <2> QED
    BY <2>2, <2>3, <2>4, <2>5 DEF Drawing
<1> HIDE DEF shown, c
<1>8. PICK a : Drafting(a, hs, rows, c)
  BY <1>1, <1>6, <1>7, DrawnStepwise DEF shown
<1>9. /\ a \in [0..c -> Drawing] /\ a[0] = Blank(hs, rows) /\ cards = a[c].cards
      /\ \A i \in 1..c : a[i] = DrawOne(a[i - 1], shown[i], rows)
  BY <1>8, Zenon DEF Drafting, cards, shown
<1> HIDE DEF cards
\* Everything fits, or the one message that is shown is too high.
<1>10. ASSUME U[c] <= rows PROVE Fills(hs, rows)
  <2> DEFINE S == {j \in 0..c : DrawnOf(a[j], U, hs, rows, c, j)}
  <2>1. 0 \in S
    <3>1. a[0] = [y |-> rows - U[c], cards |-> <<>>] /\ a[0] \in Drawing
      BY <1>7, <1>9, <1>10
    <3>2. a[0].y = rows - U[c - 0] /\ Len(a[0].cards) = 0
      <4>1. c - 0 = c
        BY <1>5
      <4> QED
        BY <3>1, <4>1
    <3>3. \A i \in 1..0 : FALSE
      OBVIOUS
    <3>4. DrawnOf(a[0], U, hs, rows, c, 0)
      BY <3>1, <3>2, <3>3, Zenon DEF DrawnOf
    <3> QED
      BY <1>5, <3>4
  <2>2. ASSUME NEW j \in 0..c - 1, j \in S PROVE j + 1 \in S
    <3>1. /\ j + 1 \in 1..c /\ j + 1 \in 0..c /\ (j + 1) - 1 = j /\ c - j \in 1..n /\ c - (j + 1) \in 0..n
          /\ (c - j) - 1 = c - (j + 1) /\ n + 1 - (c - j) = n - c + (j + 1)
          /\ n - c + (j + 1) \in 1..n /\ c - j \in 0..n /\ c \in Nat
      BY <1>1, <1>5
    <3> DEFINE h == hs[n - c + (j + 1)]
    <3>2. a[j + 1] = DrawOne(a[j], h, rows)
      BY <1>6, <1>9, <3>1
    <3>3. h \in Nat \ {0}
      BY <1>1, <3>1
    <3>4. U[c - j] = h + (IF c - j = 1 THEN 0 ELSE U[c - (j + 1)] + Gap)
      BY <1>4, <3>1
    <3>5. U[c - j] \in Nat /\ U[c - (j + 1)] \in Nat
      BY <1>4, <3>1
    <3>6. DrawnOf(a[j], U, hs, rows, c, j)
      BY <2>2
    <3>7. U[c - j] <= rows
      <4>1. a[j].y = rows - U[c - j] /\ a[j].y \in Nat
        BY <3>6 DEF DrawnOf, Drawing
      <4> QED
        BY <1>1, <3>5, <4>1
    <3>8. h = hs[Len(hs) - c + (j + 1)]
      BY DEF n
    <3> HIDE DEF h
    <3>9. DrawnOf(DrawOne(a[j], h, rows), U, hs, rows, c, j + 1)
      BY <1>4, <3>1, <3>3, <3>4, <3>5, <3>6, <3>7, <3>8, DrawnNext, Zenon
    <3> QED
      BY <3>1, <3>2, <3>9
  <2>3. c \in S
    <3> HIDE DEF S
    <3>1. \A j \in 0..c : j \in S
      BY <1>5, <2>1, <2>2, UpTo, Zenon
    <3>2. c \in 0..c
      BY <1>5
    <3> QED
      BY <3>1, <3>2
  <2>4. DrawnOf(a[c], U, hs, rows, c, c)
    BY <2>3
  <2>5. Len(cards) = c
    BY <1>9, <2>4 DEF DrawnOf
  <2>6. ASSUME NEW i \in 1..c
        PROVE  cards[i].top = rows - U[c - i + 1] /\ cards[i].height = hs[n - c + i]
    BY <1>9, <2>4 DEF DrawnOf, n
  <2>7. ASSUME NEW i \in 1..c
        PROVE  /\ U[c - i + 1] = hs[n - c + i] + (IF i = c THEN 0 ELSE U[c - i] + Gap)
               /\ U[c - i] \in Nat /\ hs[n - c + i] \in Nat /\ hs[n - c + i] > 0
    <3>1. c - i + 1 \in 1..n /\ n + 1 - (c - i + 1) = n - c + i /\ (c - i + 1 = 1 <=> i = c)
          /\ (c - i + 1) - 1 = c - i /\ c - i \in 0..n /\ n - c + i \in 1..n
      BY <1>1, <1>5
    <3> QED
      BY <1>1, <1>4, <3>1
  <2>8. \A i \in 1..c : cards[i].height = hs[n - c + i]
    BY <2>6
  <2>9. cards[c].top + cards[c].height = rows
    <3>1. c \in 1..c /\ c - c + 1 = 1
      BY <1>5
    <3>2. cards[c].top = rows - U[1] /\ cards[c].height = hs[n - c + c] /\ hs[n - c + c] \in Nat
      BY <2>6, <2>7, <3>1
    <3>3. U[1] = hs[n - c + c]
      <4>1. U[c - c + 1] = hs[n - c + c] + 0
        BY <2>7, <3>1
      <4> QED
        BY <3>1, <3>2, <4>1
    <3> QED
      BY <1>1, <3>2, <3>3
  <2>10. ASSUME NEW i \in 1..c - 1 PROVE cards[i + 1].top = cards[i].top + cards[i].height + Gap
    <3>1. i \in 1..c /\ i + 1 \in 1..c /\ c - (i + 1) + 1 = c - i /\ i # c
      BY <1>5
    <3> DEFINE v == U[c - i]   x == hs[n - c + i]
    <3>2. cards[i + 1].top = rows - v /\ cards[i].top = rows - U[c - i + 1] /\ cards[i].height = x
      BY <2>6, <3>1
    <3>3. U[c - i + 1] = x + (v + Gap) /\ v \in Nat /\ x \in Nat /\ Gap \in Nat
      BY <2>7, <3>1, PanelAssumption
    <3> HIDE DEF v, x
    <3> QED
      BY <1>1, <3>2, <3>3
  <2>11. ASSUME c < n PROVE cards[1].top < Gap + hs[n - c]
    <3>1. 1 \in 1..c /\ c - 1 + 1 = c /\ n - c \in 1..n /\ c + 1 \in 1..n /\ n + 1 - (c + 1) = n - c
          /\ c + 1 # 1 /\ (c + 1) - 1 = c
      BY <1>1, <1>5, <2>11
    <3> DEFINE v == U[c]   x == hs[n - c]
    <3>2. cards[1].top = rows - v /\ v \in Nat /\ x \in Nat /\ x > 0 /\ Gap \in Nat
      BY <1>1, <1>5, <2>6, <3>1, PanelAssumption
    <3>3. U[c + 1] = x + (v + Gap)
      BY <1>4, <3>1
    <3>4. v >= rows \/ U[c + 1] > rows
      BY <1>5, <2>11
    <3> HIDE DEF v, x
    <3>5. cards[1].top < Gap + x
      BY <1>1, <3>2, <3>3, <3>4
    <3> QED
      BY <3>5 DEF x
  <2>12. c > 0
    BY <1>5
  <2> QED
    BY <2>5, <2>8, <2>9, <2>10, <2>11, <2>12, Zenon DEF Fills, cards, n
<1>11. ASSUME ~(U[c] <= rows) PROVE Fills(hs, rows)
  <2>1. c = 1
    BY <1>5, <1>11
  <2>2. hs[n] = U[1] /\ hs[n] \in Nat /\ hs[n] > rows
    <3>1. n + 1 - 1 = n /\ 1 \in 1..n /\ n \in 1..n
      BY <1>1
    <3>2. U[1] = hs[n] + 0 /\ hs[n] \in Nat
      BY <1>1, <1>4, <3>1
    <3> QED
      BY <1>1, <1>5, <1>11, <2>1, <3>2
  <2>3. a[0] = [y |-> 0, cards |-> <<>>]
    BY <1>7, <1>9, <1>11
  <2>4. a[1] = DrawOne(a[0], hs[n], rows)
    <3>1. n - 1 + 1 = n /\ 1 \in 1..1 /\ 1 - 1 = 0
      BY <1>1
    <3> QED
      BY <1>6, <1>9, <2>1, <3>1
  <2> DEFINE acc0 == a[0]
             bottom == acc0.y + Min({hs[n], rows - acc0.y})
             z == IF bottom + Gap <= rows THEN bottom + Gap ELSE bottom
             card == [top |-> acc0.y, height |-> bottom - acc0.y]
  <2>5. acc0.y = 0 /\ acc0.cards = <<>>
    BY <2>3
  <2>6. bottom = rows
    <3>1. rows - 0 = rows
      BY <1>1
    <3>2. Min({hs[n], rows}) = rows
      BY <1>1, <2>2, MinOfTwo
    <3> QED
      BY <1>1, <2>5, <3>1, <3>2
  <2>7. card = [top |-> 0, height |-> rows]
    <3> HIDE DEF acc0, bottom
    <3>1. bottom - acc0.y = rows
      BY <1>1, <2>5, <2>6
    <3> QED
      BY <2>5, <3>1
  <2>8. ~(acc0.y >= rows)
    BY <1>1, <2>5
  <2> HIDE DEF acc0
  <2>9. DrawOne(acc0, hs[n], rows) = [y |-> z, cards |-> Append(acc0.cards, card)]
    BY <2>8, Zenon DEF DrawOne, z, card, bottom
  <2> HIDE DEF z, card, bottom
  <2>10. cards = Append(<<>>, card)
    BY <1>9, <2>1, <2>4, <2>5, <2>9 DEF acc0
  <2>11. cards = <<card>>
    BY <2>10
  <2>12. Len(cards) = 1 /\ cards[1].top = 0 /\ cards[1].height = rows
    BY <2>7, <2>11
  <2>13. ASSUME 1 < n PROVE 0 < Gap + hs[n - 1]
    <3>1. n - 1 \in 1..n /\ Gap \in Nat
      BY <1>1, <2>13, PanelAssumption
    <3>2. hs[n - 1] \in Nat /\ hs[n - 1] > 0
      BY <1>1, <3>1
    <3> QED
      BY <3>1, <3>2
  <2>14. 1 > 0 /\ 0 + rows = rows /\ (\A i \in 1..1 - 1 : FALSE) /\ 1 \in 1..1
    BY <1>1
  <2>15. \A i \in 1..1 : cards[i].height = hs[n - 1 + i] \/ (1 = 1 /\ cards[1].height = rows)
    BY <2>12
  <2> QED
    BY <2>12, <2>13, <2>14, <2>15, Zenon DEF Fills, cards, n
<1>12. U[c] <= rows \/ ~(U[c] <= rows)
  OBVIOUS
<1> QED
  BY <1>10, <1>11, <1>12, Zenon

\* Every message takes rows.
LEMMA HeightType ==
  ASSUME NEW m \in Messages, NEW width \in Nat
  PROVE  MessageHeight(m, width) \in Nat \ {0}
<1> DEFINE w == ContentWidth(width)
<1>1. w \in Nat \ {0}
  <2>1. Max({1, width - 2 * CardPadX}) = IF 1 >= width - 2 * CardPadX THEN 1 ELSE width - 2 * CardPadX
    BY MaxOfTwo DEF CardPadX
  <2> QED
    BY <2>1 DEF ContentWidth, CardPadX
<1>2. <<m.heading>> \in Seq(Nat) /\ m.body \in Seq(Nat)
  <2>1. m.heading \in Nat /\ m.body \in UNION {[1..n -> Lengths] : n \in 1..2}
    BY PanelAssumption DEF Messages
  <2>2. PICK n \in 1..2 : m.body \in [1..n -> Lengths]
    BY <2>1
  <2>3. m.body \in [1..n -> Nat] /\ n \in Nat
    <3>1. Lengths \subseteq Nat
      BY PanelAssumption
    <3>2. m.body = [i \in 1..n |-> m.body[i]] /\ \A i \in 1..n : m.body[i] \in Lengths
      BY <2>2, Zenon
    <3>3. m.body \in [1..n -> Nat]
      BY <3>1, <3>2, Zenon
    <3> QED
      BY <3>3
  <2> QED
    BY <2>1, <2>3
<1> HIDE DEF w
<1>3. RowsOf(<<m.heading>>, w) \in Nat /\ RowsOf(m.body, w) \in Nat
  BY <1>1, <1>2, RowsOfType
<1> QED
  BY <1>3 DEF MessageHeight, CardPadY, w

\* However high and wide the panel is, whatever has been said, and wherever
\* the reader has scrolled to: the message there is shown at the bottom, whole
\* if it fits, with as many above it as fit, none overlapping and none cut
\* (render_transcript).
THEOREM TranscriptIsFilled == Spec => []TranscriptFills
<1> DEFINE ChatInv == chat \in Seq(Messages)
<1>1. Init => ChatInv
  BY EmptySeq DEF Init
<1>2. ChatInv /\ [Next]_vars => ChatInv'
  <2> SUFFICES ASSUME ChatInv, [Next]_vars PROVE ChatInv'
    OBVIOUS
  <2>1. CASE ChatGrows
    BY <2>1 DEF ChatGrows
  <2>2. CASE ChatCleared
    BY <2>2, EmptySeq DEF ChatCleared
  <2>3. CASE UNCHANGED chat
    BY <2>3
  <2>4. UNCHANGED chat \/ ChatGrows \/ ChatCleared
    BY Zenon DEF Next, vars, Insert, Backspace, Delete, MoveCursor, Forget
  <2> QED
    BY <2>1, <2>2, <2>3, <2>4
<1>3. ASSUME ChatInv, NEW width \in Widths, NEW rows \in Heights, NEW offset \in 0..Len(chat)
      PROVE  Fills(HeightsUpTo(offset, width), rows)
  <2> DEFINE hs == HeightsUpTo(offset, width)
             k  == Len(chat) - Min({offset, Len(chat)})
  <2>1. width \in Nat /\ rows \in Nat \ {0}
    BY PanelAssumption
  <2>2. Len(chat) \in Nat /\ \A i \in 1..Len(chat) : chat[i] \in Messages
    BY <1>3
  <2>3. k \in Nat /\ k <= Len(chat)
    <3>1. Min({offset, Len(chat)}) = IF offset <= Len(chat) THEN offset ELSE Len(chat)
      BY <2>2, MinOfTwo
    <3> QED
      BY <2>2, <3>1
  <2> HIDE DEF k
  <2>4. \A i \in 1..k : MessageHeight(chat[i], width) \in Nat \ {0}
    BY <2>1, <2>2, <2>3, HeightType
  <2>5. hs = [i \in 1..k |-> MessageHeight(chat[i], width)]
    BY Zenon DEF HeightsUpTo, k
  <2>6. hs \in Seq(Nat \ {0})
    BY <2>3, <2>4, <2>5
  <2> HIDE DEF hs
  <2>7. hs = <<>> => Fills(hs, rows)
    BY DEF Fills
  <2>8. hs # <<>> => Fills(hs, rows)
    BY <2>1, <2>6, DrawnFills, Zenon
  <2> QED
    BY <2>7, <2>8, Zenon DEF hs
<1>4. ChatInv => TranscriptFills
  <2> HIDE DEF ChatInv
  <2> QED
    BY <1>3, Zenon DEF TranscriptFills, Fills
<1> QED
  BY <1>1, <1>2, <1>4, PTL DEF Spec
=============================================================================
