----------------------------- MODULE NumberFacts -----------------------------
(***************************************************************************)
(* Facts about numbers, and about sequences of sequences, the proofs share *)
(* and the provers do not find by themselves.                              *)
(*                                                                         *)
(* A byte of a ring lies at a place modulo the size of the ring, and bytes *)
(* and packets are numbered modulo a bound: what the remainder of a        *)
(* division by a positive number is that is not known.                     *)
(*                                                                         *)
(* The library's induction theorems cannot be instantiated here; a least   *)
(* element of a set of naturals, got from the well-founded order on finite *)
(* sets, takes their place.                                                *)
(*                                                                         *)
(* FlattenSeq is a recursive function inside a LET: Flattened says which,  *)
(* FlattenType what it returns and FlattenHead how its result begins.      *)
(***************************************************************************)
EXTENDS Integers, SequencesExt, SequenceTheorems, FiniteSetTheorems, TLAPS

(* What division with remainder determines, for a divisor that is a variable. *)
LEMMA Remainder ==
  ASSUME NEW T \in Nat \ {0}, NEW x \in Int, NEW q \in Int, NEW r \in 0 .. T - 1,
         x = T * q + r
  PROVE  x % T = r
<1>1. PICK p \in Int, m \in 0 .. T - 1 : x = T * p + m /\ x % T = m
  <2>1. x = T * (x \div T) + (x % T) /\ x % T \in 0 .. T - 1 /\ x \div T \in Int
    OBVIOUS
  <2> QED
    BY <2>1
<1>2. T * (q - p) = m - r
  BY <1>1
<1>3. q - p < 1
  <2> SUFFICES ASSUME q - p >= 1 PROVE FALSE
    OBVIOUS
  <2>1. T * (q - p) >= T
    OBVIOUS
  <2> QED
    BY <2>1, <1>2
<1>4. q - p > -1
  <2> SUFFICES ASSUME q - p <= -1 PROVE FALSE
    OBVIOUS
  <2>1. T * (q - p) <= -T
    OBVIOUS
  <2> QED
    BY <2>1, <1>2
<1>5. q = p
  BY <1>3, <1>4
<1> QED
  BY <1>1, <1>2, <1>5

(* Every integer has a quotient and a remainder. *)
LEMMA Quotient ==
  ASSUME NEW T \in Nat \ {0}, NEW x \in Int
  PROVE  /\ x % T \in 0 .. T - 1
         /\ \E q \in Int : x = T * q + (x % T)
<1>1. x = T * (x \div T) + (x % T) /\ x % T \in 0 .. T - 1 /\ x \div T \in Int
  OBVIOUS
<1> QED
  BY <1>1

(* A number that is kept as its remainder can be added to. *)
LEMMA AddMod ==
  ASSUME NEW T \in Nat \ {0}, NEW a \in Int, NEW c \in Int
  PROVE  ((a % T) + c) % T = (a + c) % T
<1>1. PICK q \in Int : a = T * q + (a % T)
  BY Quotient
<1>2. a % T \in Int
  BY Quotient
<1> DEFINE x == (a % T) + c
<1>3. x \in Int
  BY <1>2
<1> HIDE DEF x
<1>4. PICK p \in Int : x = T * p + (x % T)
  BY <1>3, Quotient
<1>5. x % T \in 0 .. T - 1
  BY <1>3, Quotient
<1>6. a + c = T * (q + p) + (x % T)
  <2>1. T * (q + p) = T * q + T * p
    OBVIOUS
  <2>2. a + c = T * q + x
    BY <1>1, <1>2 DEF x
  <2> QED
    BY <1>4, <1>5, <2>1, <2>2
<1>7. (a + c) % T = x % T
  <2> DEFINE r == x % T
  <2>1. r \in 0 .. T - 1 /\ a + c = T * (q + p) + r /\ q + p \in Int /\ a + c \in Int
    BY <1>5, <1>6
  <2> HIDE DEF r
  <2>2. (a + c) % T = r
    BY <2>1, Remainder
  <2> QED
    BY <2>2 DEF r
<1> QED
  BY <1>7 DEF x

(* Where a pointer of at most one turn too many is. *)
LEMMA SmallMod ==
  ASSUME NEW T \in Nat \ {0}, NEW x \in Nat, x < 2 * T
  PROVE  x % T = IF x < T THEN x ELSE x - T
<1>1. CASE x < T
  <2>1. x = T * 0 + x
    OBVIOUS
  <2> QED
    BY <1>1, <2>1, Remainder
<1>2. CASE x >= T
  <2>1. x = T * 1 + (x - T)
    OBVIOUS
  <2> QED
    BY <1>2, <2>1, Remainder
<1> QED
  BY <1>1, <1>2

(* Where a cell is that lies before the offset. *)
LEMMA DistanceMod ==
  ASSUME NEW T \in Nat \ {0}, NEW x \in Int, -T <= x, x < T
  PROVE  x % T = IF x < 0 THEN x + T ELSE x
<1>1. CASE x >= 0
  <2>1. x = T * 0 + x
    OBVIOUS
  <2> QED
    BY <1>1, <2>1, Remainder
<1>2. CASE x < 0
  <2>1. x = T * (-1) + (x + T)
    OBVIOUS
  <2> QED
    BY <1>2, <2>1, Remainder
<1> QED
  BY <1>1, <1>2

-----------------------------------------------------------------------------
(* A set of natural numbers that is not empty has a least element. *)
LEMMA LeastNatural ==
  ASSUME NEW T \in SUBSET Nat, T # {}
  PROVE  \E m \in T : \A k \in T : m <= k
<1>1. PICK n \in T : TRUE
  OBVIOUS
<1> DEFINE B == T \cap 0 .. n
           F == {0 .. t : t \in B}
<1>2. F \subseteq FiniteSubsetsOf(0 .. n)
  <2> SUFFICES ASSUME NEW t \in B PROVE 0 .. t \in FiniteSubsetsOf(0 .. n)
    OBVIOUS
  <2>1. IsFiniteSet(0 .. t)
    BY FS_Interval
  <2> QED
    BY <2>1 DEF FiniteSubsetsOf
<1>3. PICK X \in F : \A Y \in F : ~ (<<Y, X>> \in StrictSubsetOrdering(0 .. n))
  <2>1. F # {}
    BY <1>1
  <2> HIDE DEF F
  <2> QED
    BY <1>2, <2>1, FS_StrictSubsetOrderingWellFounded, WFMin
<1>4. PICK m \in B : X = 0 .. m
  BY <1>3
<1>5. ASSUME NEW k \in B PROVE m <= k
  <2> SUFFICES ASSUME k < m PROVE FALSE
    OBVIOUS
  <2>1. 0 .. k \in F
    OBVIOUS
  <2>2. 0 .. k \subseteq 0 .. m /\ m \in 0 .. m /\ m \notin 0 .. k
    OBVIOUS
  <2>3. 0 .. k \in SUBSET (0 .. n) /\ 0 .. m \in SUBSET (0 .. n)
    OBVIOUS
  <2>4. <<0 .. k, 0 .. m>> \in StrictSubsetOrdering(0 .. n)
    BY <2>2, <2>3 DEF StrictSubsetOrdering
  <2> QED
    BY <1>3, <1>4, <2>1, <2>4
<1> QED
  BY <1>1, <1>4, <1>5

(* A set of integers between two bounds has a greatest element. *)
LEMMA GreatestBetween ==
  ASSUME NEW a \in Int, NEW b \in Int, NEW T \in SUBSET (a .. b), T # {}
  PROVE  \E m \in T : \A k \in T : k <= m
<1> DEFINE D == {b - k : k \in T}
<1>1. D \in SUBSET Nat /\ D # {}
  <2>1. ASSUME NEW k \in T PROVE b - k \in Nat
    <3>1. k \in a .. b
      OBVIOUS
    <3> QED
      BY <3>1
  <2>2. D \subseteq Nat
    BY <2>1
  <2>3. PICK k \in T : TRUE
    OBVIOUS
  <2>4. b - k \in D
    BY <2>3
  <2> QED
    BY <2>2, <2>4
<1>2. PICK d \in D : \A k \in D : d <= k
  <2> HIDE DEF D
  <2> QED
    BY <1>1, LeastNatural
<1>3. PICK m \in T : d = b - m
  BY <1>2
<1>4. ASSUME NEW k \in T PROVE k <= m
  <2>1. b - k \in D /\ k \in Int /\ m \in Int
    OBVIOUS
  <2>2. d <= b - k
    BY <2>1, <1>2
  <2> QED
    BY <2>1, <2>2, <1>3
<1> QED
  BY <1>3, <1>4

(* A set that holds 0, and with a number below n the next one, holds all numbers
   up to n. *)
LEMMA UpTo ==
  ASSUME NEW n \in Nat, NEW T, 0 \in T, \A m \in Nat : m \in T /\ m < n => m + 1 \in T
  PROVE  0 .. n \subseteq T
<1> DEFINE M == (0 .. n) \ T
<1> SUFFICES ASSUME M # {} PROVE FALSE
  OBVIOUS
<1>1. M \in SUBSET Nat
  OBVIOUS
<1>2. PICK m \in M : \A k \in M : m <= k
  <2> HIDE DEF M
  <2> QED
    BY <1>1, LeastNatural
<1>3. m \in Nat /\ m # 0 /\ m <= n
  OBVIOUS
<1>4. m - 1 \in T
  <2> SUFFICES ASSUME m - 1 \notin T PROVE FALSE
    OBVIOUS
  <2>1. m - 1 \in M
    BY <1>3
  <2> QED
    BY <2>1, <1>2, <1>3
<1> QED
  BY <1>3, <1>4

-----------------------------------------------------------------------------
(* Concatenating a sequence of sequences. *)

Flattened(ss, n, g) ==
  g = [i \in 1 .. n |-> IF i = 1 THEN ss[i] ELSE g[i - 1] \o ss[i]]

(* An element of the recursive function in FlattenSeq. *)
LEMMA FlattenedAt ==
  ASSUME NEW ss, NEW n \in Nat, NEW g, Flattened(ss, n, g), NEW i \in 1 .. n
  PROVE  /\ i = 1 => g[i] = ss[i]
         /\ i # 1 => g[i] = g[i - 1] \o ss[i]
<1> DEFINE r == [j \in 1 .. n |-> IF j = 1 THEN ss[j] ELSE g[j - 1] \o ss[j]]
<1>1. g = r
  BY DEF Flattened
<1>2. r[i] = IF i = 1 THEN ss[i] ELSE g[i - 1] \o ss[i]
  OBVIOUS
<1> HIDE DEF r
<1> QED
  BY <1>1, <1>2

(* The recursive function in FlattenSeq exists. *)
LEMMA FlattenedExists ==
  ASSUME NEW ss, NEW n \in Nat
  PROVE  \E g : Flattened(ss, n, g)
<1> DEFINE T == {m \in Nat : \E g : Flattened(ss, m, g)}
<1>1. 0 \in T
  <2>1. Flattened(ss, 0, [i \in 1 .. 0 |-> 0])
    BY DEF Flattened
  <2> QED
    BY <2>1
<1>2. ASSUME NEW m \in Nat, m \in T PROVE m + 1 \in T
  <2>1. PICK g : Flattened(ss, m, g)
    BY <1>2
  <2> DEFINE h == [i \in 1 .. m + 1 |->
                     IF i <= m THEN g[i] ELSE IF i = 1 THEN ss[i] ELSE g[i - 1] \o ss[i]]
  <2>2. ASSUME NEW i \in 1 .. m + 1
        PROVE  h[i] = IF i = 1 THEN ss[i] ELSE h[i - 1] \o ss[i]
    <3>1. CASE i <= m
      <4>1. (i = 1 => g[i] = ss[i]) /\ (i # 1 => g[i] = g[i - 1] \o ss[i])
        <5>1. \A j \in 1 .. m : (j = 1 => g[j] = ss[j]) /\ (j # 1 => g[j] = g[j - 1] \o ss[j])
          BY <2>1, FlattenedAt, Zenon
        <5>2. i \in 1 .. m
          BY <3>1
        <5> QED
          BY <5>1, <5>2, Zenon
      <4>2. i # 1 => h[i - 1] = g[i - 1]
        BY <3>1
      <4> QED
        BY <3>1, <4>1, <4>2
    <3>2. CASE i = m + 1
      <4>1. i # 1 => h[i - 1] = g[i - 1]
        BY <3>2
      <4> QED
        BY <3>2, <4>1
    <3> QED
      BY <3>1, <3>2
  <2>3. h = [i \in 1 .. m + 1 |-> IF i = 1 THEN ss[i] ELSE h[i - 1] \o ss[i]]
    BY <2>2
  <2>4. Flattened(ss, m + 1, h)
    BY <2>3 DEF Flattened
  <2> QED
    BY <2>4
<1>3. 0 .. n \subseteq T
  <2> HIDE DEF T
  <2> QED
    BY <1>1, <1>2, UpTo
<1> QED
  BY <1>3

(* It keeps to the elements of the sequences. *)
LEMMA FlattenedType ==
  ASSUME NEW S, NEW n \in Nat, NEW ss \in [1 .. n -> Seq(S)], NEW f, Flattened(ss, n, f)
  PROVE  \A i \in 1 .. n : f[i] \in Seq(S)
<1> DEFINE T == {m \in Nat : m \in 1 .. n => f[m] \in Seq(S)}
<1>1. ASSUME NEW m \in Nat, m \in T PROVE m + 1 \in T
  <2> SUFFICES ASSUME m + 1 \in 1 .. n PROVE f[m + 1] \in Seq(S)
    OBVIOUS
  <2>1. f[m + 1] = IF m = 0 THEN ss[m + 1] ELSE f[m] \o ss[m + 1]
    <3>1. \A i \in 1 .. n : (i = 1 => f[i] = ss[i]) /\ (i # 1 => f[i] = f[i - 1] \o ss[i])
      BY FlattenedAt, Zenon
    <3>2. (m + 1) - 1 = m /\ (m + 1 = 1 <=> m = 0)
      OBVIOUS
    <3> QED
      BY <3>1, <3>2
  <2>2. ss[m + 1] \in Seq(S)
    OBVIOUS
  <2>3. CASE m = 0
    BY <2>1, <2>2, <2>3
  <2>4. CASE m # 0
    <3>1. f[m] \in Seq(S)
      BY <1>1, <2>4
    <3> QED
      BY <2>1, <2>2, <2>4, <3>1, ConcatProperties
  <2> QED
    BY <2>3, <2>4
<1>2. 0 .. n \subseteq T
  <2>1. 0 \in T
    OBVIOUS
  <2> HIDE DEF T
  <2> QED
    BY <1>1, <2>1, UpTo
<1> QED
  BY <1>2

(* FlattenSeq is such a concatenation. *)
LEMMA FlattenType ==
  ASSUME NEW S, NEW ss \in Seq(Seq(S))
  PROVE  FlattenSeq(ss) \in Seq(S)
<1> DEFINE n == Len(ss)
           f == CHOOSE g : Flattened(ss, n, g)
<1>1. n \in Nat /\ ss \in [1 .. n -> Seq(S)]
  OBVIOUS
<1>2. Flattened(ss, n, f)
  BY <1>1, FlattenedExists
<1>3. FlattenSeq(ss) = IF n = 0 THEN ss ELSE f[n]
  BY DEF FlattenSeq, Flattened
<1> HIDE DEF f, n
<1>4. CASE n = 0
  <2>1. ss = << >>
    BY <1>4 DEF n
  <2> QED
    BY <1>3, <1>4, <2>1
<1>5. CASE n # 0
  <2>1. \A i \in 1 .. n : f[i] \in Seq(S)
    BY <1>1, <1>2, FlattenedType, Zenon
  <2>2. f[n] \in Seq(S)
    BY <1>1, <1>5, <2>1
  <2> QED
    BY <1>3, <1>5, <2>2
<1> QED
  BY <1>4, <1>5

(* FlattenSeq begins with the first sequence. *)
LEMMA FlattenHead ==
  ASSUME NEW S, NEW ss \in Seq(Seq(S)), ss # << >>
  PROVE  FlattenSeq(ss) = ss[1] \o FlattenSeq(Tail(ss))
<1> DEFINE n == Len(ss)
           ts == Tail(ss)
           f == CHOOSE g : Flattened(ss, n, g)
           h == CHOOSE g : Flattened(ts, n - 1, g)
<1>1. /\ n \in Nat \ {0} /\ n - 1 \in Nat /\ Len(ts) = n - 1 /\ ts \in Seq(Seq(S))
      /\ \A i \in 1 .. n - 1 : ts[i] = ss[i + 1]
      /\ \A i \in 1 .. n : ss[i] \in Seq(S)
  BY EmptySeq
<1>2. Flattened(ss, n, f) /\ Flattened(ts, n - 1, h)
  BY <1>1, FlattenedExists
<1>3. FlattenSeq(ss) = IF n = 0 THEN ss ELSE f[n]
  BY DEF FlattenSeq, Flattened
<1>4. FlattenSeq(ts) = IF n - 1 = 0 THEN ts ELSE h[n - 1]
  BY <1>1 DEF FlattenSeq, Flattened
<1>5. ss \in [1 .. n -> Seq(S)] /\ ts \in [1 .. n - 1 -> Seq(S)]
  <2>1. \A s \in Seq(Seq(S)) : s \in [1 .. Len(s) -> Seq(S)]
    BY ElementOfSeq
  <2> HIDE DEF ts, f, h
  <2> QED
    BY <1>1, <2>1
<1>6. ts = << >> <=> n - 1 = 0
  BY <1>1, EmptySeq
<1> HIDE DEF f, h, n, ts
<1>7. ASSUME NEW i \in 1 .. n
      PROVE  (i = 1 => f[i] = ss[i]) /\ (i # 1 => f[i] = f[i - 1] \o ss[i])
  <2>1. n \in Nat /\ Flattened(ss, n, f)
    BY <1>1, <1>2
  <2> QED
    BY <2>1, FlattenedAt
<1>8. ASSUME NEW i \in 1 .. n - 1
      PROVE  (i = 1 => h[i] = ts[i]) /\ (i # 1 => h[i] = h[i - 1] \o ts[i])
  <2>1. n - 1 \in Nat /\ Flattened(ts, n - 1, h)
    BY <1>1, <1>2
  <2> QED
    BY <2>1, FlattenedAt
<1>9. \A i \in 1 .. n - 1 : h[i] \in Seq(S)
  BY <1>1, <1>2, <1>5, FlattenedType, Zenon
<1> DEFINE T == {m \in Nat : m \in 1 .. n - 1 => f[m + 1] = ss[1] \o h[m]}
<1>10. 0 .. n - 1 \subseteq T
  <2>1. ASSUME NEW m \in Nat, m \in T PROVE m + 1 \in T
    <3> DEFINE Goal == f[(m + 1) + 1] = ss[1] \o h[m + 1]
    <3>1. SUFFICES ASSUME m + 1 \in 1 .. n - 1 PROVE Goal
      <4> HIDE DEF Goal
      <4>1. m + 1 \in Nat /\ (m + 1 \in 1 .. n - 1 => Goal)
        OBVIOUS
      <4> QED
        BY <4>1 DEF Goal
    <3>2. m \in 1 .. n - 1 => f[m + 1] = ss[1] \o h[m]
      BY <2>1
    <3> HIDE DEF T
    <3>3. /\ (m + 1) + 1 \in 1 .. n /\ (m + 1) + 1 # 1 /\ ((m + 1) + 1) - 1 = m + 1
          /\ (m + 1) - 1 = m /\ (m # 0 => m \in 1 .. n - 1 /\ m + 1 # 1) /\ 1 \in 1 .. n
      BY <1>1, <3>1
    <3>4. f[(m + 1) + 1] = f[m + 1] \o ss[(m + 1) + 1] /\ ts[m + 1] = ss[(m + 1) + 1]
      BY <1>1, <1>7, <3>1, <3>3, Zenon
    <3>5. CASE m = 0
      <4>1. f[1] = ss[1] /\ h[m + 1] = ts[m + 1] /\ f[m + 1] = f[1]
        <5>1. m + 1 = 1
          BY <3>5
        <5> QED
          BY <1>7, <1>8, <3>1, <3>3, <5>1
      <4> QED
        BY <3>4, <4>1
    <3>6. CASE m # 0
      <4>1. f[m + 1] = ss[1] \o h[m] /\ h[m + 1] = h[m] \o ts[m + 1]
        BY <1>8, <3>1, <3>2, <3>3, <3>6
      <4> DEFINE x == ss[1]
                 y == h[m]
                 z == ss[(m + 1) + 1]
      <4>2. x \in Seq(S) /\ y \in Seq(S) /\ z \in Seq(S)
        BY <1>1, <1>9, <3>3, <3>6
      <4>3. f[(m + 1) + 1] = (x \o y) \o z /\ h[m + 1] = y \o z
        BY <3>4, <4>1
      <4> HIDE DEF x, y, z
      <4>4. (x \o y) \o z = x \o (y \o z)
        BY <4>2, ConcatAssociative, SMTT(25)
      <4> QED
        BY <4>3, <4>4 DEF x
    <3> QED
      BY <3>5, <3>6
  <2>2. 0 \in T
    OBVIOUS
  <2> HIDE DEF T
  <2> QED
    BY <1>1, <2>1, <2>2, UpTo
<1>11. CASE n = 1
  <2>1. FlattenSeq(ss) = ss[1] /\ FlattenSeq(ts) = << >>
    BY <1>1, <1>3, <1>4, <1>6, <1>7, <1>11
  <2>2. ss[1] \in Seq(S)
    BY <1>1
  <2>3. ss[1] \o << >> = ss[1]
    BY <2>2, ConcatEmptySeq, Zenon
  <2> QED
    BY <2>1, <2>3 DEF ts
<1>12. CASE n # 1
  <2>1. n - 1 \in 0 .. n - 1 /\ n - 1 \in 1 .. n - 1 /\ (n - 1) + 1 = n
    BY <1>1, <1>12
  <2>2. f[n] = ss[1] \o h[n - 1]
    BY <1>10, <2>1
  <2>3. FlattenSeq(ss) = f[n] /\ FlattenSeq(ts) = h[n - 1]
    <3>1. n # 0 /\ n - 1 # 0
      BY <1>1, <1>12
    <3> QED
      BY <1>3, <1>4, <3>1, Zenon
  <2> QED
    BY <2>2, <2>3, Zenon DEF ts
<1> QED
  BY <1>11, <1>12
=============================================================================
