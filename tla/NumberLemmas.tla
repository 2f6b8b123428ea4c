---------------------------- MODULE NumberLemmas ----------------------------
(***************************************************************************)
(* Facts about natural numbers that the proofs of several components use:  *)
(* induction over the naturals as a statement about sets, with which every *)
(* predicate P can be proved by way of {n \in Nat : P(n)}, quotients and   *)
(* remainders by a divisor that is a parameter, and powers of two, which   *)
(* the provers know nothing of: a power is the number of subsets.          *)
(***************************************************************************)
EXTENDS Integers, FiniteSets, WellFoundedInduction, FiniteSetTheorems, TLAPS

\* A set of natural numbers that is not empty has a least element.
LEMMA LeastNatural ==
    ASSUME NEW T, T \subseteq Nat, T # {}
    PROVE  \E x \in T : \A y \in T : x <= y
<1> DEFINE R == OpToRel(<, Nat)
<1>1. IsWellFoundedOn(R, Nat)
  BY NatLessThanWellFounded
<1>2. \A x, y \in Nat : x < y => <<x, y>> \in R
  BY DEF OpToRel
<1> HIDE DEF R
<1>3. PICK x \in T : \A y \in T : ~ (<<y, x>> \in R)
  BY <1>1, WFMin
<1>4. ASSUME NEW y \in T PROVE x <= y
  <2>1. x \in Nat /\ y \in Nat
    BY <1>3, <1>4
  <2>2. ~(y < x)
    BY <1>2, <1>3, <2>1
  <2> QED BY <2>1, <2>2
<1> QED BY <1>4

\* Induction over the naturals.
LEMMA InductionOverNat ==
    ASSUME NEW S, 0 \in S, \A n \in Nat : n \in S => n + 1 \in S
    PROVE  \A n \in Nat : n \in S
<1> SUFFICES ASSUME ~(Nat \subseteq S) PROVE FALSE
  OBVIOUS
<1>1. PICK x \in Nat \ S : \A y \in Nat \ S : x <= y
  BY LeastNatural
<1>2. x - 1 \in Nat /\ x - 1 \in S
  BY <1>1
<1> QED BY <1>1, <1>2

-----------------------------------------------------------------------------
(* Quotients and remainders.                                               *)

LEMMA ModRange ==
    ASSUME NEW x \in Nat, NEW n \in Nat \ {0}
    PROVE  x % n \in 0..(n - 1)
OBVIOUS

LEMMA DivMod ==
    ASSUME NEW x \in Nat, NEW n \in Nat \ {0}
    PROVE  x \div n \in Nat /\ x = n * (x \div n) + (x % n)
OBVIOUS

LEMMA Multiples ==
    ASSUME NEW n \in Nat \ {0}, NEW p \in Nat, NEW q \in Nat, p < q
    PROVE  n * p + n <= n * q
<1>1. q - p \in Nat /\ q - p >= 1
  OBVIOUS
<1>2. n * (q - p) >= n
  BY <1>1, SMT
<1>3. n * q = n * p + n * (q - p)
  BY SMT
<1> QED BY <1>2, <1>3

\* Two numbers less than n apart have different remainders.
LEMMA RemaindersDiffer ==
    ASSUME NEW n \in Nat \ {0}, NEW x \in Nat, NEW y \in Nat, x < y, y < x + n
    PROVE  x % n # y % n
<1> SUFFICES ASSUME x % n = y % n PROVE FALSE
  OBVIOUS
<1>1. /\ x \div n \in Nat /\ x = n * (x \div n) + (x % n)
      /\ y \div n \in Nat /\ y = n * (y \div n) + (x % n)
      /\ x % n \in 0..(n - 1)
  BY DivMod, ModRange
<1>2. CASE x \div n < y \div n
  <2>1. n * (x \div n) + n <= n * (y \div n)
    BY <1>1, <1>2, Multiples
  <2> QED BY <1>1, <2>1
<1>3. CASE y \div n < x \div n
  <2>1. n * (y \div n) + n <= n * (x \div n)
    BY <1>1, <1>3, Multiples
  <2> QED BY <1>1, <2>1
<1>4. CASE x \div n = y \div n
  BY <1>1, <1>4
<1> QED BY <1>1, <1>2, <1>3, <1>4

LEMMA RemainderUnique ==
    ASSUME NEW n \in Nat \ {0}, NEW q \in Nat, NEW r \in 0..(n - 1), NEW x \in Nat,
           x = n * q + r
    PROVE  x % n = r
<1>1. /\ x \div n \in Nat
      /\ x = n * (x \div n) + (x % n)
      /\ x % n \in 0..(n - 1)
  BY DivMod, ModRange
<1>2. CASE x \div n < q
  <2>1. n * (x \div n) + n <= n * q
    BY <1>1, <1>2, Multiples
  <2>2. n * q \in Nat /\ n * (x \div n) \in Nat
    BY <1>1
  <2> QED BY <1>1, <2>1, <2>2
<1>3. CASE q < x \div n
  <2>1. n * q + n <= n * (x \div n)
    BY <1>1, <1>3, Multiples
  <2>2. n * q \in Nat /\ n * (x \div n) \in Nat
    BY <1>1
  <2> QED BY <1>1, <2>1, <2>2
<1>4. CASE x \div n = q
  BY <1>1, <1>4
<1> QED BY <1>1, <1>2, <1>3, <1>4

\* A counter that wraps after each step is the number of steps, wrapped.
LEMMA NextRemainder ==
    ASSUME NEW n \in Nat \ {0}, NEW x \in Nat
    PROVE  ((x % n) + 1) % n = (x + 1) % n
<1> DEFINE q == x \div n
           r == x % n
<1>1. q \in Nat /\ r \in 0..(n - 1) /\ x = n * q + r
  BY DivMod, ModRange
<1> HIDE DEF q, r
<1>2. CASE r + 1 < n
  <2>1. x + 1 = n * q + (r + 1)
    BY <1>1
  <2>2. (x + 1) % n = r + 1
    BY <1>1, <1>2, <2>1, RemainderUnique, r + 1 \in 0..(n - 1)
  <2>3. r + 1 = n * 0 + (r + 1)
    BY <1>1
  <2>4. (r + 1) % n = r + 1
    BY <1>1, <1>2, <2>3, RemainderUnique, r + 1 \in 0..(n - 1)
  <2> QED BY <2>2, <2>4 DEF r
<1>3. CASE r + 1 = n
  <2>1. x + 1 = n * (q + 1) + 0
    BY <1>1, <1>3
  <2>2. (x + 1) % n = 0
    BY <1>1, <2>1, RemainderUnique, q + 1 \in Nat, 0 \in 0..(n - 1)
  <2>3. r + 1 = n * 1 + 0
    BY <1>1, <1>3
  <2>4. (r + 1) % n = 0
    BY <1>1, <2>3, RemainderUnique, 0 \in 0..(n - 1)
  <2> QED BY <2>2, <2>4 DEF r
<1> QED BY <1>1, <1>2, <1>3

\* The quotient grows by one exactly where the remainder falls to zero.
LEMMA NextQuotient ==
    ASSUME NEW n \in Nat \ {0}, NEW x \in Nat
    PROVE  (x + 1) \div n = IF (x + 1) % n = 0 THEN (x \div n) + 1 ELSE x \div n
<1> DEFINE q == x \div n
           r == x % n
           p == (x + 1) \div n
           s == (x + 1) % n
<1>1. q \in Nat /\ r \in 0..(n - 1) /\ x = n * q + r
  BY DivMod, ModRange
<1>2. p \in Nat /\ s \in 0..(n - 1) /\ x + 1 = n * p + s
  BY DivMod, ModRange, x + 1 \in Nat
<1> SUFFICES p = IF s = 0 THEN q + 1 ELSE q
  OBVIOUS
<1> HIDE DEF p, q, r, s
<1>3. CASE p < q
  <2>1. n * p + n <= n * q
    BY <1>1, <1>2, <1>3, Multiples
  <2>2. n * q \in Nat /\ n * p \in Nat
    BY <1>1, <1>2
  <2> QED BY <1>1, <1>2, <2>1, <2>2
<1>4. CASE p > q + 1
  <2>1. n * (q + 1) + n <= n * p
    BY <1>1, <1>2, <1>4, Multiples, q + 1 \in Nat
  <2>2. n * (q + 1) = n * q + n
    BY <1>1
  <2>3. n * q \in Nat /\ n * p \in Nat
    BY <1>1, <1>2
  <2> QED BY <1>1, <1>2, <2>1, <2>2, <2>3
<1>5. CASE p = q + 1
  <2>1. n * p = n * q + n
    BY <1>1, <1>5
  <2>2. n * q \in Nat
    BY <1>1
  <2> QED BY <1>1, <1>2, <1>5, <2>1, <2>2
<1>6. CASE p = q
  <2>1. n * q \in Nat
    BY <1>1
  <2> QED BY <1>1, <1>2, <1>6, <2>1
<1> QED BY <1>1, <1>2, <1>3, <1>4, <1>5, <1>6

LEMMA QuotientMonotone ==
    ASSUME NEW n \in Nat \ {0}, NEW x \in Nat, NEW y \in Nat, x <= y
    PROVE  x \div n <= y \div n
<1> DEFINE q == x \div n
           p == y \div n
<1>1. q \in Nat /\ x % n \in 0..(n - 1) /\ x = n * q + (x % n)
  BY DivMod, ModRange
<1>2. p \in Nat /\ y % n \in 0..(n - 1) /\ y = n * p + (y % n)
  BY DivMod, ModRange
<1> HIDE DEF p, q
<1>3. CASE p < q
  <2>1. n * p + n <= n * q
    BY <1>1, <1>2, <1>3, Multiples
  <2>2. n * q \in Nat /\ n * p \in Nat
    BY <1>1, <1>2
  <2> QED BY <1>1, <1>2, <2>1, <2>2
<1> QED BY <1>1, <1>2, <1>3 DEF p, q

-----------------------------------------------------------------------------
(* Powers of two, and shifts by their exponents.                           *)

\* A power of two is the number of subsets.
LEMMA PowerCounts ==
    ASSUME NEW n \in Nat
    PROVE  /\ IsFiniteSet(SUBSET (1 .. n)) /\ Cardinality(SUBSET (1 .. n)) = 2^n
           /\ 2^n \in Nat
<1>1. IsFiniteSet(1 .. n) /\ Cardinality(1 .. n) = n
  BY FS_Interval
<1>2. IsFiniteSet(SUBSET (1 .. n)) /\ Cardinality(SUBSET (1 .. n)) = 2^n
  BY <1>1, FS_SUBSET
<1> QED BY <1>2, FS_CardinalityType

LEMMA PowerDoubles ==
    ASSUME NEW n \in Nat
    PROVE  2^(n + 1) = 2 * 2^n
<1> DEFINE A == SUBSET (1 .. n)
           f == [T \in A |-> T \cup {n + 1}]
           B == {f[T] : T \in A}
<1>1. SUBSET (1 .. n + 1) = A \cup B
  <2>1. ASSUME NEW T \in SUBSET (1 .. n + 1) PROVE T \in A \cup B
    <3>1. CASE n + 1 \in T
      <4>1. T \ {n + 1} \in A
        OBVIOUS
      <4>2. T = f[T \ {n + 1}]
        BY <3>1, <4>1
      <4> HIDE DEF A, f
      <4> QED BY <4>1, <4>2
    <3>2. CASE n + 1 \notin T
      <4>1. \A x \in T : x \in 1 .. n
        BY <3>2
      <4> QED BY <4>1
    <3> QED BY <3>1, <3>2
  <2>2. ASSUME NEW T \in A PROVE T \in SUBSET (1 .. n + 1) /\ f[T] \in SUBSET (1 .. n + 1)
    <3>1. T \subseteq 1 .. n + 1 /\ n + 1 \in 1 .. n + 1
      OBVIOUS
    <3> QED BY <3>1
  <2> HIDE DEF A, f
  <2> QED BY <2>1, <2>2
<1>2. A \cap B = {}
  <2>1. \A T \in A : n + 1 \notin T
    OBVIOUS
  <2>2. \A T \in A : n + 1 \in f[T]
    OBVIOUS
  <2> HIDE DEF A, f
  <2> QED BY <2>1, <2>2
<1>3. f \in Bijection(A, B)
  <2>1. ASSUME NEW S \in A, NEW T \in A, f[S] = f[T] PROVE S = T
    <3>1. n + 1 \notin S /\ n + 1 \notin T
      OBVIOUS
    <3>2. S = f[S] \ {n + 1} /\ T = f[T] \ {n + 1}
      BY <3>1
    <3> QED BY <2>1, <3>2
  <2>2. f \in [A -> B]
    <3>1. f = [T \in A |-> f[T]] /\ \A T \in A : f[T] \in B
      OBVIOUS
    <3> HIDE DEF f
    <3> QED BY <3>1
  <2>3. \A t \in B : \E T \in A : f[T] = t
    OBVIOUS
  <2> HIDE DEF f, A, B
  <2> QED BY <2>1, <2>2, <2>3 DEF Bijection, Injection, Surjection, IsInjective
<1>4. IsFiniteSet(A) /\ Cardinality(A) = 2^n /\ 2^n \in Nat
  BY PowerCounts
<1>5. Cardinality(SUBSET (1 .. n + 1)) = 2^(n + 1)
  BY PowerCounts
<1> HIDE DEF A, B, f
<1>6. IsFiniteSet(B) /\ Cardinality(B) = Cardinality(A)
  BY <1>3, <1>4, FS_Bijection DEF ExistsBijection
<1>7. Cardinality(A \cup B) = Cardinality(A) + Cardinality(B) - Cardinality(A \cap B)
  BY <1>4, <1>6, FS_Union
<1>8. Cardinality(A \cap B) = 0
  BY <1>2, FS_EmptySet
<1> DEFINE p == 2^n
           q == 2^(n + 1)
<1>9. p \in Nat /\ Cardinality(A) = p /\ Cardinality(A \cup B) = q
  BY <1>1, <1>4, <1>5
<1> HIDE DEF p, q
<1>10. q = 2 * p
  BY <1>6, <1>7, <1>8, <1>9
<1> QED BY <1>10 DEF p, q

LEMMA PowerOfNone == 2^0 = 1
OBVIOUS

LEMMA PowerPositive ==
    ASSUME NEW n \in Nat
    PROVE  2^n \in Nat \ {0} /\ n < 2^n
<1> DEFINE P(m) == 2^m \in Nat /\ m < 2^m
           N == {m \in Nat : P(m)}
<1>1. 0 \in N
  BY PowerOfNone
<1>2. \A m \in Nat : m \in N => m + 1 \in N
  <2> SUFFICES ASSUME NEW m \in Nat, P(m) PROVE P(m + 1)
    OBVIOUS
  <2>1. 2^(m + 1) = 2 * 2^m
    BY PowerDoubles
  <2> DEFINE p == 2^m
             q == 2^(m + 1)
  <2>2. q = 2 * p /\ p \in Nat /\ m < p
    BY <2>1
  <2> HIDE DEF p, q
  <2>3. q \in Nat /\ m + 1 < q
    BY <2>2
  <2> QED BY <2>3 DEF q
<1> HIDE DEF N
<1>3. n \in N
  BY <1>1, <1>2, InductionOverNat
<1>4. P(n)
  BY <1>3 DEF N
<1> DEFINE p == 2^n
<1>5. p \in Nat /\ n < p
  BY <1>4
<1> HIDE DEF p, P
<1>6. p \in Nat \ {0} /\ n < p
  BY <1>5
<1> QED BY <1>6 DEF p

LEMMA PowerGrows ==
    ASSUME NEW m \in Nat, NEW n \in Nat, m <= n
    PROVE  2^m <= 2^n
<1> DEFINE N == {k \in Nat : 2^m <= 2^(m + k)}
<1>1. 0 \in N
  <2>1. m + 0 = m /\ 2^m \in Nat
    BY PowerPositive
  <2> QED BY <2>1
<1>2. \A k \in Nat : k \in N => k + 1 \in N
  <2> SUFFICES ASSUME NEW k \in Nat, 2^m <= 2^(m + k) PROVE 2^m <= 2^(m + (k + 1))
    OBVIOUS
  <2> DEFINE a == 2^m
             b == 2^(m + k)
             c == 2^((m + k) + 1)
  <2>1. a \in Nat /\ b \in Nat /\ a <= b
    BY PowerPositive
  <2>2. m + k \in Nat
    OBVIOUS
  <2>3. c = 2 * b
    BY <2>2, PowerDoubles
  <2>4. m + (k + 1) = (m + k) + 1
    OBVIOUS
  <2> HIDE DEF a, b, c
  <2>5. a <= c
    BY <2>1, <2>3
  <2> QED BY <2>4, <2>5 DEF a, c
<1> HIDE DEF N
<1>3. n - m \in Nat /\ m + (n - m) = n
  OBVIOUS
<1>4. n - m \in N
  BY <1>1, <1>2, <1>3, InductionOverNat
<1> QED BY <1>3, <1>4 DEF N

\* The quotient and the remainder are the only ones.
LEMMA QuotientUnique ==
    ASSUME NEW n \in Nat \ {0}, NEW q \in Nat, NEW r \in 0 .. n - 1, NEW x \in Nat, x = n * q + r
    PROVE  x \div n = q
<1> DEFINE p == x \div n
           s == x % n
<1>1. p \in Nat /\ x = n * p + s
  BY DivMod
<1>2. s \in 0 .. n - 1
  BY ModRange
<1> HIDE DEF p, s
<1>3. n * p \in Nat /\ n * q \in Nat
  BY <1>1
<1>4. ASSUME p < q PROVE FALSE
  <2>1. n * p + n <= n * q
    BY <1>1, <1>4, Multiples
  <2> QED BY <1>1, <1>2, <1>3, <2>1
<1>5. ASSUME q < p PROVE FALSE
  <2>1. n * q + n <= n * p
    BY <1>1, <1>5, Multiples
  <2> QED BY <1>1, <1>2, <1>3, <2>1
<1>6. p = q
  BY <1>1, <1>4, <1>5
<1> QED BY <1>6 DEF p

\* Shifting by one more bit halves.
LEMMA HalfOfQuotient ==
    ASSUME NEW x \in Nat, NEW m \in Nat \ {0}
    PROVE  x \div (2 * m) = (x \div m) \div 2
<1> DEFINE q == x \div m
           r == x % m
           h == q \div 2
           b == q % 2
<1>1. q \in Nat /\ x = m * q + r /\ r \in 0 .. m - 1
  BY DivMod, ModRange
<1> HIDE DEF q, r
<1>2. h \in Nat /\ b \in {0, 1} /\ q = 2 * h + b
  BY <1>1
<1> HIDE DEF h, b
<1>3. m * q = (2 * m) * h + m * b
  BY <1>2
<1>4. m * b \in {0, m}
  BY <1>2
<1> DEFINE s == m * b + r
<1>5. s \in 0 .. 2 * m - 1
  BY <1>1, <1>4
<1>6. (2 * m) * h \in Nat /\ 2 * m \in Nat \ {0}
  BY <1>2
<1>7. x = (2 * m) * h + s
  BY <1>1, <1>3, <1>4, <1>6
<1> DEFINE n == 2 * m
<1>8. x = n * h + s /\ n \in Nat \ {0} /\ s \in 0 .. n - 1
  BY <1>5, <1>6, <1>7
<1> HIDE DEF n, s
<1>9. x \div n = h
  BY <1>2, <1>8, QuotientUnique
<1> QED BY <1>9 DEF n, h, q

LEMMA Shift ==
    ASSUME NEW i \in Nat
    PROVE  /\ i \div 2^0 = i
           /\ \A d \in Nat : i \div 2^d \in Nat /\ i \div 2^(d + 1) = (i \div 2^d) \div 2
           /\ \A d \in Nat : i < 2^d => i \div 2^d = 0
<1>1. i \div 2^0 = i
  BY PowerOfNone
<1>2. ASSUME NEW d \in Nat PROVE i \div 2^d \in Nat /\ i \div 2^(d + 1) = (i \div 2^d) \div 2
  <2> DEFINE p == 2^d
             q == 2^(d + 1)
  <2>1. p \in Nat \ {0} /\ q = 2 * p
    BY PowerPositive, PowerDoubles
  <2> HIDE DEF p, q
  <2>2. i \div p \in Nat /\ i \div q = (i \div p) \div 2
    BY <2>1, HalfOfQuotient, DivMod
  <2> QED BY <2>2 DEF p, q
<1>3. ASSUME NEW d \in Nat, i < 2^d PROVE i \div 2^d = 0
  <2> DEFINE p == 2^d
  <2>1. p \in Nat \ {0} /\ i < p
    BY <1>3, PowerPositive
  <2> HIDE DEF p
  <2>2. i = p * 0 + i /\ i \in 0 .. p - 1
    BY <2>1
  <2>3. i \div p = 0
    BY <2>1, <2>2, QuotientUnique
  <2> QED BY <2>3 DEF p
<1> QED BY <1>1, <1>2, <1>3
=============================================================================
