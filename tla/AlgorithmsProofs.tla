-------------------------- MODULE AlgorithmsProofs --------------------------
(***************************************************************************)
(* What the Algorithms run checks on small instances, for all of them.     *)
(*                                                                         *)
(* The parallel hashing of a layer, for layers of every length and every   *)
(* number of goroutines: the segments do not overlap and match; and every  *)
(* parent is hashed when what the groups leave over fits into one more     *)
(* group, which it does on hosts of up to 51 processors.                   *)
(*                                                                         *)
(* The state database, for every set of keys, balances, indices and        *)
(* amounts, and any number of layers and operations.  A store is read as   *)
(* the functions of its collections (Coll): because the prefixes differ, a *)
(* Set or Unset changes one of them.  The invariant is then a statement    *)
(* about functions, and each operation is a change of a few of them.  The  *)
(* orders of iteration exist, and sums over them count units, by induction *)
(* over the size of finite sets; the committee rests on both.              *)
(*                                                                         *)
(* The genesis ceremony, for every number of deposits, by induction over   *)
(* the deposits of the genesis file.                                       *)
(*                                                                         *)
(* Merkle trees, for every depth, all leaves and any number of Inserts     *)
(* without gaps, by induction over the height of a layer.  Trees and lists *)
(* are those that a host of up to 51 processors hashes.                    *)
(*                                                                         *)
(* Lists and bodies, for every limit up to the zero hashes of the code and *)
(* lists of every length: padding to the limit gives the tree of the       *)
(* reference, and the branch of a sidecar is walked in three parts, in the *)
(* list, past its length and in the body.                                  *)
(*                                                                         *)
(* Payloads between two execution clients, for any two of them mixed in    *)
(* any way, and documents with any fields missing.                         *)
(***************************************************************************)
EXTENDS ParallelHashing, BeaconDB, GenesisCeremony, GrowingTree, Merkleization,
        PayloadJourney, FiniteSetTheorems, NumberLemmas, TLAPS

-----------------------------------------------------------------------------
(* The parallel hashing.                                                   *)

LEMMA GroupSizeType ==
    ASSUME NEW len \in Nat, NEW n \in Nat
    PROVE  GroupSize(len, n) \in Nat
BY DEF GroupSize

LEMMA HalfType ==
    ASSUME NEW len \in Nat
    PROVE  len \div 2 \in Nat
OBVIOUS

LEMMA TimesMonotonic ==
    ASSUME NEW a \in Nat, NEW b \in Nat, NEW g \in Nat, a <= b
    PROVE  a * g <= b * g /\ a * g \in Nat /\ b * g \in Nat
<1>1. PICK d \in Nat : b = a + d
  <2>1. b - a \in Nat /\ b = a + (b - a)
    OBVIOUS
  <2> QED BY <2>1
<1>2. b * g = a * g + d * g
  BY <1>1
<1>3. a * g \in Nat /\ b * g \in Nat /\ d * g \in Nat
  BY <1>1
<1> QED BY <1>2, <1>3

\* Two goroutines of BuildParentTreeRootsWithNRoutines never write the same
\* element of outputList (root.go:127-161), so that they need no lock.
THEOREM SegmentsDisjoint ==
    ASSUME NEW len \in Nat, NEW n \in Nat
    PROVE  DisjointSegments(len, n)
<1> DEFINE g == GroupSize(len, n)
           out == len \div 2
<1>1. g \in Nat /\ out \in Nat
  BY GroupSizeType, HalfType
<1>2. ASSUME NEW j \in 0 .. n, NEW k \in 0 .. n, j < k
      PROVE  OutSegment(len, n, j) \cap OutSegment(len, n, k) = {}
  <2>1. (j + 1) * g <= k * g /\ (j + 1) * g \in Nat /\ k * g \in Nat /\ j * g \in Nat
              /\ (k + 1) * g \in Nat
    <3> HIDE DEF g, out
    <3>1. j + 1 \in Nat /\ k \in Nat /\ j + 1 <= k /\ j \in Nat /\ k + 1 \in Nat /\ k <= k + 1
            /\ j <= j + 1
      BY <1>2
    <3>2. (j + 1) * g <= k * g /\ (j + 1) * g \in Nat /\ k * g \in Nat
      BY <3>1, <1>1, TimesMonotonic
    <3>3. j * g \in Nat
      BY <3>1, <1>1, TimesMonotonic
    <3>4. (k + 1) * g \in Nat
      BY <3>1, <1>1, TimesMonotonic
    <3> QED BY <3>2, <3>3, <3>4
  <2>2. ASSUME NEW p \in OutSegment(len, n, j), p \in OutSegment(len, n, k)
        PROVE  FALSE
    <3>1. p \in Int /\ p <= MinOf((j + 1) * g, out) - 1 /\ k * g <= p
      BY <2>1, <2>2, <1>1 DEF OutSegment, MinOf
    <3> HIDE DEF g, out
    <3>2. p < (j + 1) * g
      BY <3>1, <2>1, <1>1 DEF MinOf
    <3> QED BY <3>1, <3>2, <2>1
  <2> QED BY <2>2
<1>3. ASSUME NEW j \in 0 .. n, NEW k \in 0 .. n, j # k
      PROVE  OutSegment(len, n, j) \cap OutSegment(len, n, k) = {}
  <2>1. j < k \/ k < j
    BY <1>3
  <2>2. CASE j < k
    BY <2>2, <1>2
  <2>3. CASE k < j
    <3>1. OutSegment(len, n, k) \cap OutSegment(len, n, j) = {}
      BY <2>3, <1>2
    <3> QED BY <3>1
  <2> QED BY <2>1, <2>2, <2>3
<1> QED BY <1>3 DEF DisjointSegments

\* Every goroutine reads the two children of each parent it writes, and no node
\* besides, in layers of even length, the only ones the code accepts
\* (root.go:106-108, 127-161).
THEOREM SegmentsMatchEven ==
    ASSUME NEW half \in Nat, NEW n \in Nat
    PROVE  SegmentsMatch(2 * half, n)
<1> DEFINE len == 2 * half
           g == GroupSize(len, n)
<1>1. g \in Nat /\ len \in Nat /\ len \div 2 = half
  BY GroupSizeType
<1>2. ASSUME NEW j \in 0 .. n, NEW p \in 0 .. (len \div 2 - 1)
      PROVE  p \in OutSegment(len, n, j)
                <=> 2 * p \in InSegment(len, n, j) /\ 2 * p + 1 \in InSegment(len, n, j)
  <2> DEFINE a == j * g
             b == (j + 1) * g
  <2>1. a \in Nat /\ b \in Nat /\ j * (2 * g) = 2 * a /\ (j + 1) * (2 * g) = 2 * b
    <3> HIDE DEF g
    <3>1. j \in Nat /\ j + 1 \in Nat /\ j <= j + 1
      OBVIOUS
    <3>2. a \in Nat /\ b \in Nat
      BY <3>1, <1>1, TimesMonotonic
    <3>3. j * (2 * g) = 2 * (j * g) /\ (j + 1) * (2 * g) = 2 * ((j + 1) * g)
      BY <3>1, <1>1
    <3> QED BY <3>2, <3>3
  <2>2. OutSegment(len, n, j) = a .. (MinOf(b, half) - 1)
    BY <1>1 DEF OutSegment
  <2>3. InSegment(len, n, j) = (2 * a) .. (MinOf(2 * b, 2 * half) - 1)
    BY <2>1 DEF InSegment
  <2>4. p \in Nat
    BY <1>1
  <2> HIDE DEF a, b, g, len
  <2> QED BY <2>1, <2>2, <2>3, <2>4 DEF MinOf
<1> QED BY <1>2 DEF SegmentsMatch

\* No parent is left zero (root.go:112, 126-164) exactly when the remainder has
\* room in the group of goroutine n.
THEOREM AllHashedWhenLastGroupFits ==
    ASSUME NEW len \in Nat, NEW n \in Nat
    PROVE  AllHashed(len, n) <=> LastGroupFits(len, n)
<1> DEFINE g == GroupSize(len, n)
           out == len \div 2
<1>1. g \in Nat /\ out \in Nat
  BY GroupSizeType, HalfType
<1>2. ASSUME AllHashed(len, n)
      PROVE  LastGroupFits(len, n)
  <2>1. CASE out = 0
    <3>1. 0 <= (n + 1) * g
      <4> HIDE DEF g
      <4> QED BY <1>1, TimesMonotonic
    <3> QED BY <2>1, <3>1 DEF LastGroupFits
  <2>2. CASE out # 0
    <3>1. out - 1 \in 0 .. (out - 1)
      BY <1>1, <2>2
    <3>2. PICK j \in 0 .. n : out - 1 \in OutSegment(len, n, j)
      BY <3>1, <1>2 DEF AllHashed
    <3>3. j \in Nat /\ j + 1 \in Nat /\ n + 1 \in Nat /\ j + 1 <= n + 1 /\ j <= n + 1
      OBVIOUS
    <3>4. (j + 1) * g <= (n + 1) * g /\ (j + 1) * g \in Nat /\ (n + 1) * g \in Nat
              /\ j * g \in Nat
      <4> HIDE DEF g
      <4>1. (j + 1) * g <= (n + 1) * g /\ (j + 1) * g \in Nat /\ (n + 1) * g \in Nat
        BY <3>3, <1>1, TimesMonotonic
      <4>2. j * g \in Nat
        BY <3>3, <1>1, TimesMonotonic
      <4> QED BY <4>1, <4>2
    <3>5. out - 1 <= MinOf((j + 1) * g, out) - 1
      BY <3>2, <3>4, <1>1 DEF OutSegment, MinOf
    <3>6. out <= (n + 1) * g
      <4> HIDE DEF g, out
      <4> QED BY <3>5, <3>4, <1>1 DEF MinOf
    <3> QED BY <3>6 DEF LastGroupFits
  <2> QED BY <2>1, <2>2
<1>3. ASSUME LastGroupFits(len, n), NEW p \in 0 .. (out - 1)
      PROVE  \E j \in 0 .. n : p \in OutSegment(len, n, j)
  <2>1. out <= (n + 1) * g /\ p \in Nat /\ p < out
    BY <1>3, <1>1 DEF LastGroupFits
  <2>2. g > 0
    <3> HIDE DEF g, out
    <3>1. CASE g = 0
      <4>1. (n + 1) * g = 0
        BY <3>1
      <4> QED BY <4>1, <2>1, <1>1
    <3> QED BY <3>1, <1>1
  <2> DEFINE j == p \div g
  <2>3. j \in Nat /\ j * g <= p /\ p < (j + 1) * g
    <3> HIDE DEF g, out
    <3>1. p = g * (p \div g) + (p % g) /\ (p % g) \in 0 .. (g - 1) /\ p \div g \in Nat
      BY <1>1, <2>1, <2>2
    <3>2. (j + 1) * g = g * j + g /\ j * g = g * j
      BY <3>1, <1>1
    <3>3. g * j \in Nat
      BY <3>1, <1>1
    <3> QED BY <3>1, <3>2, <3>3, <1>1
  <2>4. j <= n
    <3> HIDE DEF g, out, j
    <3>1. CASE j >= n + 1
      <4>1. (n + 1) * g <= j * g /\ (n + 1) * g \in Nat /\ j * g \in Nat
        BY <3>1, <2>3, <1>1, TimesMonotonic
      <4> QED BY <4>1, <2>1, <2>3, <1>1
    <3> QED BY <3>1, <2>3
  <2>5. p \in OutSegment(len, n, j)
    <3> HIDE DEF j
    <3>1. j * g \in Nat /\ (j + 1) * g \in Nat
      <4> HIDE DEF g
      <4>1. j \in Nat /\ j + 1 \in Nat /\ j <= j + 1
        BY <2>3
      <4> QED BY <4>1, <1>1, TimesMonotonic
    <3>2. p <= MinOf((j + 1) * g, out) - 1
      <4> HIDE DEF g, out
      <4> QED BY <2>1, <2>3, <3>1, <1>1 DEF MinOf
    <3>3. MinOf((j + 1) * g, out) - 1 \in Int
      <4> HIDE DEF g, out
      <4> QED BY <3>1, <1>1 DEF MinOf
    <3>4. OutSegment(len, n, j) = (j * g) .. (MinOf((j + 1) * g, out) - 1)
      BY DEF OutSegment
    <3> HIDE DEF g, out
    <3> QED BY <3>1, <3>2, <3>3, <3>4, <2>1, <2>3
  <2>6. j \in 0 .. n
    <3> HIDE DEF j
    <3> QED BY <2>3, <2>4
  <2> HIDE DEF j
  <2> QED BY <2>5, <2>6
<1> QED BY <1>2, <1>3 DEF AllHashed

\* With at most 51 processors no layer that is hashed in parallel
\* (MinParallelizationSize, root.go:40, 117) has a parent left out.
THEOREM AllHashedOnSmallHosts ==
    ASSUME NEW len \in Nat, NEW n \in 0 .. 50, len >= MinParallelizationSize
    PROVE  AllHashed(len, n)
<1> DEFINE m == IF n > 1 THEN n ELSE 1
           g == len \div (2 * m)
<1>1. m \in 1 .. 50 /\ 2 * m \in Nat /\ 2 * m > 0 /\ m <= n + 1
  OBVIOUS
<1>2. g \in Nat /\ len < (2 * m) * (g + 1)
  <2> HIDE DEF m
  <2>1. len = (2 * m) * (len \div (2 * m)) + (len % (2 * m))
          /\ (len % (2 * m)) \in 0 .. (2 * m - 1) /\ len \div (2 * m) \in Nat
    BY <1>1
  <2>2. (2 * m) * (g + 1) = (2 * m) * g + (2 * m) /\ (2 * m) * g \in Nat
    BY <2>1, <1>1
  <2> QED BY <2>1, <2>2, <1>1
<1>3. g >= 50
  <2> HIDE DEF m, g
  <2>1. CASE g <= 49
    <3>1. (g + 1) * (2 * m) <= 50 * (2 * m)
      BY <1>1, <1>2, <2>1, TimesMonotonic
    <3>2. (g + 1) * (2 * m) = (2 * m) * (g + 1) /\ 50 * (2 * m) <= 5000
      BY <1>1, <1>2
    <3>3. len < 5000
      BY <3>1, <3>2, <1>1, <1>2
    <3> QED BY <3>3 DEF MinParallelizationSize
  <2> QED BY <2>1, <1>2
<1>4. len \div 2 <= (n + 1) * g
  <2> HIDE DEF m, g
  <2>1. CASE n <= 1
    <3>1. m = 1
      BY <2>1 DEF m
    <3>2. g = len \div 2
      BY <3>1 DEF g
    <3>3. 1 * g <= (n + 1) * g
      BY <1>2, TimesMonotonic
    <3> QED BY <3>2, <3>3, <1>2
  <2>2. CASE n > 1
    <3>1. m = n
      BY <2>2 DEF m
    <3>2. len < 2 * (n * g + n)
      <4>1. (2 * m) * (g + 1) = 2 * (n * g + n)
        BY <3>1, <1>2
      <4> QED BY <4>1, <1>2
    <3>3. n * g \in Nat /\ (n + 1) * g = n * g + g
      BY <1>2
    <3>4. len \div 2 < n * g + n
      <4> DEFINE w == n * g + n
      <4>1. w \in Nat /\ len < 2 * w
        BY <3>2, <3>3
      <4> HIDE DEF w
      <4>2. len \div 2 < w
        BY <4>1
      <4> QED BY <4>2 DEF w
    <3>5. n <= g
      BY <1>3, <1>2
    <3> QED BY <3>3, <3>4, <3>5, <1>2
  <2> QED BY <2>1, <2>2
<1>5. LastGroupFits(len, n)
  <2>1. GroupSize(len, n) = g
    BY DEF GroupSize
  <2> QED BY <1>4, <2>1 DEF LastGroupFits
<1>6. n \in Nat
  OBVIOUS
<1> QED BY <1>5, <1>6, AllHashedWhenLastGroupFits

LEMMA SlicesRight ==
    ASSUME NEW len \in Nat, NEW n \in Nat
    PROVE  SlicesInBounds(len, n)
<1> DEFINE g == GroupSize(len, n)
           out == len \div 2
           m == IF n > 1 THEN n ELSE 1
<1>1. g \in Nat /\ out \in Nat /\ m \in Nat /\ m > 0 /\ n <= m
  <2>1. g \in Nat /\ out \in Nat
    BY GroupSizeType, HalfType
  <2>2. m \in Nat /\ m > 0 /\ n <= m
    OBVIOUS
  <2> QED BY <2>1, <2>2
<1>2. (2 * m) * g <= len
  <2>1. g = len \div (2 * m)
    BY DEF GroupSize
  <2> HIDE DEF g, m
  <2>2. len = (2 * m) * (len \div (2 * m)) + (len % (2 * m)) /\ (len % (2 * m)) \in 0 .. (2 * m - 1)
        /\ len \div (2 * m) \in Nat
    BY <1>1
  <2>3. (2 * m) * (len \div (2 * m)) \in Nat
    BY <1>1, <2>2
  <2> QED BY <1>1, <2>1, <2>2, <2>3
<1>3. ASSUME NEW j \in 0 .. n
      PROVE  /\ j * g <= MinOf((j + 1) * g, out)
             /\ j * (2 * g) <= MinOf((j + 1) * (2 * g), len)
  <2> HIDE DEF g, m, out
  <2>1. j \in Nat /\ j + 1 \in Nat /\ j <= m /\ j <= j + 1
    BY <1>1
  <2>2. j * g <= m * g /\ j * g \in Nat /\ m * g \in Nat
    BY <1>1, <2>1, TimesMonotonic
  <2>3. j * g <= (j + 1) * g /\ (j + 1) * g \in Nat
    BY <1>1, <2>1, TimesMonotonic
  <2>4. (2 * m) * g = 2 * (m * g) /\ j * (2 * g) = 2 * (j * g) /\ (j + 1) * (2 * g) = 2 * ((j + 1) * g)
    BY <1>1, <2>1
  <2> DEFINE a == j * g
             b == m * g
             c == (j + 1) * g
  <2>5. 2 * b <= len /\ a <= b /\ a <= c /\ a \in Nat /\ b \in Nat /\ c \in Nat
    BY <1>2, <2>2, <2>3, <2>4
  <2>6. j * (2 * g) = 2 * a /\ (j + 1) * (2 * g) = 2 * c
    BY <2>4
  <2> HIDE DEF a, b, c
  <2>7. a <= out /\ a <= MinOf(c, out)
    BY <2>5 DEF out, MinOf
  <2>8. 2 * a <= MinOf(2 * c, len)
    BY <2>5 DEF MinOf
  <2> QED BY <2>6, <2>7, <2>8 DEF a, c
<1> QED BY <1>3 DEF SlicesInBounds

\* What the goroutines write is every parent exactly if each parent has a goroutine.
LEMMA WrittenIs ==
    ASSUME NEW len \in Nat, NEW n \in Nat
    PROVE  ParentsWritten(len, n) = 0 .. (len \div 2 - 1)
              <=> len < MinParallelizationSize \/ AllHashed(len, n)
<1> DEFINE all == 0 .. (len \div 2 - 1)
           union == UNION {OutSegment(len, n, j) : j \in 0 .. n}
<1>1. ASSUME NEW j \in 0 .. n, NEW p \in OutSegment(len, n, j)
      PROVE  p \in all
  <2>1. GroupSize(len, n) \in Nat /\ len \div 2 \in Nat /\ j \in Nat
    BY GroupSizeType, HalfType
  <2>2. j * GroupSize(len, n) \in Nat /\ (j + 1) * GroupSize(len, n) \in Nat
    <3> DEFINE g == GroupSize(len, n)
    <3> HIDE DEF g
    <3>1. g \in Nat
      BY <2>1 DEF g
    <3>2. j * g \in Nat /\ (j + 1) * g \in Nat
      BY <2>1, <3>1
    <3> QED BY <3>2 DEF g
  <2> QED BY <1>1, <2>1, <2>2 DEF OutSegment, MinOf
<1>2. union = all <=> AllHashed(len, n)
  BY <1>1 DEF AllHashed
<1> QED BY <1>2 DEF ParentsWritten

\* With up to 50 goroutines every parent is written.
LEMMA WrittenOnSmallHosts ==
    ASSUME NEW len \in Nat, NEW n \in 0 .. SafeGoroutines
    PROVE  ParentsWritten(len, n) = 0 .. (len \div 2 - 1)
<1>1. n \in 0 .. 50 /\ n \in Nat
  BY DEF SafeGoroutines
<1>2. CASE len < MinParallelizationSize
  BY <1>1, <1>2, WrittenIs
<1>3. CASE ~(len < MinParallelizationSize)
  <2>1. len >= MinParallelizationSize
    BY <1>3 DEF MinParallelizationSize
  <2>2. AllHashed(len, n)
    BY <1>1, <2>1, AllHashedOnSmallHosts
  <2> QED BY <1>1, <2>2, WrittenIs
<1> QED BY <1>2, <1>3

\* All that ParentsHashed says, for layers of any length and hosts with any number of
\* processors: BuildParentTreeRootsWithNRoutines never panics or races, and leaves
\* no parent out with up to 50 goroutines (root.go:98-167).
THEOREM EveryLayerHashed == HashSpec => []ParentsHashed
<1>1. HashInit => ParentsHashed
  BY DEF HashInit, ParentsHashed
<1>2. ParentsHashed /\ [HashNext]_hashed => ParentsHashed'
  <2> SUFFICES ASSUME ParentsHashed, HashNext PROVE ParentsHashed'
    BY DEF ParentsHashed
  <2>1. PICK len \in LayerLengths, procs \in Processors :
            BuildParentTreeRootsWithNRoutines(len, procs - 1)
    BY DEF HashNext
  <2> DEFINE n == procs - 1
             l == [len |-> len, n |-> n, parents |-> ParentsWritten(len, n)]
  <2>2. len \in Nat /\ n \in Nat /\ len % 2 = 0 /\ hashed' = {l}
    BY <2>1, HashingAssumption DEF BuildParentTreeRootsWithNRoutines
  <2> HIDE DEF n
  <2>3. PICK half \in Nat : len = 2 * half
    <3>1. len = 2 * (len \div 2) /\ len \div 2 \in Nat
      BY <2>2
    <3> QED BY <3>1
  <2>4. /\ DisjointSegments(len, n) /\ SegmentsMatch(len, n) /\ SlicesInBounds(len, n)
        /\ n <= SafeGoroutines => ParentsWritten(len, n) = 0 .. (len \div 2 - 1)
    <3>1. DisjointSegments(len, n) /\ SegmentsMatch(len, n) /\ SlicesInBounds(len, n)
      BY <2>2, <2>3, SegmentsDisjoint, SegmentsMatchEven, SlicesRight
    <3>2. n <= SafeGoroutines => n \in 0 .. SafeGoroutines
      BY <2>2 DEF SafeGoroutines
    <3> QED BY <2>2, <3>1, <3>2, WrittenOnSmallHosts
  <2>5. l.len = len /\ l.n = n /\ l.parents = ParentsWritten(len, n)
    OBVIOUS
  <2> HIDE DEF l
  <2> QED BY <2>2, <2>4, <2>5 DEF ParentsHashed
<1> QED BY <1>1, <1>2, PTL DEF HashSpec

-----------------------------------------------------------------------------
(* Orders and sums.                                                        *)

\* The last of finitely many pairs.
LEMMA LastPair ==
    ASSUME NEW n \in Nat, NEW K, K \subseteq Nat \X Nat, IsFiniteSet(K), Cardinality(K) = n + 1
    PROVE  \E m \in K : \A k \in K \ {m} : Before(k, m)
<1> DEFINE P(i) == \A S \in SUBSET (Nat \X Nat) : IsFiniteSet(S) /\ Cardinality(S) = i + 1
                        => \E m \in S : \A k \in S \ {m} : Before(k, m)
<1>1. P(0)
  <2> SUFFICES ASSUME NEW S \in SUBSET (Nat \X Nat), IsFiniteSet(S), Cardinality(S) = 1
               PROVE  \E m \in S : \A k \in S \ {m} : Before(k, m)
    OBVIOUS
  <2>1. PICK m : S = {m}
    BY FS_Singleton
  <2> QED BY <2>1
<1>2. ASSUME NEW i \in Nat, P(i) PROVE P(i + 1)
  <2> SUFFICES ASSUME NEW S \in SUBSET (Nat \X Nat), IsFiniteSet(S), Cardinality(S) = (i + 1) + 1
               PROVE  \E m \in S : \A k \in S \ {m} : Before(k, m)
    OBVIOUS
  <2>1. PICK x \in S : TRUE
    BY FS_EmptySet
  <2> DEFINE R == S \ {x}
  <2>2. IsFiniteSet(R) /\ Cardinality(R) = i + 1
    <3>1. IsFiniteSet(R) /\ Cardinality(R) = Cardinality(S) - 1
      BY <2>1, FS_RemoveElement
    <3> QED BY <3>1
  <2>3. R \in SUBSET (Nat \X Nat)
    OBVIOUS
  <2>4. PICK m \in R : \A k \in R \ {m} : Before(k, m)
    BY <1>2, <2>2, <2>3
  <2>5. /\ m \in Nat \X Nat /\ x \in Nat \X Nat /\ m # x
        /\ S \ {x} = R /\ x \in S /\ m \in S
    BY <2>1, <2>4
  <2>6. m = <<m[1], m[2]>> /\ x = <<x[1], x[2]>> /\ m[1] \in Nat /\ m[2] \in Nat /\ x[1] \in Nat /\ x[2] \in Nat
    BY <2>5
  <2>7. Before(m, x) \/ Before(x, m)
    BY <2>5, <2>6 DEF Before
  <2>8. CASE Before(x, m)
    <3>1. \A k \in S \ {m} : Before(k, m)
      BY <2>4, <2>8
    <3> QED BY <2>5, <3>1
  <2>9. CASE Before(m, x)
    <3>1. ASSUME NEW k \in S \ {x} PROVE Before(k, x)
      <4>1. CASE k = m
        BY <2>9, <4>1
      <4>2. CASE k # m
        <5>1. Before(k, m) /\ k \in Nat \X Nat
          BY <2>4, <4>2
        <5>2. k[1] \in Nat /\ k[2] \in Nat
          BY <5>1
        <5> QED BY <2>6, <2>9, <5>1, <5>2 DEF Before
      <4> QED BY <4>1, <4>2
    <3> QED BY <2>5, <3>1
  <2> QED BY <2>7, <2>8, <2>9
<1> HIDE DEF P
<1>3. \A i \in Nat : i \in {j \in Nat : P(j)}
  <2> DEFINE N == {j \in Nat : P(j)}
  <2>1. 0 \in N
    BY <1>1
  <2>2. \A i \in Nat : i \in N => i + 1 \in N
    BY <1>2
  <2> HIDE DEF N
  <2>3. \A i \in Nat : i \in N
    BY <2>1, <2>2, InductionOverNat
  <2> QED BY <2>3 DEF N
<1>4. P(n)
  BY <1>3
<1> QED BY <1>4 DEF P

\* Finitely many pairs can be put in order.
Sorted(s, n, K) == s \in [1 .. n -> K] /\ \A i, j \in 1 .. n : i < j => Before(s[i], s[j])

LEMMA PairsSorted ==
    ASSUME NEW n \in Nat, NEW K, K \subseteq Nat \X Nat, IsFiniteSet(K), Cardinality(K) = n
    PROVE  \E s : Sorted(s, n, K)
<1> DEFINE P(i) == \A S \in SUBSET (Nat \X Nat) : IsFiniteSet(S) /\ Cardinality(S) = i
                        => \E s : Sorted(s, i, S)
<1>1. P(0)
  <2> SUFFICES ASSUME NEW S PROVE Sorted([i \in 1 .. 0 |-> 0], 0, S)
    OBVIOUS
  <2> QED BY DEF Sorted
<1>2. ASSUME NEW i \in Nat, P(i) PROVE P(i + 1)
  <2> SUFFICES ASSUME NEW S \in SUBSET (Nat \X Nat), IsFiniteSet(S), Cardinality(S) = i + 1
               PROVE  \E s : Sorted(s, i + 1, S)
    OBVIOUS
  <2>1. PICK m \in S : \A k \in S \ {m} : Before(k, m)
    BY LastPair
  <2> DEFINE R == S \ {m}
  <2>2. IsFiniteSet(R) /\ Cardinality(R) = i
    <3>1. IsFiniteSet(R) /\ Cardinality(R) = Cardinality(S) - 1
      BY <2>1, FS_RemoveElement
    <3> QED BY <3>1
  <2>3. R \in SUBSET (Nat \X Nat)
    OBVIOUS
  <2>4. PICK s : Sorted(s, i, R)
    BY <1>2, <2>2, <2>3
  <2> DEFINE t == [j \in 1 .. i + 1 |-> IF j = i + 1 THEN m ELSE s[j]]
  <2>5. s \in [1 .. i -> R] /\ \A j, k \in 1 .. i : j < k => Before(s[j], s[k])
    BY <2>4 DEF Sorted
  <2>6. \A j \in 1 .. i : j \in 1 .. i + 1 /\ t[j] = s[j] /\ s[j] \in S \ {m}
    BY <2>5
  <2>7. t[i + 1] = m
    OBVIOUS
  <2>8. t \in [1 .. i + 1 -> S]
    <3>1. ASSUME NEW j \in 1 .. i + 1 PROVE t[j] \in S
      <4>1. CASE j = i + 1
        BY <2>1, <2>7, <4>1
      <4>2. CASE j \in 1 .. i
        BY <2>6, <4>2
      <4> QED BY <4>1, <4>2
    <3> QED BY <3>1
  <2> HIDE DEF t
  <2>9. ASSUME NEW j \in 1 .. i + 1, NEW k \in 1 .. i + 1, j < k PROVE Before(t[j], t[k])
    <3>1. j \in 1 .. i
      BY <2>9
    <3>2. CASE k = i + 1
      BY <2>1, <2>6, <2>7, <3>1, <3>2
    <3>3. CASE k \in 1 .. i
      BY <2>5, <2>6, <2>9, <3>1, <3>3
    <3> QED BY <3>2, <3>3
  <2>10. Sorted(t, i + 1, S)
    BY <2>8, <2>9 DEF Sorted
  <2> QED BY <2>10
<1> HIDE DEF P
<1>3. \A i \in Nat : i \in {j \in Nat : P(j)}
  <2> DEFINE N == {j \in Nat : P(j)}
  <2>1. 0 \in N
    BY <1>1
  <2>2. \A i \in Nat : i \in N => i + 1 \in N
    BY <1>2
  <2> HIDE DEF N
  <2>3. \A i \in Nat : i \in N
    BY <2>1, <2>2, InductionOverNat
  <2> QED BY <2>3 DEF N
<1>4. P(n)
  BY <1>3
<1> QED BY <1>4 DEF P

LEMMA PairOrderSorts ==
    ASSUME NEW n \in Nat, NEW K, K \subseteq Nat \X Nat, IsFiniteSet(K), Cardinality(K) = n
    PROVE  Sorted(PairOrder(K), n, K)
<1>1. \E s \in [1 .. n -> K] : \A i, j \in 1 .. n : i < j => Before(s[i], s[j])
  BY PairsSorted DEF Sorted
<1> QED BY <1>1 DEF PairOrder, Sorted

\* So can finitely many numbers.
SortedNumbers(s, n, K) == s \in [1 .. n -> K] /\ \A i, j \in 1 .. n : i < j => s[i] < s[j]

LEMMA NumberOrderSorts ==
    ASSUME NEW n \in Nat, NEW K, K \subseteq Nat, IsFiniteSet(K), Cardinality(K) = n
    PROVE  SortedNumbers(NumberOrder(K), n, K)
<1> DEFINE t == [k \in K |-> <<k, 0>>]
           P == {<<k, 0>> : k \in K}
<1>1. t \in Bijection(K, P)
  BY DEF Bijection, Injection, Surjection, IsInjective
<1>2. ExistsBijection(K, P)
  BY <1>1 DEF ExistsBijection
<1>3. IsFiniteSet(P) /\ Cardinality(P) = n
  BY <1>2, FS_Bijection
<1>4. P \subseteq Nat \X Nat
  OBVIOUS
<1>5. PICK s : Sorted(s, n, P)
  <2> HIDE DEF P
  <2> QED BY <1>3, <1>4, PairsSorted
<1> DEFINE r == [i \in 1 .. n |-> s[i][1]]
<1>6. ASSUME NEW i \in 1 .. n PROVE r[i] \in K /\ s[i] = <<r[i], 0>>
  <2>1. s[i] \in P
    BY <1>5 DEF Sorted
  <2>2. PICK k \in K : s[i] = <<k, 0>>
    BY <2>1
  <2> QED BY <2>2
<1>7. ASSUME NEW i \in 1 .. n, NEW j \in 1 .. n, i < j PROVE r[i] < r[j]
  <2>1. Before(s[i], s[j])
    BY <1>5, <1>7 DEF Sorted
  <2>2. s[i][1] = r[i] /\ s[i][2] = 0 /\ s[j][1] = r[j] /\ s[j][2] = 0
    BY <1>6
  <2> QED BY <2>1, <2>2 DEF Before
<1>8. r \in [1 .. n -> K]
  BY <1>6
<1>9. \E q \in [1 .. n -> K] : \A i, j \in 1 .. n : i < j => q[i] < q[j]
  <2> HIDE DEF r
  <2> QED BY <1>7, <1>8
<1> QED BY <1>9 DEF NumberOrder, SortedNumbers

\* An injection of a finite set into one of the same size hits every element.
Distinct(s, n) == \A i, j \in 1 .. n : i # j => s[i] # s[j]
Hits(s, n, K) == \A k \in K : \E i \in 1 .. n : s[i] = k

LEMMA EachOnce ==
    ASSUME NEW n \in Nat, NEW K, IsFiniteSet(K), Cardinality(K) = n, NEW s \in [1 .. n -> K],
           Distinct(s, n)
    PROVE  Hits(s, n, K)
<1>0. IsFiniteSet(1 .. n) /\ Cardinality(1 .. n) = n
  BY FS_Interval
<1> DEFINE T == {s[i] : i \in 1 .. n}
<1>1. s \in [1 .. n -> T]
  OBVIOUS
<1>2. s \in Bijection(1 .. n, T)
  BY <1>1 DEF Bijection, Injection, Surjection, IsInjective, Distinct
<1>3. ExistsBijection(1 .. n, T)
  BY <1>2 DEF ExistsBijection
<1>4. IsFiniteSet(T) /\ Cardinality(T) = n
  BY <1>0, <1>3, FS_Bijection
<1>5. T \in SUBSET K
  OBVIOUS
<1>6. T = K
  BY <1>4, <1>5, FS_Subset
<1> QED BY <1>6 DEF Hits

\* What a key and its amount are, unit by unit.
LEMMA Column ==
    ASSUME NEW i, NEW a \in Nat
    PROVE  IsFiniteSet({i} \X (1 .. a)) /\ Cardinality({i} \X (1 .. a)) = a
<1>1. IsFiniteSet({i}) /\ Cardinality({i}) = 1
  BY FS_Singleton
<1>2. IsFiniteSet(1 .. a) /\ Cardinality(1 .. a) = a
  BY FS_Interval
<1>3. /\ IsFiniteSet({i} \X (1 .. a))
      /\ Cardinality({i} \X (1 .. a)) = Cardinality({i}) * Cardinality(1 .. a)
  BY <1>1, <1>2, FS_Product
<1> QED BY <1>1, <1>2, <1>3

\* The partial sums of a sequence of numbers.
IsSums(f, n, w) == f = [i \in 0 .. n |-> IF i = 0 THEN 0 ELSE f[i - 1] + w[i]]

LEMMA SumsExist ==
    ASSUME NEW n \in Nat, NEW w, \A i \in 1 .. n : w[i] \in Nat
    PROVE  \E f : IsSums(f, n, w)
<1> DEFINE P(m) == m <= n => \E f : IsSums(f, m, w)
<1>1. P(0)
  <2> DEFINE f == [i \in 0 .. 0 |-> 0]
  <2>1. f = [i \in 0 .. 0 |-> IF i = 0 THEN 0 ELSE f[i - 1] + w[i]]
    OBVIOUS
  <2> HIDE DEF f
  <2>2. IsSums(f, 0, w)
    BY <2>1 DEF IsSums
  <2> QED BY <2>2
<1>2. ASSUME NEW m \in Nat, P(m) PROVE P(m + 1)
  <2> SUFFICES ASSUME m + 1 <= n PROVE \E f : IsSums(f, m + 1, w)
    OBVIOUS
  <2>1. PICK f : IsSums(f, m, w)
    BY <1>2
  <2> DEFINE g == [i \in 0 .. m + 1 |-> IF i = m + 1 THEN f[m] + w[m + 1] ELSE f[i]]
  <2>2. \A i \in 0 .. m : f[i] = IF i = 0 THEN 0 ELSE f[i - 1] + w[i]
    BY <2>1 DEF IsSums
  <2>3. \A i \in 0 .. m : i \in 0 .. m + 1 /\ g[i] = f[i]
    OBVIOUS
  <2>4. ASSUME NEW i \in 0 .. m + 1
        PROVE  g[i] = IF i = 0 THEN 0 ELSE g[i - 1] + w[i]
    <3>1. CASE i = m + 1
      <4>1. i - 1 = m /\ g[i - 1] = f[m] /\ i # 0
        BY <2>3, <3>1
      <4>2. g[i] = f[m] + w[m + 1]
        BY <3>1
      <4> HIDE DEF g
      <4> QED BY <3>1, <4>1, <4>2
    <3>2. CASE i \in 0 .. m
      <4>1. g[i] = f[i] /\ (i # 0 => i - 1 \in 0 .. m /\ g[i - 1] = f[i - 1])
        BY <2>3, <3>2
      <4> HIDE DEF g
      <4> QED BY <2>2, <3>2, <4>1
    <3> QED BY <3>1, <3>2
  <2>5. g = [i \in 0 .. m + 1 |-> g[i]]
    OBVIOUS
  <2> HIDE DEF g
  <2>6. IsSums(g, m + 1, w)
    BY <2>4, <2>5 DEF IsSums
  <2> QED BY <2>6
<1> HIDE DEF P
<1>3. P(n)
  <2> DEFINE N == {j \in Nat : P(j)}
  <2>1. 0 \in N
    BY <1>1
  <2>2. \A i \in Nat : i \in N => i + 1 \in N
    BY <1>2
  <2> HIDE DEF N
  <2>3. \A i \in Nat : i \in N
    BY <2>1, <2>2, InductionOverNat
  <2> QED BY <2>3 DEF N
<1> QED BY <1>3 DEF P

\* A sum over an order of the elements is the number of units of all of them.
UnitsOf(of, w, n) == UNION {{of[i]} \X (1 .. w[i]) : i \in 1 .. n}

LEMMA SumCountsUnits ==
    ASSUME NEW n \in Nat, NEW w, \A i \in 1 .. n : w[i] \in Nat, NEW of, Distinct(of, n),
           NEW f, IsSums(f, n, w)
    PROVE  f[n] = Cardinality(UnitsOf(of, w, n))
<1> DEFINE U(m) == UNION {{of[i]} \X (1 .. w[i]) : i \in 1 .. m}
           P(m) == m <= n => IsFiniteSet(U(m)) /\ f[m] = Cardinality(U(m)) /\ f[m] \in Nat
<1>0. \A i \in 0 .. n : f[i] = IF i = 0 THEN 0 ELSE f[i - 1] + w[i]
  BY DEF IsSums
<1>1. P(0)
  <2>1. U(0) = {}
    OBVIOUS
  <2>2. f[0] = 0
    BY <1>0
  <2> QED BY <2>1, <2>2, FS_EmptySet
<1>2. ASSUME NEW m \in Nat, P(m) PROVE P(m + 1)
  <2> SUFFICES ASSUME m + 1 <= n
               PROVE  IsFiniteSet(U(m + 1)) /\ f[m + 1] = Cardinality(U(m + 1)) /\ f[m + 1] \in Nat
    OBVIOUS
  <2>1. IsFiniteSet(U(m)) /\ f[m] = Cardinality(U(m)) /\ f[m] \in Nat
    BY <1>2
  <2> DEFINE C == {of[m + 1]} \X (1 .. w[m + 1])
  <2>2. f[m + 1] = f[m] + w[m + 1] /\ w[m + 1] \in Nat
    BY <1>0
  <2>3. IsFiniteSet(C) /\ Cardinality(C) = w[m + 1]
    BY <2>2, Column
  <2>4. U(m + 1) = U(m) \cup C
    <3>1. \A i \in 1 .. m + 1 : i \in 1 .. m \/ i = m + 1
      OBVIOUS
    <3>2. \A i \in 1 .. m : i \in 1 .. m + 1
      OBVIOUS
    <3>3. m + 1 \in 1 .. m + 1
      OBVIOUS
    <3>4. ASSUME NEW x PROVE x \in U(m + 1) <=> x \in U(m) \/ x \in C
      <4>1. ASSUME x \in U(m + 1) PROVE x \in U(m) \/ x \in C
        <5>1. PICK i \in 1 .. m + 1 : x \in {of[i]} \X (1 .. w[i])
          BY <4>1
        <5> QED BY <3>1, <5>1
      <4>2. ASSUME x \in U(m) PROVE x \in U(m + 1)
        <5>1. PICK i \in 1 .. m : x \in {of[i]} \X (1 .. w[i])
          BY <4>2
        <5> QED BY <3>2, <5>1
      <4>3. ASSUME x \in C PROVE x \in U(m + 1)
        BY <3>3, <4>3
      <4> QED BY <4>1, <4>2, <4>3
    <3> HIDE DEF U, C
    <3> QED BY <3>4
  <2>5. U(m) \cap C = {}
    <3> SUFFICES ASSUME NEW x \in U(m), x \in C PROVE FALSE
      OBVIOUS
    <3>1. PICK i \in 1 .. m : x \in {of[i]} \X (1 .. w[i])
      OBVIOUS
    <3>2. of[i] = of[m + 1]
      BY <3>1
    <3>3. i \in 1 .. n /\ m + 1 \in 1 .. n /\ i # m + 1
      BY <3>1
    <3> QED BY <3>2, <3>3 DEF Distinct
  <2> HIDE DEF U, C
  <2>6. /\ IsFiniteSet(U(m) \cup C)
        /\ Cardinality(U(m) \cup C) = Cardinality(U(m)) + Cardinality(C) - Cardinality(U(m) \cap C)
    BY <2>1, <2>3, FS_Union
  <2>7. Cardinality(U(m) \cap C) = 0
    BY <2>5, FS_EmptySet
  <2>8. IsFiniteSet(U(m + 1)) /\ Cardinality(U(m + 1)) = Cardinality(U(m) \cup C)
    BY <2>4, <2>6, Zenon
  <2> QED BY <2>1, <2>2, <2>3, <2>6, <2>7, <2>8
<1> HIDE DEF P
<1>3. P(n)
  <2> DEFINE N == {j \in Nat : P(j)}
  <2>1. 0 \in N
    BY <1>1
  <2>2. \A i \in Nat : i \in N => i + 1 \in N
    BY <1>2
  <2> HIDE DEF N
  <2>3. \A i \in Nat : i \in N
    BY <2>1, <2>2, InductionOverNat
  <2> QED BY <2>3 DEF N
<1> QED BY <1>3 DEF P, UnitsOf

-----------------------------------------------------------------------------
(* The collections of a store.                                             *)

Collections == {"validatorIndex", "validators", "balances", "slashings", "totalSlashing",
                "payloadHeader", "payloadVersion", "pubkeyIndex", "addressIndex", "balanceIndex"}

LEMMA PrefixesDiffer ==
    ASSUME NEW c \in Collections, NEW d \in Collections, Prefix[c] = Prefix[d]
    PROVE  c = d
BY DEF Prefix, Collections

\* A collection as a function.
Coll(kv, c) == [k \in KeysOf(kv, c) |-> GetValue(kv, c, k)]

LEMMA KeysAre ==
    ASSUME NEW kv, IsStore(kv), NEW c \in Collections, NEW k
    PROVE  k \in KeysOf(kv, c) <=> <<Prefix[c], k>> \in DOMAIN kv
<1>1. ASSUME k \in KeysOf(kv, c) PROVE <<Prefix[c], k>> \in DOMAIN kv
  BY <1>1 DEF KeysOf, IsStore
<1>2. ASSUME <<Prefix[c], k>> \in DOMAIN kv PROVE k \in KeysOf(kv, c)
  <2>1. <<Prefix[c], k>>[1] = Prefix[c] /\ <<Prefix[c], k>>[2] = k
    OBVIOUS
  <2> QED BY <1>2, <2>1 DEF KeysOf
<1> QED BY <1>1, <1>2

\* s is kv with one value of one collection set.
HasSet(s, kv, c, k, v) ==
    /\ IsStore(s)
    /\ Coll(s, c) = [l \in DOMAIN Coll(kv, c) \cup {k} |-> IF l = k THEN v ELSE Coll(kv, c)[l]]
    /\ \A d \in Collections \ {c} : Coll(s, d) = Coll(kv, d)

LEMMA SetGives ==
    ASSUME NEW kv, IsStore(kv), NEW c \in Collections, NEW k, NEW v
    PROVE  HasSet(Set(kv, c, k, v), kv, c, k, v)
<1> DEFINE s == Set(kv, c, k, v)
<1>1. /\ DOMAIN s = DOMAIN kv \cup {<<Prefix[c], k>>}
      /\ \A x \in DOMAIN s : s[x] = IF x = <<Prefix[c], k>> THEN v ELSE kv[x]
  BY DEF Set
<1> HIDE DEF s
<1>2. IsStore(s)
  <2> SUFFICES ASSUME NEW x \in DOMAIN s PROVE x = <<x[1], x[2]>>
    BY DEF IsStore
  <2>1. CASE x \in DOMAIN kv
    BY <2>1 DEF IsStore
  <2>2. CASE x = <<Prefix[c], k>>
    BY <2>2
  <2> QED BY <1>1, <2>1, <2>2
<1>3. KeysOf(s, c) = KeysOf(kv, c) \cup {k}
  <2> SUFFICES ASSUME NEW l PROVE l \in KeysOf(s, c) <=> l \in KeysOf(kv, c) \cup {k}
    OBVIOUS
  <2>1. <<Prefix[c], l>> = <<Prefix[c], k>> <=> l = k
    OBVIOUS
  <2> QED BY <1>1, <1>2, <2>1, KeysAre
<1>4. ASSUME NEW l \in KeysOf(s, c)
      PROVE  GetValue(s, c, l) = IF l = k THEN v ELSE GetValue(kv, c, l)
  <2>1. <<Prefix[c], l>> \in DOMAIN s
    BY <1>2, KeysAre
  <2>2. <<Prefix[c], l>> = <<Prefix[c], k>> <=> l = k
    OBVIOUS
  <2> QED BY <1>1, <2>1, <2>2 DEF GetValue
<1>5. ASSUME NEW d \in Collections \ {c} PROVE Coll(s, d) = Coll(kv, d)
  <2>1. \A l : <<Prefix[d], l>> # <<Prefix[c], k>>
    BY PrefixesDiffer
  <2>2. KeysOf(s, d) = KeysOf(kv, d)
    <3> SUFFICES ASSUME NEW l PROVE l \in KeysOf(s, d) <=> l \in KeysOf(kv, d)
      OBVIOUS
    <3> QED BY <1>1, <1>2, <2>1, KeysAre
  <2>3. ASSUME NEW l \in KeysOf(s, d) PROVE GetValue(s, d, l) = GetValue(kv, d, l)
    BY <1>1, <1>2, <2>1, KeysAre DEF GetValue
  <2> QED BY <2>2, <2>3 DEF Coll
<1>6. Coll(s, c) = [l \in DOMAIN Coll(kv, c) \cup {k} |-> IF l = k THEN v ELSE Coll(kv, c)[l]]
  <2>1. DOMAIN Coll(kv, c) = KeysOf(kv, c)
    BY DEF Coll
  <2>2. Coll(s, c) = [l \in KeysOf(kv, c) \cup {k} |-> GetValue(s, c, l)]
    BY <1>3 DEF Coll
  <2>3. \A l \in KeysOf(kv, c) \cup {k} : GetValue(s, c, l) = IF l = k THEN v ELSE Coll(kv, c)[l]
    BY <1>3, <1>4 DEF Coll
  <2> QED BY <2>1, <2>2, <2>3
<1> QED BY <1>2, <1>5, <1>6 DEF s, HasSet

\* s is kv without one value of one collection.
HasUnset(s, kv, c, k) ==
    /\ IsStore(s)
    /\ Coll(s, c) = [l \in DOMAIN Coll(kv, c) \ {k} |-> Coll(kv, c)[l]]
    /\ \A d \in Collections \ {c} : Coll(s, d) = Coll(kv, d)

LEMMA UnsetGives ==
    ASSUME NEW kv, IsStore(kv), NEW c \in Collections, NEW k
    PROVE  HasUnset(Unset(kv, c, k), kv, c, k)
<1> DEFINE s == Unset(kv, c, k)
<1>1. /\ DOMAIN s = DOMAIN kv \ {<<Prefix[c], k>>}
      /\ \A x \in DOMAIN s : s[x] = kv[x]
  BY DEF Unset
<1> HIDE DEF s
<1>2. IsStore(s)
  BY <1>1 DEF IsStore
<1>3. KeysOf(s, c) = KeysOf(kv, c) \ {k}
  <2> SUFFICES ASSUME NEW l PROVE l \in KeysOf(s, c) <=> l \in KeysOf(kv, c) \ {k}
    OBVIOUS
  <2>1. <<Prefix[c], l>> = <<Prefix[c], k>> <=> l = k
    OBVIOUS
  <2> QED BY <1>1, <1>2, <2>1, KeysAre
<1>4. ASSUME NEW d \in Collections, NEW l \in KeysOf(s, d)
      PROVE  GetValue(s, d, l) = GetValue(kv, d, l) /\ l \in KeysOf(kv, d)
  BY <1>1, <1>2, KeysAre DEF GetValue
<1>5. ASSUME NEW d \in Collections \ {c} PROVE Coll(s, d) = Coll(kv, d)
  <2>1. \A l : <<Prefix[d], l>> # <<Prefix[c], k>>
    BY PrefixesDiffer
  <2>2. KeysOf(s, d) = KeysOf(kv, d)
    <3> SUFFICES ASSUME NEW l PROVE l \in KeysOf(s, d) <=> l \in KeysOf(kv, d)
      OBVIOUS
    <3> QED BY <1>1, <1>2, <2>1, KeysAre
  <2> QED BY <1>4, <2>2 DEF Coll
<1>6. Coll(s, c) = [l \in DOMAIN Coll(kv, c) \ {k} |-> Coll(kv, c)[l]]
  <2>1. DOMAIN Coll(kv, c) = KeysOf(kv, c)
    BY DEF Coll
  <2> QED BY <1>3, <1>4, <2>1 DEF Coll
<1> QED BY <1>2, <1>5, <1>6 DEF s, HasUnset

LEMMA Reads ==
    ASSUME NEW kv, IsStore(kv), NEW c \in Collections, NEW k, NEW default
    PROVE  /\ KeysOf(kv, c) = DOMAIN Coll(kv, c)
           /\ Has(kv, c, k) <=> k \in DOMAIN Coll(kv, c)
           /\ k \in DOMAIN Coll(kv, c) => GetValue(kv, c, k) = Coll(kv, c)[k]
           /\ GetOr(kv, c, k, default) =
                 IF k \in DOMAIN Coll(kv, c) THEN Coll(kv, c)[k] ELSE default
<1>1. KeysOf(kv, c) = DOMAIN Coll(kv, c)
  BY DEF Coll
<1>2. Has(kv, c, k) <=> k \in DOMAIN Coll(kv, c)
  BY <1>1, KeysAre DEF Has
<1>3. k \in DOMAIN Coll(kv, c) => GetValue(kv, c, k) = Coll(kv, c)[k]
  BY <1>1 DEF Coll
<1> QED BY <1>1, <1>2, <1>3 DEF GetOr

-----------------------------------------------------------------------------
(* The registry.                                                           *)

\* Aligned, in terms of the collections: the sequence, the validators, the
\* balances and the three indexes.
AlignedColls(ix, vs, bs, pi, ai, bi) ==
    LET n == IF Item \in DOMAIN ix THEN ix[Item] ELSE 0
    IN /\ n \in Nat
       /\ DOMAIN vs = 0 .. n - 1 /\ DOMAIN bs = 0 .. n - 1
       /\ \A i \in 0 .. n - 1 :
             /\ vs[i].pubkey \in DOMAIN pi /\ pi[vs[i].pubkey] = i
             /\ AddressHash(vs[i].pubkey) \in DOMAIN ai /\ ai[AddressHash(vs[i].pubkey)] = i
       /\ DOMAIN pi = {vs[i].pubkey : i \in 0 .. n - 1}
       /\ DOMAIN ai = {AddressHash(vs[i].pubkey) : i \in 0 .. n - 1}
       /\ DOMAIN bi = {<<vs[i].effectiveBalance, i>> : i \in 0 .. n - 1}
AlignedStore(kv) ==
    AlignedColls(Coll(kv, "validatorIndex"), Coll(kv, "validators"), Coll(kv, "balances"),
                 Coll(kv, "pubkeyIndex"), Coll(kv, "addressIndex"), Coll(kv, "balanceIndex"))

LEMMA AlignedIs == ASSUME NEW kv, IsStore(kv) PROVE Aligned(kv) <=> AlignedStore(kv)
<1> DEFINE ix == Coll(kv, "validatorIndex")
           vs == Coll(kv, "validators")
           bs == Coll(kv, "balances")
           pi == Coll(kv, "pubkeyIndex")
           ai == Coll(kv, "addressIndex")
           bi == Coll(kv, "balanceIndex")
           n == GetOr(kv, "validatorIndex", Item, 0)
           m == IF Item \in DOMAIN ix THEN ix[Item] ELSE 0
<1>0. \A c \in {"validatorIndex", "validators", "balances", "pubkeyIndex", "addressIndex",
                "balanceIndex"} : c \in Collections
  BY DEF Collections
<1>1. n = m
  BY <1>0, Reads
<1>2. /\ KeysOf(kv, "validators") = DOMAIN vs /\ KeysOf(kv, "balances") = DOMAIN bs
      /\ KeysOf(kv, "pubkeyIndex") = DOMAIN pi /\ KeysOf(kv, "addressIndex") = DOMAIN ai
      /\ KeysOf(kv, "balanceIndex") = DOMAIN bi
  BY <1>0, Reads
<1>3. \A i \in DOMAIN vs : ValidatorByIndex(kv, i) = vs[i]
  BY <1>0, Reads DEF ValidatorByIndex
<1>4. ASSUME NEW k, NEW i
      PROVE  ValidatorIndexByPubkey(kv, k) = {i} <=> k \in DOMAIN pi /\ pi[k] = i
  <2>1. Has(kv, "pubkeyIndex", k) <=> k \in DOMAIN pi
    BY <1>0, Reads
  <2>2. k \in DOMAIN pi => GetValue(kv, "pubkeyIndex", k) = pi[k]
    BY <1>0, Reads
  <2> HIDE DEF pi
  <2> QED BY <2>1, <2>2 DEF ValidatorIndexByPubkey
<1>5. ASSUME NEW k, NEW i
      PROVE  ValidatorIndexByCometBFTAddress(kv, k) = {i} <=> k \in DOMAIN ai /\ ai[k] = i
  <2>1. Has(kv, "addressIndex", k) <=> k \in DOMAIN ai
    BY <1>0, Reads
  <2>2. k \in DOMAIN ai => GetValue(kv, "addressIndex", k) = ai[k]
    BY <1>0, Reads
  <2> HIDE DEF ai
  <2> QED BY <2>1, <2>2 DEF ValidatorIndexByCometBFTAddress
<1>6. AlignedStore(kv) <=> AlignedColls(ix, vs, bs, pi, ai, bi)
  BY DEF AlignedStore
<1> HIDE DEF ix, vs, bs, pi, ai, bi
<1>7. ASSUME DOMAIN vs = 0 .. m - 1
      PROVE  Aligned(kv) <=> AlignedColls(ix, vs, bs, pi, ai, bi)
  <2>1. /\ {ValidatorByIndex(kv, i).pubkey : i \in 0 .. m - 1} = {vs[i].pubkey : i \in 0 .. m - 1}
        /\ {AddressHash(ValidatorByIndex(kv, i).pubkey) : i \in 0 .. m - 1}
              = {AddressHash(vs[i].pubkey) : i \in 0 .. m - 1}
        /\ {<<ValidatorByIndex(kv, i).effectiveBalance, i>> : i \in 0 .. m - 1}
              = {<<vs[i].effectiveBalance, i>> : i \in 0 .. m - 1}
    BY <1>3, <1>7
  <2>2. ASSUME NEW i \in 0 .. m - 1
        PROVE  (/\ ValidatorIndexByPubkey(kv, ValidatorByIndex(kv, i).pubkey) = {i}
                /\ ValidatorIndexByCometBFTAddress(kv, AddressHash(ValidatorByIndex(kv, i).pubkey)) = {i})
               <=>
               (/\ vs[i].pubkey \in DOMAIN pi /\ pi[vs[i].pubkey] = i
                /\ AddressHash(vs[i].pubkey) \in DOMAIN ai /\ ai[AddressHash(vs[i].pubkey)] = i)
    <3> DEFINE k == vs[i].pubkey
               a == AddressHash(k)
    <3>1. ValidatorByIndex(kv, i) = vs[i]
      BY <1>3, <1>7
    <3>2. ValidatorIndexByPubkey(kv, k) = {i} <=> k \in DOMAIN pi /\ pi[k] = i
      BY <1>4
    <3>3. ValidatorIndexByCometBFTAddress(kv, a) = {i} <=> a \in DOMAIN ai /\ ai[a] = i
      BY <1>5
    <3> QED BY <3>1, <3>2, <3>3
  <2> HIDE DEF n, m
  <2> QED BY <1>1, <1>2, <1>7, <2>1, <2>2 DEF Aligned, AlignedColls, n, m
<1>8. Aligned(kv) => DOMAIN vs = 0 .. m - 1
  BY <1>1, <1>2 DEF Aligned
<1>9. AlignedColls(ix, vs, bs, pi, ai, bi) => DOMAIN vs = 0 .. m - 1
  BY DEF AlignedColls
<1> QED BY <1>6, <1>7, <1>8, <1>9

\* One index after Reindex: the entry of validator i is the new one.
Reindexed(vs, f, c, i, val) ==
    LET old == IF i \in DOMAIN vs THEN {Reference(c, i, vs[i])} ELSE {}
        k == Reference(c, i, val)
    IN [l \in (DOMAIN f \ old) \cup {k} |-> IF l = k THEN i ELSE f[l]]
Conflict(vs, f, c, i, val) ==
    /\ c \in UniqueIndexes
    /\ Reference(c, i, val) \in DOMAIN f
    /\ i \in DOMAIN vs => Reference(c, i, val) # Reference(c, i, vs[i])

\* q has failed, or holds kv with the entry of validator i in one index replaced.
HasReindexed(q, kv, c, i, val) ==
    LET vs == Coll(kv, "validators")
        f == Coll(kv, c)
    IN /\ q.ok = TRUE \/ q.ok = FALSE
       /\ q.ok => /\ ~Conflict(vs, f, c, i, val)
                  /\ IsStore(q.kv)
                  /\ Coll(q.kv, c) = Reindexed(vs, f, c, i, val)
                  /\ \A d \in Collections \ {c} : Coll(q.kv, d) = Coll(kv, d)

LEMMA ReindexGives ==
    ASSUME NEW r, r.ok = TRUE, IsStore(r.kv), NEW c \in Collections \ {"validators"}, NEW i, NEW val
    PROVE  HasReindexed(Reindex(r, c, i, val), r.kv, c, i, val)
<1> DEFINE q == Reindex(r, c, i, val)
           vs == Coll(r.kv, "validators")
           f == Coll(r.kv, c)
           k == Reference(c, i, val)
           old == IF i \in DOMAIN vs THEN {Reference(c, i, vs[i])} ELSE {}
           s == IF Has(r.kv, "validators", i)
                THEN Unset(r.kv, c, Reference(c, i, GetValue(r.kv, "validators", i))) ELSE r.kv
<1>0. "validators" \in Collections /\ c \in Collections
  BY DEF Collections
<1>1. Has(r.kv, "validators", i) <=> i \in DOMAIN vs
  BY <1>0, Reads
<1>2. i \in DOMAIN vs => GetValue(r.kv, "validators", i) = vs[i]
  BY <1>0, Reads
<1>3. /\ IsStore(s)
      /\ Coll(s, c) = [l \in DOMAIN f \ old |-> f[l]]
      /\ \A d \in Collections \ {c} : Coll(s, d) = Coll(r.kv, d)
  <2>1. CASE i \in DOMAIN vs
    <3>1. s = Unset(r.kv, c, Reference(c, i, vs[i])) /\ old = {Reference(c, i, vs[i])}
      BY <1>1, <1>2, <2>1
    <3> DEFINE o == Reference(c, i, vs[i])
    <3> HIDE DEF s, vs, old, o
    <3>2. HasUnset(Unset(r.kv, c, o), r.kv, c, o)
      BY <1>0, UnsetGives
    <3> QED BY <3>1, <3>2 DEF o, HasUnset
  <2>2. CASE i \notin DOMAIN vs
    <3>1. s = r.kv /\ old = {}
      BY <1>1, <2>2
    <3>2. f = [l \in DOMAIN f |-> f[l]]
      BY DEF Coll
    <3> HIDE DEF s, old, f
    <3> QED BY <3>1, <3>2 DEF f
  <2> QED BY <2>1, <2>2
<1>4. q = IF c \in UniqueIndexes /\ Has(s, c, k) THEN [ok |-> FALSE, kv |-> s]
          ELSE [ok |-> TRUE, kv |-> Set(s, c, k, i)]
  BY DEF Reindex
<1>5. Has(s, c, k) <=> k \in DOMAIN f \ old
  <2> HIDE DEF s, f, old
  <2> QED BY <1>3, Reads
<1>6. q.ok <=> ~Conflict(vs, f, c, i, val)
  <2>1. Conflict(vs, f, c, i, val) <=> c \in UniqueIndexes /\ k \in DOMAIN f \ old
    BY DEF Conflict
  <2> HIDE DEF s, f, old, vs, q, k
  <2> QED BY <1>4, <1>5, <2>1
<1>7. ASSUME q.ok
      PROVE  /\ IsStore(q.kv)
             /\ Coll(q.kv, c) = Reindexed(vs, f, c, i, val)
             /\ \A d \in Collections \ {c} : Coll(q.kv, d) = Coll(r.kv, d)
  <2>1. q.kv = Set(s, c, k, i)
    <3> HIDE DEF s, k, q
    <3> QED BY <1>4, <1>7
  <2>2. Reindexed(vs, f, c, i, val) = [l \in (DOMAIN f \ old) \cup {k} |-> IF l = k THEN i ELSE f[l]]
    BY DEF Reindexed
  <2> HIDE DEF s, f, old, vs, q, k
  <2>3. /\ IsStore(q.kv)
        /\ Coll(q.kv, c) = [l \in DOMAIN Coll(s, c) \cup {k} |-> IF l = k THEN i ELSE Coll(s, c)[l]]
        /\ \A d \in Collections \ {c} : Coll(q.kv, d) = Coll(s, d)
    <3>1. HasSet(q.kv, s, c, k, i)
      BY <1>0, <1>3, <2>1, SetGives
    <3> QED BY <3>1 DEF HasSet
  <2>4. Coll(q.kv, c) = [l \in (DOMAIN f \ old) \cup {k} |-> IF l = k THEN i ELSE f[l]]
    <3>1. DOMAIN Coll(s, c) = DOMAIN f \ old /\ \A l \in DOMAIN f \ old : Coll(s, c)[l] = f[l]
      BY <1>3
    <3> QED BY <2>3, <3>1
  <2> QED BY <1>3, <2>2, <2>3, <2>4
<1>8. q.ok = TRUE \/ q.ok = FALSE
  <2> HIDE DEF s, k, q
  <2> QED BY <1>4
<1> QED BY <1>6, <1>7, <1>8 DEF HasReindexed

\* s is kv with validator i set in the map and in its three indexes.
HasSetValidator(s, kv, i, val) ==
    LET vs == Coll(kv, "validators")
    IN /\ IsStore(s)
       /\ Coll(s, "validators") = [j \in DOMAIN vs \cup {i} |-> IF j = i THEN val ELSE vs[j]]
       /\ \A c \in {"pubkeyIndex", "addressIndex", "balanceIndex"} :
             /\ ~Conflict(vs, Coll(kv, c), c, i, val)
             /\ Coll(s, c) = Reindexed(vs, Coll(kv, c), c, i, val)
       /\ \A c \in Collections \ {"validators", "pubkeyIndex", "addressIndex", "balanceIndex"} :
             Coll(s, c) = Coll(kv, c)

\* What Set of the indexed map does if it succeeds.
LEMMA SetValidatorGives ==
    ASSUME NEW kv, IsStore(kv), NEW i, NEW val, SetValidator(kv, i, val).ok
    PROVE  HasSetValidator(SetValidator(kv, i, val).kv, kv, i, val)
<1> DEFINE r0 == [ok |-> TRUE, kv |-> kv]
           r1 == Reindex(r0, "pubkeyIndex", i, val)
           r2 == Reindex(r1, "balanceIndex", i, val)
           r3 == Reindex(r2, "addressIndex", i, val)
           vs == Coll(kv, "validators")
<1>0. /\ {"validators", "pubkeyIndex", "addressIndex", "balanceIndex"} \subseteq Collections
      /\ {"pubkeyIndex", "addressIndex", "balanceIndex"} \subseteq Collections \ {"validators"}
  BY DEF Collections
<1>1. SetValidator(kv, i, val) = IF r3.ok THEN [ok |-> TRUE, kv |-> Set(r3.kv, "validators", i, val)]
                                 ELSE r3
  BY DEF SetValidator, IndexesList
<1>2. \A r, c : ~r.ok => Reindex(r, c, i, val) = r
  BY DEF Reindex
<1>3. r0.ok = TRUE /\ r0.kv = kv
  OBVIOUS
<1> HIDE DEF r0
<1>4. /\ r1.ok = TRUE \/ r1.ok = FALSE
      /\ r1.ok => /\ IsStore(r1.kv)
                  /\ ~Conflict(vs, Coll(kv, "pubkeyIndex"), "pubkeyIndex", i, val)
                  /\ Coll(r1.kv, "pubkeyIndex")
                       = Reindexed(vs, Coll(kv, "pubkeyIndex"), "pubkeyIndex", i, val)
                  /\ \A d \in Collections \ {"pubkeyIndex"} : Coll(r1.kv, d) = Coll(kv, d)
  <2>1. HasReindexed(r1, r0.kv, "pubkeyIndex", i, val)
    BY <1>0, <1>3, ReindexGives
  <2> HIDE DEF r1
  <2> QED BY <1>3, <2>1 DEF HasReindexed
<1> HIDE DEF r1
<1>5. ASSUME r1.ok = TRUE
      PROVE  /\ r2.ok = TRUE \/ r2.ok = FALSE
             /\ r2.ok => /\ IsStore(r2.kv)
                         /\ ~Conflict(vs, Coll(kv, "balanceIndex"), "balanceIndex", i, val)
                         /\ Coll(r2.kv, "balanceIndex")
                              = Reindexed(vs, Coll(kv, "balanceIndex"), "balanceIndex", i, val)
                         /\ \A d \in Collections \ {"balanceIndex"} : Coll(r2.kv, d) = Coll(r1.kv, d)
  <2>1. Coll(r1.kv, "validators") = vs /\ Coll(r1.kv, "balanceIndex") = Coll(kv, "balanceIndex")
    BY <1>0, <1>4, <1>5
  <2>2. HasReindexed(r2, r1.kv, "balanceIndex", i, val)
    BY <1>0, <1>4, <1>5, ReindexGives
  <2> HIDE DEF vs, r2
  <2> QED BY <2>1, <2>2 DEF HasReindexed
<1>6. ASSUME ~r1.ok PROVE r2 = r1
  BY <1>2, <1>6
<1> HIDE DEF r2
<1>7. ASSUME r1.ok = TRUE, r2.ok = TRUE
      PROVE  /\ r3.ok = TRUE \/ r3.ok = FALSE
             /\ r3.ok => /\ IsStore(r3.kv)
                         /\ ~Conflict(vs, Coll(kv, "addressIndex"), "addressIndex", i, val)
                         /\ Coll(r3.kv, "addressIndex")
                              = Reindexed(vs, Coll(kv, "addressIndex"), "addressIndex", i, val)
                         /\ \A d \in Collections \ {"addressIndex"} : Coll(r3.kv, d) = Coll(r2.kv, d)
  <2>1. Coll(r2.kv, "validators") = vs /\ Coll(r2.kv, "addressIndex") = Coll(kv, "addressIndex")
    BY <1>0, <1>4, <1>5, <1>7
  <2>2. HasReindexed(r3, r2.kv, "addressIndex", i, val)
    BY <1>0, <1>5, <1>7, ReindexGives
  <2> HIDE DEF vs, r3
  <2> QED BY <2>1, <2>2 DEF HasReindexed
<1>8. ASSUME ~r2.ok PROVE r3 = r2
  BY <1>2, <1>8
<1> HIDE DEF r3
<1>9. r1.ok = TRUE /\ r2.ok = TRUE /\ r3.ok = TRUE
  <2>1. r3.ok
    BY <1>1
  <2>2. r2.ok
    BY <1>8, <2>1
  <2>3. r1.ok
    BY <1>6, <2>2
  <2>4. r1.ok = TRUE
    BY <1>4, <2>3
  <2>5. r2.ok = TRUE
    BY <1>5, <2>2, <2>4
  <2> QED BY <1>7, <2>1, <2>4, <2>5
<1>10. SetValidator(kv, i, val).kv = Set(r3.kv, "validators", i, val)
  BY <1>1, <1>9
<1> DEFINE s == SetValidator(kv, i, val).kv
<1> HIDE DEF s
<1>11. /\ IsStore(s)
       /\ Coll(s, "validators") = [j \in DOMAIN Coll(r3.kv, "validators") \cup {i} |->
                                      IF j = i THEN val ELSE Coll(r3.kv, "validators")[j]]
       /\ \A d \in Collections \ {"validators"} : Coll(s, d) = Coll(r3.kv, d)
  <2>1. HasSet(s, r3.kv, "validators", i, val)
    BY <1>0, <1>7, <1>9, <1>10, SetGives DEF s
  <2> QED BY <2>1 DEF HasSet
<1>12. Coll(r3.kv, "validators") = vs
  BY <1>0, <1>4, <1>5, <1>7, <1>9
<1>13. \A c \in {"pubkeyIndex", "addressIndex", "balanceIndex"} :
          /\ ~Conflict(vs, Coll(kv, c), c, i, val)
          /\ Coll(s, c) = Reindexed(vs, Coll(kv, c), c, i, val)
  <2> HIDE DEF vs
  <2>1. ~Conflict(vs, Coll(kv, "pubkeyIndex"), "pubkeyIndex", i, val)
        /\ Coll(s, "pubkeyIndex") = Reindexed(vs, Coll(kv, "pubkeyIndex"), "pubkeyIndex", i, val)
    BY <1>0, <1>4, <1>5, <1>7, <1>9, <1>11
  <2>2. ~Conflict(vs, Coll(kv, "balanceIndex"), "balanceIndex", i, val)
        /\ Coll(s, "balanceIndex") = Reindexed(vs, Coll(kv, "balanceIndex"), "balanceIndex", i, val)
    BY <1>0, <1>5, <1>7, <1>9, <1>11
  <2>3. ~Conflict(vs, Coll(kv, "addressIndex"), "addressIndex", i, val)
        /\ Coll(s, "addressIndex") = Reindexed(vs, Coll(kv, "addressIndex"), "addressIndex", i, val)
    BY <1>0, <1>7, <1>9, <1>11
  <2> QED BY <2>1, <2>2, <2>3
<1>14. \A c \in Collections \ {"validators", "pubkeyIndex", "addressIndex", "balanceIndex"} :
          Coll(s, c) = Coll(kv, c)
  BY <1>4, <1>5, <1>7, <1>9, <1>11
<1> QED BY <1>11, <1>12, <1>13, <1>14 DEF s, HasSetValidator

\* The registry with one more validator, aligned.
AlignedWith(ix, vs, bs, pi, ai, bi, n, val, balance) ==
    AlignedColls([k \in DOMAIN ix \cup {Item} |-> IF k = Item THEN n + 1 ELSE ix[k]],
                 [j \in DOMAIN vs \cup {n} |-> IF j = n THEN val ELSE vs[j]],
                 [j \in DOMAIN bs \cup {n} |-> IF j = n THEN balance ELSE bs[j]],
                 Reindexed(vs, pi, "pubkeyIndex", n, val),
                 Reindexed(vs, ai, "addressIndex", n, val),
                 Reindexed(vs, bi, "balanceIndex", n, val))

\* A new validator takes the next index in the validators and the balances, and its
\* own entry in every index.
LEMMA AlignedAdd ==
    ASSUME NEW ix, NEW vs, NEW bs, NEW pi, NEW ai, NEW bi, AlignedColls(ix, vs, bs, pi, ai, bi),
           NEW n, n = (IF Item \in DOMAIN ix THEN ix[Item] ELSE 0),
           NEW val, NEW balance,
           ~Conflict(vs, pi, "pubkeyIndex", n, val), ~Conflict(vs, ai, "addressIndex", n, val)
    PROVE  AlignedWith(ix, vs, bs, pi, ai, bi, n, val, balance)
<1> DEFINE ix1 == [k \in DOMAIN ix \cup {Item} |-> IF k = Item THEN n + 1 ELSE ix[k]]
           vs1 == [j \in DOMAIN vs \cup {n} |-> IF j = n THEN val ELSE vs[j]]
           bs1 == [j \in DOMAIN bs \cup {n} |-> IF j = n THEN balance ELSE bs[j]]
           pi1 == Reindexed(vs, pi, "pubkeyIndex", n, val)
           ai1 == Reindexed(vs, ai, "addressIndex", n, val)
           bi1 == Reindexed(vs, bi, "balanceIndex", n, val)
           pk == val.pubkey
           addr == AddressHash(pk)
<1>1. /\ n \in Nat /\ DOMAIN vs = 0 .. n - 1 /\ DOMAIN bs = 0 .. n - 1
      /\ \A i \in 0 .. n - 1 :
             /\ vs[i].pubkey \in DOMAIN pi /\ pi[vs[i].pubkey] = i
             /\ AddressHash(vs[i].pubkey) \in DOMAIN ai /\ ai[AddressHash(vs[i].pubkey)] = i
      /\ DOMAIN pi = {vs[i].pubkey : i \in 0 .. n - 1}
      /\ DOMAIN ai = {AddressHash(vs[i].pubkey) : i \in 0 .. n - 1}
      /\ DOMAIN bi = {<<vs[i].effectiveBalance, i>> : i \in 0 .. n - 1}
  BY DEF AlignedColls
<1>2. n \notin DOMAIN vs /\ (0 .. n - 1) \cup {n} = 0 .. (n + 1) - 1
  BY <1>1
<1>3. /\ Reference("pubkeyIndex", n, val) = pk /\ Reference("addressIndex", n, val) = addr
      /\ Reference("balanceIndex", n, val) = <<val.effectiveBalance, n>>
  BY DEF Reference
<1>4. pk \notin DOMAIN pi /\ addr \notin DOMAIN ai
  BY <1>2, <1>3 DEF Conflict, UniqueIndexes
<1>5. /\ pi1 = [l \in DOMAIN pi \cup {pk} |-> IF l = pk THEN n ELSE pi[l]]
      /\ ai1 = [l \in DOMAIN ai \cup {addr} |-> IF l = addr THEN n ELSE ai[l]]
      /\ DOMAIN bi1 = DOMAIN bi \cup {<<val.effectiveBalance, n>>}
  <2> HIDE DEF pk, addr
  <2> QED BY <1>2, <1>3 DEF Reindexed
<1>6. /\ DOMAIN vs1 = 0 .. (n + 1) - 1 /\ DOMAIN bs1 = 0 .. (n + 1) - 1
      /\ vs1[n] = val /\ \A i \in 0 .. n - 1 : vs1[i] = vs[i]
  BY <1>1, <1>2
<1>7. Item \in DOMAIN ix1 /\ ix1[Item] = n + 1
  OBVIOUS
<1> HIDE DEF ix1, vs1, bs1, pi1, ai1, bi1, pk, addr
<1>8. ASSUME NEW i \in 0 .. (n + 1) - 1
      PROVE  /\ vs1[i].pubkey \in DOMAIN pi1 /\ pi1[vs1[i].pubkey] = i
             /\ AddressHash(vs1[i].pubkey) \in DOMAIN ai1 /\ ai1[AddressHash(vs1[i].pubkey)] = i
  <2>1. CASE i = n
    BY <1>5, <1>6, <2>1 DEF pk, addr
  <2>2. CASE i \in 0 .. n - 1
    <3>1. /\ vs[i].pubkey \in DOMAIN pi /\ pi[vs[i].pubkey] = i
          /\ AddressHash(vs[i].pubkey) \in DOMAIN ai /\ ai[AddressHash(vs[i].pubkey)] = i
      BY <1>1, <2>2
    <3>2. vs[i].pubkey # pk /\ AddressHash(vs[i].pubkey) # addr
      BY <1>4, <3>1
    <3> QED BY <1>5, <1>6, <2>2, <3>1, <3>2
  <2> QED BY <1>2, <2>1, <2>2
<1>9. /\ DOMAIN pi1 = {vs1[i].pubkey : i \in 0 .. (n + 1) - 1}
      /\ DOMAIN ai1 = {AddressHash(vs1[i].pubkey) : i \in 0 .. (n + 1) - 1}
      /\ DOMAIN bi1 = {<<vs1[i].effectiveBalance, i>> : i \in 0 .. (n + 1) - 1}
  <2>1. DOMAIN pi1 = {vs1[i].pubkey : i \in (0 .. n - 1) \cup {n}}
    <3>1. {vs1[i].pubkey : i \in (0 .. n - 1) \cup {n}}
            = {vs[i].pubkey : i \in 0 .. n - 1} \cup {pk}
      BY <1>6 DEF pk
    <3> QED BY <1>1, <1>5, <3>1
  <2>2. DOMAIN ai1 = {AddressHash(vs1[i].pubkey) : i \in (0 .. n - 1) \cup {n}}
    <3>1. {AddressHash(vs1[i].pubkey) : i \in (0 .. n - 1) \cup {n}}
            = {AddressHash(vs[i].pubkey) : i \in 0 .. n - 1} \cup {addr}
      BY <1>6 DEF addr, pk
    <3> QED BY <1>1, <1>5, <3>1
  <2>3. DOMAIN bi1 = {<<vs1[i].effectiveBalance, i>> : i \in (0 .. n - 1) \cup {n}}
    <3>1. {<<vs1[i].effectiveBalance, i>> : i \in (0 .. n - 1) \cup {n}}
            = {<<vs[i].effectiveBalance, i>> : i \in 0 .. n - 1} \cup {<<val.effectiveBalance, n>>}
      BY <1>6
    <3> QED BY <1>1, <1>5, <3>1
  <2> QED BY <1>2, <2>1, <2>2, <2>3
<1>10. n + 1 \in Nat
  BY <1>1
<1>11. AlignedColls(ix1, vs1, bs1, pi1, ai1, bi1)
  BY <1>6, <1>7, <1>8, <1>9, <1>10 DEF AlignedColls
<1> QED BY <1>11 DEF AlignedWith, ix1, vs1, bs1, pi1, ai1, bi1

\* A validator that keeps its key keeps its entries in the unique indexes, and its
\* entry by balance moves.
LEMMA AlignedUpdate ==
    ASSUME NEW ix, NEW vs, NEW bs, NEW pi, NEW ai, NEW bi, AlignedColls(ix, vs, bs, pi, ai, bi),
           NEW i \in DOMAIN vs, NEW val, val.pubkey = vs[i].pubkey
    PROVE  AlignedColls(ix, [j \in DOMAIN vs \cup {i} |-> IF j = i THEN val ELSE vs[j]], bs,
                        Reindexed(vs, pi, "pubkeyIndex", i, val),
                        Reindexed(vs, ai, "addressIndex", i, val),
                        Reindexed(vs, bi, "balanceIndex", i, val))
<1> DEFINE n == IF Item \in DOMAIN ix THEN ix[Item] ELSE 0
           vs1 == [j \in DOMAIN vs \cup {i} |-> IF j = i THEN val ELSE vs[j]]
           pi1 == Reindexed(vs, pi, "pubkeyIndex", i, val)
           ai1 == Reindexed(vs, ai, "addressIndex", i, val)
           bi1 == Reindexed(vs, bi, "balanceIndex", i, val)
           pk == val.pubkey
           addr == AddressHash(pk)
           oldEntry == <<vs[i].effectiveBalance, i>>
           newEntry == <<val.effectiveBalance, i>>
<1>1. /\ n \in Nat /\ DOMAIN vs = 0 .. n - 1 /\ DOMAIN bs = 0 .. n - 1
      /\ \A j \in 0 .. n - 1 :
             /\ vs[j].pubkey \in DOMAIN pi /\ pi[vs[j].pubkey] = j
             /\ AddressHash(vs[j].pubkey) \in DOMAIN ai /\ ai[AddressHash(vs[j].pubkey)] = j
      /\ DOMAIN pi = {vs[j].pubkey : j \in 0 .. n - 1}
      /\ DOMAIN ai = {AddressHash(vs[j].pubkey) : j \in 0 .. n - 1}
      /\ DOMAIN bi = {<<vs[j].effectiveBalance, j>> : j \in 0 .. n - 1}
  BY DEF AlignedColls
<1>2. /\ Reference("pubkeyIndex", i, val) = pk /\ Reference("pubkeyIndex", i, vs[i]) = pk
      /\ Reference("addressIndex", i, val) = addr /\ Reference("addressIndex", i, vs[i]) = addr
      /\ Reference("balanceIndex", i, val) = newEntry
      /\ Reference("balanceIndex", i, vs[i]) = oldEntry
  BY DEF Reference
<1>3. pk \in DOMAIN pi /\ pi[pk] = i /\ addr \in DOMAIN ai /\ ai[addr] = i
  BY <1>1
<1> HIDE DEF pk, addr, oldEntry, newEntry
<1>4. /\ DOMAIN pi1 = DOMAIN pi /\ \A l \in DOMAIN pi : pi1[l] = pi[l]
      /\ DOMAIN ai1 = DOMAIN ai /\ \A l \in DOMAIN ai : ai1[l] = ai[l]
      /\ DOMAIN bi1 = (DOMAIN bi \ {oldEntry}) \cup {newEntry}
  <2>1. pi1 = [l \in (DOMAIN pi \ {pk}) \cup {pk} |-> IF l = pk THEN i ELSE pi[l]]
    BY <1>2 DEF Reindexed
  <2>2. ai1 = [l \in (DOMAIN ai \ {addr}) \cup {addr} |-> IF l = addr THEN i ELSE ai[l]]
    BY <1>2 DEF Reindexed
  <2>3. bi1 = [l \in (DOMAIN bi \ {oldEntry}) \cup {newEntry} |-> IF l = newEntry THEN i ELSE bi[l]]
    BY <1>2 DEF Reindexed
  <2> HIDE DEF pi1, ai1, bi1
  <2> QED BY <1>3, <2>1, <2>2, <2>3
<1>5. /\ DOMAIN vs1 = 0 .. n - 1 /\ vs1[i] = val
      /\ \A j \in 0 .. n - 1 : vs1[j] = IF j = i THEN val ELSE vs[j]
  BY <1>1
<1>6. \A j \in 0 .. n - 1 : vs1[j].pubkey = vs[j].pubkey
  BY <1>5
<1> HIDE DEF vs1, pi1, ai1, bi1
<1>7. /\ DOMAIN pi1 = {vs1[j].pubkey : j \in 0 .. n - 1}
      /\ DOMAIN ai1 = {AddressHash(vs1[j].pubkey) : j \in 0 .. n - 1}
  <2>1. {vs1[j].pubkey : j \in 0 .. n - 1} = {vs[j].pubkey : j \in 0 .. n - 1}
    BY <1>6
  <2>2. {AddressHash(vs1[j].pubkey) : j \in 0 .. n - 1}
          = {AddressHash(vs[j].pubkey) : j \in 0 .. n - 1}
    BY <1>6
  <2> QED BY <1>1, <1>4, <2>1, <2>2
<1>8. DOMAIN bi1 = {<<vs1[j].effectiveBalance, j>> : j \in 0 .. n - 1}
  <2>1. ASSUME NEW x \in DOMAIN bi1 PROVE \E j \in 0 .. n - 1 : x = <<vs1[j].effectiveBalance, j>>
    <3>1. CASE x = newEntry
      BY <1>1, <1>5, <3>1 DEF newEntry
    <3>2. CASE x \in DOMAIN bi /\ x # oldEntry
      <4>1. PICK j \in 0 .. n - 1 : x = <<vs[j].effectiveBalance, j>>
        BY <1>1, <3>2
      <4>2. j # i
        BY <3>2, <4>1 DEF oldEntry
      <4> QED BY <1>5, <4>1, <4>2
    <3> QED BY <1>4, <3>1, <3>2
  <2>2. ASSUME NEW j \in 0 .. n - 1 PROVE <<vs1[j].effectiveBalance, j>> \in DOMAIN bi1
    <3>1. CASE j = i
      BY <1>4, <1>5, <3>1 DEF newEntry
    <3>2. CASE j # i
      <4>1. <<vs[j].effectiveBalance, j>> \in DOMAIN bi /\ <<vs[j].effectiveBalance, j>> # oldEntry
        BY <1>1, <3>2 DEF oldEntry
      <4> QED BY <1>4, <1>5, <3>2, <4>1
    <3> QED BY <3>1, <3>2
  <2> QED BY <2>1, <2>2
<1>9. AlignedColls(ix, vs1, bs, pi1, ai1, bi1)
  <2>1. \A j \in 0 .. n - 1 :
             /\ vs1[j].pubkey \in DOMAIN pi1 /\ pi1[vs1[j].pubkey] = j
             /\ AddressHash(vs1[j].pubkey) \in DOMAIN ai1 /\ ai1[AddressHash(vs1[j].pubkey)] = j
    <3> SUFFICES ASSUME NEW j \in 0 .. n - 1
                 PROVE  /\ vs1[j].pubkey \in DOMAIN pi1 /\ pi1[vs1[j].pubkey] = j
                        /\ AddressHash(vs1[j].pubkey) \in DOMAIN ai1
                        /\ ai1[AddressHash(vs1[j].pubkey)] = j
      OBVIOUS
    <3> DEFINE k == vs[j].pubkey
               a == AddressHash(k)
    <3>1. vs1[j].pubkey = k /\ AddressHash(vs1[j].pubkey) = a
      BY <1>6
    <3>2. k \in DOMAIN pi /\ pi[k] = j /\ a \in DOMAIN ai /\ ai[a] = j
      BY <1>1
    <3> HIDE DEF k, a
    <3> QED BY <1>4, <3>1, <3>2
  <2> QED BY <1>1, <1>5, <1>7, <1>8, <2>1 DEF AlignedColls
<1> QED BY <1>9 DEF vs1, pi1, ai1, bi1

-----------------------------------------------------------------------------
(* The slashings.                                                          *)

\* SlashedUnits and the total, in terms of the collections.
Units(f) == UNION {{i} \X (1 .. f[i]) : i \in DOMAIN f}
AddedColls(f, t) ==
    /\ \A i \in DOMAIN f : f[i] \in Nat
    /\ IsFiniteSet(Units(f))
    /\ (IF Item \in DOMAIN t THEN t[Item] ELSE 0) = Cardinality(Units(f))
AddedStore(kv) == AddedColls(Coll(kv, "slashings"), Coll(kv, "totalSlashing"))

LEMMA AddedIs == ASSUME NEW kv, IsStore(kv) PROVE SlashingsAdded(kv) <=> AddedStore(kv)
<1> DEFINE f == Coll(kv, "slashings")
           t == Coll(kv, "totalSlashing")
<1>0. "slashings" \in Collections /\ "totalSlashing" \in Collections
  BY DEF Collections
<1>1. KeysOf(kv, "slashings") = DOMAIN f
  BY <1>0, Reads
<1>2. \A i \in DOMAIN f : GetValue(kv, "slashings", i) = f[i] /\ GetSlashingAtIndex(kv, i) = f[i]
  BY <1>0, Reads DEF GetSlashingAtIndex
<1>3. GetTotalSlashing(kv) = IF Item \in DOMAIN t THEN t[Item] ELSE 0
  BY <1>0, Reads DEF GetTotalSlashing
<1> HIDE DEF f, t
<1>4. SlashedUnits(kv) = Units(f)
  <2>1. {{i} \X (1 .. GetSlashingAtIndex(kv, i)) : i \in DOMAIN f}
          = {{i} \X (1 .. f[i]) : i \in DOMAIN f}
    BY <1>2
  <2> QED BY <1>1, <2>1 DEF SlashedUnits, Units
<1> QED BY <1>1, <1>2, <1>3, <1>4 DEF SlashingsAdded, AddedStore, AddedColls, f, t

LEMMA UnitsIn == ASSUME NEW f, NEW x
                 PROVE  x \in Units(f) <=> \E i \in DOMAIN f : x \in {i} \X (1 .. f[i])
BY DEF Units

\* Setting one slashing changes the sum by the difference, and the sum is at least
\* the old value, so that the subtraction does not go below zero.
LEMMA AddedUpdate ==
    ASSUME NEW f, NEW t, AddedColls(f, t), NEW i, NEW amount \in Nat,
           NEW old, old = (IF i \in DOMAIN f THEN f[i] ELSE 0),
           NEW total, total = (IF Item \in DOMAIN t THEN t[Item] ELSE 0)
    PROVE  AddedColls([l \in DOMAIN f \cup {i} |-> IF l = i THEN amount ELSE f[l]],
                      [l \in DOMAIN t \cup {Item} |-> IF l = Item THEN total - old + amount ELSE t[l]])
<1> DEFINE f1 == [l \in DOMAIN f \cup {i} |-> IF l = i THEN amount ELSE f[l]]
           t1 == [l \in DOMAIN t \cup {Item} |-> IF l = Item THEN total - old + amount ELSE t[l]]
           A == {i} \X (1 .. old)
           B == {i} \X (1 .. amount)
           rest == Units(f) \ A
<1>1. (\A j \in DOMAIN f : f[j] \in Nat) /\ IsFiniteSet(Units(f)) /\ total = Cardinality(Units(f))
  BY DEF AddedColls
<1>2. old \in Nat
  BY <1>1
<1>3. IsFiniteSet(A) /\ Cardinality(A) = old /\ IsFiniteSet(B) /\ Cardinality(B) = amount
  BY <1>2, Column
<1>4. A \subseteq Units(f)
  <2>1. CASE i \in DOMAIN f
    BY <2>1, UnitsIn
  <2>2. CASE i \notin DOMAIN f
    BY <2>2
  <2> QED BY <2>1, <2>2
<1>5. /\ DOMAIN f1 = DOMAIN f \cup {i} /\ f1[i] = amount
      /\ \A j \in DOMAIN f \ {i} : f1[j] = f[j]
  OBVIOUS
<1> HIDE DEF f1
<1>6. Units(f1) = rest \cup B
  <2>1. ASSUME NEW x \in Units(f1) PROVE x \in rest \cup B
    <3>1. PICK j \in DOMAIN f1 : x \in {j} \X (1 .. f1[j])
      BY UnitsIn
    <3>2. CASE j = i
      BY <1>5, <3>1, <3>2
    <3>3. CASE j # i
      <4>1. j \in DOMAIN f /\ x \in {j} \X (1 .. f[j])
        BY <1>5, <3>1, <3>3
      <4>2. x \in Units(f)
        BY <4>1, UnitsIn
      <4>3. x \notin A
        BY <3>3, <4>1
      <4> QED BY <4>2, <4>3
    <3> QED BY <3>2, <3>3
  <2>2. ASSUME NEW x \in rest PROVE x \in Units(f1)
    <3>1. PICK j \in DOMAIN f : x \in {j} \X (1 .. f[j])
      BY UnitsIn
    <3>2. j # i
      BY <3>1
    <3>3. j \in DOMAIN f1 /\ x \in {j} \X (1 .. f1[j])
      BY <1>5, <3>1, <3>2
    <3> QED BY <3>3, UnitsIn
  <2>3. ASSUME NEW x \in B PROVE x \in Units(f1)
    <3>1. i \in DOMAIN f1 /\ x \in {i} \X (1 .. f1[i])
      BY <1>5
    <3> QED BY <3>1, UnitsIn
  <2> QED BY <2>1, <2>2, <2>3
<1>7. rest \cup A = Units(f) /\ rest \cap A = {} /\ rest \cap B = {}
  <2>1. rest \cup A = Units(f) /\ rest \cap A = {}
    BY <1>4
  <2>2. ASSUME NEW x \in rest, x \in B PROVE FALSE
    <3>1. PICK j \in DOMAIN f : x \in {j} \X (1 .. f[j])
      BY UnitsIn
    <3>2. j = i
      BY <2>2, <3>1
    <3> QED BY <3>1, <3>2
  <2> QED BY <2>1, <2>2
<1> HIDE DEF rest, A, B
<1>8. IsFiniteSet(rest)
  <2>1. rest \in SUBSET Units(f)
    BY <1>7
  <2> QED BY <1>1, <2>1, FS_Subset
<1>9. Cardinality({}) = 0
  BY FS_EmptySet
<1>10. Cardinality(Units(f)) = Cardinality(rest) + old
  <2>1. Cardinality(rest \cup A) = Cardinality(rest) + Cardinality(A) - Cardinality(rest \cap A)
    BY <1>3, <1>8, FS_Union
  <2>2. Cardinality(rest) \in Nat
    BY <1>8, FS_CardinalityType
  <2>3. Cardinality(rest \cup A) = Cardinality(Units(f)) /\ Cardinality(rest \cap A) = 0
    BY <1>7, <1>9, Zenon
  <2> QED BY <1>2, <1>3, <2>1, <2>2, <2>3
<1>11. IsFiniteSet(Units(f1)) /\ Cardinality(Units(f1)) = Cardinality(rest) + amount
  <2>1. /\ IsFiniteSet(rest \cup B)
        /\ Cardinality(rest \cup B) = Cardinality(rest) + Cardinality(B) - Cardinality(rest \cap B)
    BY <1>3, <1>8, FS_Union
  <2>2. Cardinality(rest) \in Nat
    BY <1>8, FS_CardinalityType
  <2>3. Cardinality(rest \cup B) = Cardinality(Units(f1)) /\ Cardinality(rest \cap B) = 0
    BY <1>6, <1>7, <1>9, Zenon
  <2> QED BY <1>3, <1>6, <2>1, <2>2, <2>3
<1>12. Item \in DOMAIN t1 /\ t1[Item] = total - old + amount
  OBVIOUS
<1>13. total - old + amount = Cardinality(Units(f1))
  <2>1. Cardinality(rest) \in Nat
    BY <1>8, FS_CardinalityType
  <2> QED BY <1>1, <1>2, <1>10, <1>11, <2>1
<1>14. \A j \in DOMAIN f1 : f1[j] \in Nat
  BY <1>1, <1>5
<1> HIDE DEF t1
<1>15. AddedColls(f1, t1)
  BY <1>11, <1>12, <1>13, <1>14 DEF AddedColls
<1> QED BY <1>15 DEF f1, t1

-----------------------------------------------------------------------------
(* What the operations make of a right store.                              *)

\* EffectiveBalancesCount, in terms of the collection.
Counts(vs) == \A i \in DOMAIN vs : vs[i].effectiveBalance \in Nat
CountsStore(kv) == Counts(Coll(kv, "validators"))

StoreRight(kv) ==
    /\ IsStore(kv) /\ AlignedStore(kv) /\ AddedStore(kv) /\ CountsStore(kv)
    /\ LET p == Coll(kv, "payloadVersion") IN Item \in DOMAIN p => p[Item] = Deneb

LEMMA RightIs ==
    ASSUME NEW kv
    PROVE  StoreRight(kv) <=> /\ IsStore(kv) /\ Aligned(kv) /\ SlashingsAdded(kv)
                              /\ EffectiveBalancesCount(kv) /\ VersionKnown(kv)
<1> SUFFICES ASSUME IsStore(kv)
             PROVE  StoreRight(kv) <=> /\ Aligned(kv) /\ SlashingsAdded(kv)
                                       /\ EffectiveBalancesCount(kv) /\ VersionKnown(kv)
  BY DEF StoreRight
<1> DEFINE p == Coll(kv, "payloadVersion")
<1>1. "payloadVersion" \in Collections
  BY DEF Collections
<1>2. Has(kv, "payloadVersion", Item) <=> Item \in DOMAIN p
  BY <1>1, Reads
<1>3. Item \in DOMAIN p => GetValue(kv, "payloadVersion", Item) = p[Item]
  BY <1>1, Reads
<1>4. VersionKnown(kv) <=> (Item \in DOMAIN p => p[Item] = Deneb)
  <2> HIDE DEF p
  <2> QED BY <1>2, <1>3 DEF VersionKnown
<1>5. EffectiveBalancesCount(kv) <=> CountsStore(kv)
  <2> DEFINE vs == Coll(kv, "validators")
  <2>1. "validators" \in Collections
    BY DEF Collections
  <2>2. KeysOf(kv, "validators") = DOMAIN vs /\ \A i \in DOMAIN vs : ValidatorByIndex(kv, i) = vs[i]
    BY <2>1, Reads DEF ValidatorByIndex
  <2> HIDE DEF vs
  <2>3. EffectiveBalancesCount(kv) <=> Counts(vs)
    BY <2>2 DEF EffectiveBalancesCount, Counts
  <2> QED BY <2>3 DEF CountsStore, vs
<1> QED BY <1>4, <1>5, AlignedIs, AddedIs DEF StoreRight

LEMMA AddRight ==
    ASSUME NEW kv, StoreRight(kv), NEW val, val.effectiveBalance \in Nat, AddValidator(kv, val).ok
    PROVE  StoreRight(AddValidator(kv, val).kv)
<1> DEFINE ix == Coll(kv, "validatorIndex")
           vs == Coll(kv, "validators")
           bs == Coll(kv, "balances")
           pi == Coll(kv, "pubkeyIndex")
           ai == Coll(kv, "addressIndex")
           bi == Coll(kv, "balanceIndex")
           idx == GetOr(kv, "validatorIndex", Item, 0)
           k1 == Set(kv, "validatorIndex", Item, idx + 1)
           r == SetValidator(k1, idx, val)
           k2 == r.kv
           k3 == Set(k2, "balances", idx, val.effectiveBalance)
<1>0. /\ Collections = {"validatorIndex", "validators", "balances", "slashings", "totalSlashing",
                "payloadHeader", "payloadVersion", "pubkeyIndex", "addressIndex", "balanceIndex"}
      /\ IsStore(kv)
  BY DEF Collections, StoreRight
<1>1. idx = IF Item \in DOMAIN ix THEN ix[Item] ELSE 0
  BY <1>0, Reads
<1>2. AddValidator(kv, val) = IF r.ok THEN [ok |-> TRUE, kv |-> k3] ELSE r
  BY DEF AddValidator
<1>3. r.ok /\ AddValidator(kv, val).kv = k3
  <2> HIDE DEF r, k3
  <2> QED BY <1>2
<1>4. HasSet(k1, kv, "validatorIndex", Item, idx + 1)
  BY <1>0, SetGives
<1> HIDE DEF k1, idx
<1>5. IsStore(k1) /\ Coll(k1, "validators") = vs /\ Coll(k1, "pubkeyIndex") = pi
      /\ Coll(k1, "addressIndex") = ai /\ Coll(k1, "balanceIndex") = bi
      /\ Coll(k1, "balances") = bs
      /\ \A c \in {"slashings", "totalSlashing", "payloadVersion"} : Coll(k1, c) = Coll(kv, c)
      /\ Coll(k1, "validatorIndex") = [k \in DOMAIN ix \cup {Item} |->
                                          IF k = Item THEN idx + 1 ELSE ix[k]]
  BY <1>0, <1>4 DEF HasSet
<1>6. /\ IsStore(k2)
      /\ Coll(k2, "validators") = [j \in DOMAIN Coll(k1, "validators") \cup {idx} |->
                                      IF j = idx THEN val ELSE Coll(k1, "validators")[j]]
      /\ \A c \in {"pubkeyIndex", "addressIndex", "balanceIndex"} :
            /\ ~Conflict(Coll(k1, "validators"), Coll(k1, c), c, idx, val)
            /\ Coll(k2, c) = Reindexed(Coll(k1, "validators"), Coll(k1, c), c, idx, val)
      /\ \A c \in Collections \ {"validators", "pubkeyIndex", "addressIndex", "balanceIndex"} :
            Coll(k2, c) = Coll(k1, c)
  <2>1. HasSetValidator(k2, k1, idx, val)
    BY <1>3, <1>5, SetValidatorGives
  <2> HIDE DEF k2, r
  <2> QED BY <2>1 DEF HasSetValidator
<1> HIDE DEF r, k2
<1>7. HasSet(k3, k2, "balances", idx, val.effectiveBalance)
  BY <1>0, <1>6, SetGives
<1> HIDE DEF k3
<1>8. /\ IsStore(k3)
      /\ Coll(k3, "balances") = [j \in DOMAIN bs \cup {idx} |->
                                    IF j = idx THEN val.effectiveBalance ELSE bs[j]]
      /\ \A c \in Collections \ {"balances"} : Coll(k3, c) = Coll(k2, c)
  <2>1. Coll(k2, "balances") = bs
    BY <1>0, <1>5, <1>6
  <2> QED BY <1>7, <2>1 DEF HasSet
<1>9. AlignedStore(k3)
  <2>1. /\ AlignedColls(ix, vs, bs, pi, ai, bi)
        /\ ~Conflict(vs, pi, "pubkeyIndex", idx, val) /\ ~Conflict(vs, ai, "addressIndex", idx, val)
    <3>1. AlignedColls(ix, vs, bs, pi, ai, bi)
      BY DEF StoreRight, AlignedStore
    <3> HIDE DEF ix, vs, bs, pi, ai, bi
    <3> QED BY <1>5, <1>6, <3>1
  <2>2. /\ Coll(k3, "validatorIndex") = [k \in DOMAIN ix \cup {Item} |->
                                            IF k = Item THEN idx + 1 ELSE ix[k]]
        /\ Coll(k3, "validators") = [j \in DOMAIN vs \cup {idx} |-> IF j = idx THEN val ELSE vs[j]]
        /\ Coll(k3, "pubkeyIndex") = Reindexed(vs, pi, "pubkeyIndex", idx, val)
        /\ Coll(k3, "addressIndex") = Reindexed(vs, ai, "addressIndex", idx, val)
        /\ Coll(k3, "balanceIndex") = Reindexed(vs, bi, "balanceIndex", idx, val)
    <3> HIDE DEF ix, vs, bs, pi, ai, bi
    <3> QED BY <1>0, <1>5, <1>6, <1>8
  <2> HIDE DEF ix, vs, bs, pi, ai, bi
  <2>3. AlignedWith(ix, vs, bs, pi, ai, bi, idx, val, val.effectiveBalance)
    BY <1>1, <2>1, AlignedAdd
  <2> QED BY <1>8, <2>2, <2>3 DEF AlignedStore, AlignedWith
<1>10. \A c \in {"slashings", "totalSlashing", "payloadVersion"} : Coll(k3, c) = Coll(kv, c)
  BY <1>0, <1>5, <1>6, <1>8
<1>11. CountsStore(k3)
  <2>1. Coll(k3, "validators") = [j \in DOMAIN vs \cup {idx} |-> IF j = idx THEN val ELSE vs[j]]
    BY <1>0, <1>5, <1>6, <1>8
  <2>2. Counts(vs)
    BY DEF StoreRight, CountsStore
  <2> HIDE DEF vs
  <2> QED BY <2>1, <2>2 DEF CountsStore, Counts
<1> QED BY <1>3, <1>8, <1>9, <1>10, <1>11 DEF StoreRight, AddedStore

LEMMA FoundByPubkey ==
    ASSUME NEW kv, StoreRight(kv), NEW pk, NEW i \in ValidatorIndexByPubkey(kv, pk)
    PROVE  /\ i \in DOMAIN Coll(kv, "validators") /\ i \in DOMAIN Coll(kv, "balances")
           /\ ValidatorByIndex(kv, i) = Coll(kv, "validators")[i]
           /\ Coll(kv, "validators")[i].pubkey = pk
<1> DEFINE vs == Coll(kv, "validators")
           pi == Coll(kv, "pubkeyIndex")
<1>0. "validators" \in Collections /\ "pubkeyIndex" \in Collections /\ IsStore(kv)
  BY DEF Collections, StoreRight
<1>1. pk \in DOMAIN pi /\ i = pi[pk]
  <2>1. Has(kv, "pubkeyIndex", pk) <=> pk \in DOMAIN pi
    BY <1>0, Reads
  <2>2. pk \in DOMAIN pi => GetValue(kv, "pubkeyIndex", pk) = pi[pk]
    BY <1>0, Reads
  <2> HIDE DEF pi
  <2> QED BY <2>1, <2>2 DEF ValidatorIndexByPubkey
<1>2. PICK j \in DOMAIN vs : pk = vs[j].pubkey /\ pi[vs[j].pubkey] = j /\ DOMAIN Coll(kv, "balances") = DOMAIN vs
  <2> DEFINE ix == Coll(kv, "validatorIndex")
             bs == Coll(kv, "balances")
             ai == Coll(kv, "addressIndex")
             bi == Coll(kv, "balanceIndex")
  <2>1. AlignedColls(ix, vs, bs, pi, ai, bi)
    BY DEF StoreRight, AlignedStore
  <2> HIDE DEF ix, vs, bs, pi, ai, bi
  <2>2. DOMAIN bs = DOMAIN vs /\ DOMAIN pi = {vs[j].pubkey : j \in DOMAIN vs}
        /\ \A j \in DOMAIN vs : pi[vs[j].pubkey] = j
    BY <2>1 DEF AlignedColls
  <2> QED BY <1>1, <2>2 DEF bs
<1>3. ValidatorByIndex(kv, i) = vs[i]
  BY <1>0, <1>1, <1>2, Reads DEF ValidatorByIndex
<1> QED BY <1>1, <1>2, <1>3

LEMMA UpdateRight ==
    ASSUME NEW kv, StoreRight(kv), NEW i \in DOMAIN Coll(kv, "validators"), NEW val,
           val.pubkey = Coll(kv, "validators")[i].pubkey, val.effectiveBalance \in Nat,
           UpdateValidatorAtIndex(kv, i, val).ok
    PROVE  StoreRight(UpdateValidatorAtIndex(kv, i, val).kv)
<1> DEFINE ix == Coll(kv, "validatorIndex")
           vs == Coll(kv, "validators")
           bs == Coll(kv, "balances")
           pi == Coll(kv, "pubkeyIndex")
           ai == Coll(kv, "addressIndex")
           bi == Coll(kv, "balanceIndex")
           s == SetValidator(kv, i, val).kv
<1>0. /\ Collections = {"validatorIndex", "validators", "balances", "slashings", "totalSlashing",
                "payloadHeader", "payloadVersion", "pubkeyIndex", "addressIndex", "balanceIndex"}
      /\ IsStore(kv)
  BY DEF Collections, StoreRight
<1>1. UpdateValidatorAtIndex(kv, i, val) = SetValidator(kv, i, val)
  BY DEF UpdateValidatorAtIndex
<1>2. /\ IsStore(s)
      /\ Coll(s, "validators") = [j \in DOMAIN vs \cup {i} |-> IF j = i THEN val ELSE vs[j]]
      /\ \A c \in {"pubkeyIndex", "addressIndex", "balanceIndex"} :
            Coll(s, c) = Reindexed(vs, Coll(kv, c), c, i, val)
      /\ \A c \in Collections \ {"validators", "pubkeyIndex", "addressIndex", "balanceIndex"} :
            Coll(s, c) = Coll(kv, c)
  <2>1. HasSetValidator(s, kv, i, val)
    BY <1>0, <1>1, SetValidatorGives
  <2> HIDE DEF s
  <2> QED BY <2>1 DEF HasSetValidator
<1> HIDE DEF s
<1>3. AlignedStore(s)
  <2>1. AlignedColls(ix, vs, bs, pi, ai, bi)
    BY DEF StoreRight, AlignedStore
  <2>2. /\ Coll(s, "validatorIndex") = ix /\ Coll(s, "balances") = bs
        /\ Coll(s, "pubkeyIndex") = Reindexed(vs, pi, "pubkeyIndex", i, val)
        /\ Coll(s, "addressIndex") = Reindexed(vs, ai, "addressIndex", i, val)
        /\ Coll(s, "balanceIndex") = Reindexed(vs, bi, "balanceIndex", i, val)
    BY <1>0, <1>2
  <2> HIDE DEF ix, vs, bs, pi, ai, bi
  <2>3. i \in DOMAIN vs /\ val.pubkey = vs[i].pubkey
    BY DEF vs
  <2> QED BY <1>2, <2>1, <2>2, <2>3, AlignedUpdate DEF AlignedStore
<1>4. \A c \in {"slashings", "totalSlashing", "payloadVersion"} : Coll(s, c) = Coll(kv, c)
  BY <1>0, <1>2
<1>5. CountsStore(s)
  <2>1. Counts(vs)
    BY DEF StoreRight, CountsStore
  <2> HIDE DEF vs
  <2> QED BY <1>2, <2>1 DEF CountsStore, Counts
<1> QED BY <1>1, <1>2, <1>3, <1>4, <1>5 DEF StoreRight, AddedStore, s

\* A balance of a validator that exists.
LEMMA BalanceRight ==
    ASSUME NEW kv, StoreRight(kv), NEW i \in DOMAIN Coll(kv, "balances"), NEW b
    PROVE  StoreRight(Set(kv, "balances", i, b))
<1> DEFINE s == Set(kv, "balances", i, b)
           bs == Coll(kv, "balances")
<1>0. /\ Collections = {"validatorIndex", "validators", "balances", "slashings", "totalSlashing",
                "payloadHeader", "payloadVersion", "pubkeyIndex", "addressIndex", "balanceIndex"}
      /\ IsStore(kv)
  BY DEF Collections, StoreRight
<1>1. HasSet(s, kv, "balances", i, b)
  BY <1>0, SetGives
<1> HIDE DEF s
<1>2. /\ IsStore(s) /\ DOMAIN Coll(s, "balances") = DOMAIN bs
      /\ \A c \in Collections \ {"balances"} : Coll(s, c) = Coll(kv, c)
  BY <1>1 DEF HasSet
<1>3. AlignedStore(s)
  <2> DEFINE ix == Coll(kv, "validatorIndex")
             vs == Coll(kv, "validators")
             pi == Coll(kv, "pubkeyIndex")
             ai == Coll(kv, "addressIndex")
             bi == Coll(kv, "balanceIndex")
             bs1 == Coll(s, "balances")
  <2>1. AlignedColls(ix, vs, bs, pi, ai, bi)
    BY DEF StoreRight, AlignedStore
  <2>2. DOMAIN bs1 = DOMAIN bs
    BY <1>2
  <2>3. AlignedStore(s) <=> AlignedColls(ix, vs, bs1, pi, ai, bi)
    BY <1>0, <1>2 DEF AlignedStore
  <2> HIDE DEF ix, vs, bs, pi, ai, bi, bs1
  <2>4. AlignedColls(ix, vs, bs1, pi, ai, bi)
    BY <2>1, <2>2 DEF AlignedColls
  <2> QED BY <2>3, <2>4
<1> QED BY <1>0, <1>2, <1>3 DEF StoreRight, AddedStore, CountsStore, s

LEMMA SlashRight ==
    ASSUME NEW kv, StoreRight(kv), NEW i, NEW amount \in Nat, UpdateSlashingAtIndex(kv, i, amount).ok
    PROVE  StoreRight(UpdateSlashingAtIndex(kv, i, amount).kv)
<1> DEFINE f == Coll(kv, "slashings")
           t == Coll(kv, "totalSlashing")
           total == GetTotalSlashing(kv)
           old == GetSlashingAtIndex(kv, i)
           k1 == Set(kv, "totalSlashing", Item, total - old + amount)
           k2 == Set(k1, "slashings", i, amount)
<1>0. /\ Collections = {"validatorIndex", "validators", "balances", "slashings", "totalSlashing",
                "payloadHeader", "payloadVersion", "pubkeyIndex", "addressIndex", "balanceIndex"}
      /\ IsStore(kv)
  BY DEF Collections, StoreRight
<1>1. UpdateSlashingAtIndex(kv, i, amount).kv = k2
  BY DEF UpdateSlashingAtIndex
<1>2. /\ total = (IF Item \in DOMAIN t THEN t[Item] ELSE 0)
      /\ old = (IF i \in DOMAIN f THEN f[i] ELSE 0)
  BY <1>0, Reads DEF GetTotalSlashing, GetSlashingAtIndex
<1> HIDE DEF total, old
<1>3. HasSet(k1, kv, "totalSlashing", Item, total - old + amount)
  BY <1>0, SetGives
<1> HIDE DEF k1
<1>4. HasSet(k2, k1, "slashings", i, amount)
  <2>1. IsStore(k1)
    BY <1>3 DEF HasSet
  <2> QED BY <1>0, <2>1, SetGives
<1> HIDE DEF k2
<1>5. /\ IsStore(k2)
      /\ Coll(k2, "totalSlashing") = [l \in DOMAIN t \cup {Item} |->
                                         IF l = Item THEN total - old + amount ELSE t[l]]
      /\ Coll(k2, "slashings") = [l \in DOMAIN f \cup {i} |-> IF l = i THEN amount ELSE f[l]]
      /\ \A c \in Collections \ {"slashings", "totalSlashing"} : Coll(k2, c) = Coll(kv, c)
  BY <1>0, <1>3, <1>4 DEF HasSet
<1>6. AddedStore(k2)
  <2>1. AddedColls(f, t)
    BY DEF StoreRight, AddedStore
  <2> HIDE DEF f, t
  <2> QED BY <1>2, <1>5, <2>1, AddedUpdate DEF AddedStore
<1>7. AlignedStore(k2)
  BY <1>0, <1>5 DEF StoreRight, AlignedStore
<1> QED BY <1>0, <1>1, <1>5, <1>6, <1>7 DEF StoreRight, CountsStore

LEMMA HeaderRight ==
    ASSUME NEW kv, StoreRight(kv)
    PROVE  StoreRight(Set(Set(kv, "payloadVersion", Item, Deneb), "payloadHeader", Item, Deneb))
<1> DEFINE k1 == Set(kv, "payloadVersion", Item, Deneb)
           k2 == Set(k1, "payloadHeader", Item, Deneb)
<1>0. /\ Collections = {"validatorIndex", "validators", "balances", "slashings", "totalSlashing",
                "payloadHeader", "payloadVersion", "pubkeyIndex", "addressIndex", "balanceIndex"}
      /\ IsStore(kv)
  BY DEF Collections, StoreRight
<1>1. HasSet(k1, kv, "payloadVersion", Item, Deneb)
  BY <1>0, SetGives
<1> HIDE DEF k1
<1>2. HasSet(k2, k1, "payloadHeader", Item, Deneb)
  <2>1. IsStore(k1)
    BY <1>1 DEF HasSet
  <2> QED BY <1>0, <2>1, SetGives
<1> HIDE DEF k2
<1>3. /\ IsStore(k2) /\ Coll(k2, "payloadVersion")[Item] = Deneb
      /\ \A c \in Collections \ {"payloadVersion", "payloadHeader"} : Coll(k2, c) = Coll(kv, c)
  BY <1>0, <1>1, <1>2 DEF HasSet
<1> QED BY <1>0, <1>3 DEF StoreRight, AlignedStore, AddedStore, CountsStore, k1, k2

-----------------------------------------------------------------------------
(* The layers.                                                             *)

\* A sequence of its own elements.
IsSequence(s) == s \in Seq({s[l] : l \in 1 .. Len(s)})

LEMMA SequenceOf ==
    ASSUME NEW V, NEW s \in Seq(V)
    PROVE  IsSequence(s)
<1>1. Len(s) \in Nat /\ s = [l \in 1 .. Len(s) |-> s[l]]
  OBVIOUS
<1> QED BY <1>1 DEF IsSequence

\* The layers of a right database, and those after one of them was replaced.
RightLayers(ls) == /\ IsSequence(ls) /\ ls # <<>>
                   /\ \A l \in 1 .. Len(ls) : LayerRight(ls[l])

LEMMA Lengths ==
    ASSUME NEW ls, RightLayers(ls)
    PROVE  /\ Len(ls) \in Nat \ {0} /\ Len(ls) \in 1 .. Len(ls) /\ 1 \in 1 .. Len(ls)
           /\ DOMAIN ls = 1 .. Len(ls)
BY DEF RightLayers, IsSequence

LEMMA ReplaceRight ==
    ASSUME NEW ls, RightLayers(ls), NEW n \in 1 .. Len(ls), NEW x, LayerRight(x)
    PROVE  RightLayers([ls EXCEPT ![n] = x])
<1> DEFINE V == {ls[l] : l \in 1 .. Len(ls)}
           W == V \cup {x}
           t == [ls EXCEPT ![n] = x]
<1>1. ls \in Seq(V) /\ ls # <<>> /\ V \subseteq W /\ x \in W
  BY DEF RightLayers, IsSequence
<1> HIDE DEF V, W
<1>2. ls \in Seq(W)
  BY <1>1
<1>3. t \in Seq(W) /\ Len(t) = Len(ls) /\ \A l \in 1 .. Len(ls) : t[l] = IF l = n THEN x ELSE ls[l]
  BY <1>1, <1>2
<1>4. Len(ls) # 0
  BY <1>1, <1>2
<1> HIDE DEF t
<1>5. IsSequence(t) /\ t # <<>>
  BY <1>3, <1>4, SequenceOf
<1>6. \A l \in 1 .. Len(t) : LayerRight(t[l])
  BY <1>3 DEF RightLayers
<1> QED BY <1>5, <1>6 DEF RightLayers, t

LEMMA AppendRight ==
    ASSUME NEW ls, RightLayers(ls), NEW x, LayerRight(x)
    PROVE  RightLayers(Append(ls, x))
<1> DEFINE V == {ls[l] : l \in 1 .. Len(ls)}
           W == V \cup {x}
           t == Append(ls, x)
<1>1. ls \in Seq(V) /\ V \subseteq W /\ x \in W
  BY DEF RightLayers, IsSequence
<1> HIDE DEF V, W
<1>2. ls \in Seq(W)
  BY <1>1
<1>3. /\ t \in Seq(W) /\ Len(ls) \in Nat /\ Len(t) = Len(ls) + 1 /\ t[Len(ls) + 1] = x
      /\ \A l \in 1 .. Len(ls) : t[l] = ls[l]
  BY <1>1, <1>2
<1> HIDE DEF t
<1>4. IsSequence(t) /\ t # <<>>
  BY <1>3, SequenceOf
<1>5. ASSUME NEW l \in 1 .. Len(t) PROVE LayerRight(t[l])
  <2>1. l \in 1 .. Len(ls) \/ l = Len(ls) + 1
    BY <1>3
  <2> QED BY <1>3, <2>1 DEF RightLayers
<1> QED BY <1>4, <1>5 DEF RightLayers, t

LEMMA FrontRight ==
    ASSUME NEW ls, RightLayers(ls), Len(ls) > 1
    PROVE  RightLayers(Front(ls))
<1> DEFINE V == {ls[l] : l \in 1 .. Len(ls)}
           t == Front(ls)
<1>1. ls \in Seq(V)
  BY DEF RightLayers, IsSequence
<1> HIDE DEF V
<1>2. /\ t \in Seq(V) /\ Len(ls) \in Nat /\ Len(t) = Len(ls) - 1
      /\ \A l \in 1 .. Len(t) : t[l] = ls[l]
  BY <1>1 DEF Front
<1> HIDE DEF t
<1>3. IsSequence(t) /\ t # <<>>
  BY <1>2, SequenceOf
<1> QED BY <1>2, <1>3 DEF RightLayers, t

LEMMA FirstRight ==
    ASSUME NEW ls, RightLayers(ls)
    PROVE  RightLayers(<<ls[1]>>)
<1> DEFINE x == ls[1]
           t == <<x>>
<1>1. LayerRight(x)
  BY Lengths DEF RightLayers
<1> HIDE DEF x
<1>2. t \in Seq({x}) /\ Len(t) = 1 /\ t[1] = x /\ t # <<>>
  OBVIOUS
<1>3. IsSequence(t)
  BY <1>2, SequenceOf
<1>4. \A l \in 1 .. Len(t) : LayerRight(t[l])
  BY <1>1, <1>2
<1>5. RightLayers(t)
  BY <1>2, <1>3, <1>4 DEF RightLayers
<1> QED BY <1>5 DEF x

\* What an operation hands to Apply: a right store, or an error.
ResultRight(r) == /\ r.ok = TRUE \/ r.ok = FALSE
                  /\ r.ok => StoreRight(r.kv)

LEMMA LayerIs ==
    ASSUME NEW kv, NEW failed, ~failed => StoreRight(kv)
    PROVE  LayerRight([kv |-> kv, failed |-> failed])
BY RightIs DEF LayerRight

LEMMA ApplyRight ==
    ASSUME RightLayers(layers), NEW r, ResultRight(r), Apply(r)
    PROVE  RightLayers(layers')
<1>1. layers' = [layers EXCEPT ![Len(layers)] = [kv |-> r.kv, failed |-> ~r.ok]]
  BY DEF Apply
<1>2. LayerRight([kv |-> r.kv, failed |-> ~r.ok])
  BY LayerIs DEF ResultRight
<1> QED BY <1>1, <1>2, Lengths, ReplaceRight

LEMMA TopRight ==
    ASSUME RightLayers(layers), Usable
    PROVE  LayerRight(Top) /\ StoreRight(Top.kv)
<1>1. LayerRight(Top)
  BY Lengths DEF RightLayers, Top
<1> QED BY <1>1, RightIs DEF Usable, LayerRight

LEMMA SetValidatorAnswers ==
    ASSUME NEW kv, IsStore(kv), NEW i, NEW val
    PROVE  SetValidator(kv, i, val).ok = TRUE \/ SetValidator(kv, i, val).ok = FALSE
<1> DEFINE r0 == [ok |-> TRUE, kv |-> kv]
           r1 == Reindex(r0, "pubkeyIndex", i, val)
           r2 == Reindex(r1, "balanceIndex", i, val)
           r3 == Reindex(r2, "addressIndex", i, val)
<1>1. SetValidator(kv, i, val) = IF r3.ok THEN [ok |-> TRUE, kv |-> Set(r3.kv, "validators", i, val)]
                                 ELSE r3
  BY DEF SetValidator, IndexesList
<1>2. ASSUME NEW r, NEW c, r.ok = TRUE \/ r.ok = FALSE
      PROVE  Reindex(r, c, i, val).ok = TRUE \/ Reindex(r, c, i, val).ok = FALSE
  BY <1>2 DEF Reindex
<1>3. r0.ok = TRUE
  OBVIOUS
<1> HIDE DEF r0
<1>4. r1.ok = TRUE \/ r1.ok = FALSE
  BY <1>2, <1>3
<1> HIDE DEF r1
<1>5. r2.ok = TRUE \/ r2.ok = FALSE
  BY <1>2, <1>4
<1> HIDE DEF r2
<1>6. r3.ok = TRUE \/ r3.ok = FALSE
  BY <1>2, <1>5
<1> HIDE DEF r3
<1> QED BY <1>1, <1>6

-----------------------------------------------------------------------------
LEMMA AddStep ==
    ASSUME RightLayers(layers), NEW p, NEW b \in Nat, Add(p, b)
    PROVE  RightLayers(layers')
<1> DEFINE val == [pubkey |-> p, effectiveBalance |-> b, active |-> b # Min(Balances)]
           r == AddValidator(Top.kv, val)
<1>1. Apply(r) /\ val.effectiveBalance \in Nat
  BY DEF Add
<1> HIDE DEF val
<1>2. StoreRight(Top.kv)
  BY <1>1, TopRight DEF Apply
<1>3. r.ok = TRUE \/ r.ok = FALSE
  <2> DEFINE idx == GetOr(Top.kv, "validatorIndex", Item, 0)
             k1 == Set(Top.kv, "validatorIndex", Item, idx + 1)
             q == SetValidator(k1, idx, val)
  <2>1. r = IF q.ok THEN [ok |-> TRUE, kv |-> Set(q.kv, "balances", idx, val.effectiveBalance)] ELSE q
    BY DEF AddValidator
  <2>2. IsStore(k1)
    <3> HIDE DEF idx
    <3>1. HasSet(k1, Top.kv, "validatorIndex", Item, idx + 1)
      BY <1>2, SetGives DEF StoreRight, Collections
    <3> QED BY <3>1 DEF HasSet
  <2> HIDE DEF k1, idx
  <2>3. q.ok = TRUE \/ q.ok = FALSE
    BY <2>2, SetValidatorAnswers
  <2> HIDE DEF r, q
  <2> QED BY <2>1, <2>3
<1>4. ResultRight(r)
  BY <1>1, <1>2, <1>3, AddRight DEF ResultRight
<1> HIDE DEF r
<1> QED BY <1>1, <1>4, ApplyRight

LEMMA UpdateStep ==
    ASSUME RightLayers(layers), NEW p, NEW b \in Nat, Update(p, b)
    PROVE  RightLayers(layers')
<1>1. PICK i \in ValidatorIndexByPubkey(Top.kv, p) :
         Apply(UpdateValidatorAtIndex(Top.kv, i, SetEffectiveBalance(ValidatorByIndex(Top.kv, i), b)))
  BY DEF Update
<1> DEFINE val == SetEffectiveBalance(ValidatorByIndex(Top.kv, i), b)
           r == UpdateValidatorAtIndex(Top.kv, i, val)
<1>2. StoreRight(Top.kv)
  BY <1>1, TopRight DEF Apply
<1>3. /\ i \in DOMAIN Coll(Top.kv, "validators") /\ val.effectiveBalance \in Nat
      /\ val.pubkey = Coll(Top.kv, "validators")[i].pubkey
  BY <1>1, <1>2, FoundByPubkey DEF SetEffectiveBalance
<1> HIDE DEF val
<1>4. r.ok = TRUE \/ r.ok = FALSE
  BY <1>2, SetValidatorAnswers DEF UpdateValidatorAtIndex, StoreRight
<1>5. ResultRight(r)
  BY <1>2, <1>3, <1>4, UpdateRight DEF ResultRight
<1>6. Apply(r)
  BY <1>1 DEF val
<1> HIDE DEF r
<1> QED BY <1>5, <1>6, ApplyRight

LEMMA RewardStep ==
    ASSUME RightLayers(layers), NEW p, NEW d, Reward(p, d)
    PROVE  RightLayers(layers')
<1>1. PICK i \in ValidatorIndexByPubkey(Top.kv, p) : Apply(IncreaseBalance(Top.kv, i, d))
  BY DEF Reward
<1>2. StoreRight(Top.kv)
  BY <1>1, TopRight DEF Apply
<1>3. i \in DOMAIN Coll(Top.kv, "balances")
  BY <1>1, <1>2, FoundByPubkey
<1>4. ResultRight(IncreaseBalance(Top.kv, i, d))
  <2> DEFINE k1 == Set(Top.kv, "balances", i, GetValue(Top.kv, "balances", i) + d)
  <2>1. StoreRight(k1)
    BY <1>2, <1>3, BalanceRight
  <2>2. IncreaseBalance(Top.kv, i, d) =
           IF Has(Top.kv, "balances", i) THEN [ok |-> TRUE, kv |-> k1] ELSE [ok |-> FALSE, kv |-> Top.kv]
    BY DEF IncreaseBalance
  <2> HIDE DEF k1
  <2> QED BY <2>1, <2>2 DEF ResultRight
<1> QED BY <1>1, <1>4, ApplyRight

LEMMA PenalizeStep ==
    ASSUME RightLayers(layers), NEW p, NEW d, Penalize(p, d)
    PROVE  RightLayers(layers')
<1>1. PICK i \in ValidatorIndexByPubkey(Top.kv, p) : Apply(DecreaseBalance(Top.kv, i, d))
  BY DEF Penalize
<1>2. StoreRight(Top.kv)
  BY <1>1, TopRight DEF Apply
<1>3. i \in DOMAIN Coll(Top.kv, "balances")
  BY <1>1, <1>2, FoundByPubkey
<1>4. ResultRight(DecreaseBalance(Top.kv, i, d))
  <2> DEFINE balance == GetValue(Top.kv, "balances", i)
             k1 == Set(Top.kv, "balances", i, balance - (IF d < balance THEN d ELSE balance))
  <2>1. StoreRight(k1)
    BY <1>2, <1>3, BalanceRight
  <2>2. DecreaseBalance(Top.kv, i, d) =
           IF Has(Top.kv, "balances", i) THEN [ok |-> TRUE, kv |-> k1] ELSE [ok |-> FALSE, kv |-> Top.kv]
    BY DEF DecreaseBalance
  <2> HIDE DEF k1
  <2> QED BY <2>1, <2>2 DEF ResultRight
<1> QED BY <1>1, <1>4, ApplyRight

LEMMA SlashStep ==
    ASSUME RightLayers(layers), NEW i, NEW a \in Nat, Slash(i, a)
    PROVE  RightLayers(layers')
<1> DEFINE r == UpdateSlashingAtIndex(Top.kv, i, a)
<1>1. Apply(r)
  BY DEF Slash
<1>2. StoreRight(Top.kv)
  BY <1>1, TopRight DEF Apply
<1>3. r.ok = TRUE \/ r.ok = FALSE
  BY DEF UpdateSlashingAtIndex
<1>4. ResultRight(r)
  BY <1>2, <1>3, SlashRight DEF ResultRight
<1> HIDE DEF r
<1> QED BY <1>1, <1>4, ApplyRight

LEMMA SetHeaderStep ==
    ASSUME RightLayers(layers), SetLatestExecutionPayloadHeader
    PROVE  RightLayers(layers')
<1> DEFINE n == Len(layers)
           x == [Top EXCEPT !.kv = Set(Set(@, "payloadVersion", Item, Deneb), "payloadHeader", Item, Deneb)]
           k2 == Set(Set(Top.kv, "payloadVersion", Item, Deneb), "payloadHeader", Item, Deneb)
<1>1. layers' = [layers EXCEPT ![n] = x]
  BY DEF SetLatestExecutionPayloadHeader, Top
<1>2. LayerRight(Top) /\ StoreRight(Top.kv)
  BY TopRight DEF SetLatestExecutionPayloadHeader
<1>3. StoreRight(k2)
  BY <1>2, HeaderRight
<1>4. x = [kv |-> k2, failed |-> Top.failed]
  <2>1. Top = [kv |-> Top.kv, failed |-> Top.failed]
    BY <1>2 DEF LayerRight
  <2> QED BY <2>1
<1>5. LayerRight([kv |-> k2, failed |-> Top.failed])
  BY <1>3, LayerIs
<1> HIDE DEF x
<1> QED BY <1>1, <1>4, <1>5, Lengths, ReplaceRight

\* The invariant of the database, in terms of the layers.
LEMMA InvIs == DbInv <=> RightLayers(layers) /\ HeaderReadable
BY DEF DbInv, RightLayers, IsSequence

LEMMA EmptyRight == StoreRight(<<>>)
<1> DEFINE kv == <<>>
<1>1. DOMAIN kv = {}
  OBVIOUS
<1> HIDE DEF kv
<1>2. IsStore(kv)
  BY <1>1 DEF IsStore
<1>3. \A c : DOMAIN Coll(kv, c) = {}
  BY <1>1 DEF Coll, KeysOf
<1>4. AlignedStore(kv)
  <2> DEFINE ix == Coll(kv, "validatorIndex")
             vs == Coll(kv, "validators")
             bs == Coll(kv, "balances")
             pi == Coll(kv, "pubkeyIndex")
             ai == Coll(kv, "addressIndex")
             bi == Coll(kv, "balanceIndex")
  <2>1. /\ DOMAIN ix = {} /\ DOMAIN vs = {} /\ DOMAIN bs = {} /\ DOMAIN pi = {}
        /\ DOMAIN ai = {} /\ DOMAIN bi = {}
    BY <1>3
  <2> HIDE DEF ix, vs, bs, pi, ai, bi
  <2>2. AlignedColls(ix, vs, bs, pi, ai, bi)
    BY <2>1 DEF AlignedColls
  <2> QED BY <2>2 DEF AlignedStore, ix, vs, bs, pi, ai, bi
<1>5. AddedStore(kv)
  <2> DEFINE f == Coll(kv, "slashings")
             t == Coll(kv, "totalSlashing")
  <2>1. DOMAIN f = {} /\ DOMAIN t = {}
    BY <1>3
  <2> HIDE DEF f, t
  <2>2. Units(f) = {}
    BY <2>1 DEF Units
  <2>3. AddedColls(f, t)
    BY <2>1, <2>2, FS_EmptySet DEF AddedColls
  <2> QED BY <2>3 DEF AddedStore, f, t
<1>6. StoreRight(kv)
  BY <1>2, <1>3, <1>4, <1>5 DEF StoreRight, CountsStore, Counts
<1> QED BY <1>6 DEF kv

LEMMA DbInvInit == DbInit => DbInv
<1> SUFFICES ASSUME DbInit PROVE RightLayers(layers) /\ HeaderReadable
  BY InvIs
<1> DEFINE x == [kv |-> <<>>, failed |-> FALSE]
<1>1. layers = <<x>> /\ HeaderReadable
  BY DEF DbInit, HeaderReadable
<1>2. LayerRight(x)
  BY EmptyRight, LayerIs
<1> HIDE DEF x
<1>3. layers \in Seq({x}) /\ Len(layers) = 1 /\ layers[1] = x /\ layers # <<>>
  BY <1>1
<1>4. IsSequence(layers)
  BY <1>3, SequenceOf
<1>5. \A l \in 1 .. Len(layers) : LayerRight(layers[l])
  BY <1>2, <1>3
<1> QED BY <1>1, <1>3, <1>4, <1>5 DEF RightLayers

LEMMA DbInvStep == ASSUME DbInv, [DbNext]_dbVars PROVE DbInv'
<1> USE InvIs
<1>0. RightLayers(layers) /\ HeaderReadable
  OBVIOUS
<1> SUFFICES RightLayers(layers') /\ HeaderReadable'
  BY DEF DbInv, RightLayers, IsSequence
<1>1. CASE UNCHANGED dbVars
  BY <1>0, <1>1 DEF dbVars, HeaderReadable
<1>2. ASSUME NEW p \in Pubkeys, NEW b \in Balances, Add(p, b) \/ Update(p, b)
      PROVE  RightLayers(layers') /\ HeaderReadable'
  <2>1. RightLayers(layers')
    BY <1>0, <1>2, AddStep, UpdateStep, AmountsAssumption
  <2>2. read' = read
    BY <1>2 DEF Add, Update, Apply
  <2> QED BY <1>0, <2>1, <2>2 DEF HeaderReadable
<1>3. ASSUME NEW p \in Pubkeys, Reward(p, 1) \/ Penalize(p, 2)
      PROVE  RightLayers(layers') /\ HeaderReadable'
  <2>1. RightLayers(layers')
    BY <1>0, <1>3, RewardStep, PenalizeStep
  <2>2. read' = read
    BY <1>3 DEF Reward, Penalize, Apply
  <2> QED BY <1>0, <2>1, <2>2 DEF HeaderReadable
<1>4. ASSUME NEW i \in Slots, NEW a \in Amounts, Slash(i, a)
      PROVE  RightLayers(layers') /\ HeaderReadable'
  <2>1. RightLayers(layers')
    BY <1>0, <1>4, SlashStep, AmountsAssumption
  <2>2. read' = read
    BY <1>4 DEF Slash, Apply
  <2> QED BY <1>0, <2>1, <2>2 DEF HeaderReadable
<1>5. CASE SetLatestExecutionPayloadHeader
  <2>1. RightLayers(layers')
    BY <1>0, <1>5, SetHeaderStep
  <2>2. read' = read
    BY <1>5 DEF SetLatestExecutionPayloadHeader
  <2> QED BY <1>0, <2>1, <2>2 DEF HeaderReadable
<1>6. CASE GetLatestExecutionPayloadHeader
  <2>1. RightLayers(layers')
    BY <1>0, <1>6 DEF GetLatestExecutionPayloadHeader
  <2>2. VersionKnown(Top.kv)
    BY <1>0, <1>6, TopRight, RightIs DEF GetLatestExecutionPayloadHeader
  <2>3. read' # "panic"
    <3>1. CASE Has(Top.kv, "payloadVersion", Item)
      BY <1>6, <2>2, <3>1 DEF GetLatestExecutionPayloadHeader, VersionKnown, GetOr, DecodeHeader
    <3>2. CASE ~Has(Top.kv, "payloadVersion", Item)
      BY <1>6, <3>2 DEF GetLatestExecutionPayloadHeader
    <3> QED BY <3>1, <3>2
  <2> QED BY <2>1, <2>3 DEF HeaderReadable
<1>7. CASE Copy
  <2>1. layers' = Append(layers, Top) /\ read' = read
    BY <1>7 DEF Copy
  <2>2. LayerRight(Top)
    BY <1>0, <1>7, TopRight DEF Copy
  <2> QED BY <1>0, <2>1, <2>2, AppendRight DEF HeaderReadable
<1>8. CASE Save
  <2>1. layers' = [layers EXCEPT ![Len(layers) - 1] = Top] /\ read' = read /\ Len(layers) > 1
    BY <1>8 DEF Save
  <2>2. LayerRight(Top)
    BY <1>0, <1>8, TopRight DEF Save
  <2>3. Len(layers) - 1 \in 1 .. Len(layers)
    BY <1>0, <2>1, Lengths
  <2> QED BY <1>0, <2>1, <2>2, <2>3, ReplaceRight DEF HeaderReadable
<1>9. CASE Discard
  <2>1. layers' = Front(layers) /\ read' = read /\ Len(layers) > 1
    BY <1>9 DEF Discard
  <2> QED BY <1>0, <2>1, FrontRight DEF HeaderReadable
<1>10. CASE Restart
  <2>1. layers' = <<layers[1]>> /\ read' = read
    BY <1>10 DEF Restart
  <2> QED BY <1>0, <2>1, FirstRight DEF HeaderReadable
<1> QED BY <1>1, <1>2, <1>3, <1>4, <1>5, <1>6, <1>7, <1>8, <1>9, <1>10 DEF DbNext

\* The invariant of the state database: whatever operations, copies, saves and
\* restarts there were, every layer that no error has spoiled is an aligned store
\* with the sum of its slashings and a known version (kvstore.go, registry.go and
\* eth1.go of storage/pkg/beacondb, core/state/statedb.go).
THEOREM DatabaseSafe == DbSpec => []DbInv
<1>1. DbInv /\ [DbNext]_dbVars => DbInv'
  BY DbInvStep
<1> QED BY <1>1, DbInvInit, PTL DEF DbSpec

LEMMA SoundRight ==
    ASSUME DbInv, NEW kv \in Sound
    PROVE  Aligned(kv) /\ SlashingsAdded(kv) /\ EffectiveBalancesCount(kv)
<1>1. RightLayers(layers)
  BY InvIs
<1>2. PICK l \in DOMAIN layers : ~layers[l].failed /\ kv = layers[l].kv
  BY DEF Sound
<1>3. LayerRight(layers[l])
  BY <1>1, <1>2, Lengths DEF RightLayers
<1> QED BY <1>2, <1>3 DEF LayerRight

-----------------------------------------------------------------------------
(* The committee.                                                          *)

\* What CommitteeDrawn says of one store.
Drawn(kv) ==
    LET vals == GetValidatorsByEffectiveBalance(kv)
        all == GetValidators(kv)
    IN /\ Len(vals) = Len(all) /\ ToSet(vals) = ToSet(all)
       /\ GetTotalValidators(kv) = GetOr(kv, "validatorIndex", Item, 0)
       /\ \A i \in 2 .. Len(vals) : vals[i - 1].effectiveBalance <= vals[i].effectiveBalance
       /\ GetTotalActiveBalances(kv) = Cardinality(ActiveUnits(kv))

\* The numbers below n.
LEMMA NumbersBelow ==
    ASSUME NEW n \in Nat
    PROVE  IsFiniteSet(0 .. n - 1) /\ Cardinality(0 .. n - 1) = n /\ 0 .. n - 1 \subseteq Nat
<1>1. 0 \in Int /\ n - 1 \in Int
  OBVIOUS
<1>2. IsFiniteSet(0 .. n - 1) /\ Cardinality(0 .. n - 1) = IF 0 > n - 1 THEN 0 ELSE (n - 1) - 0 + 1
  BY <1>1, FS_Interval
<1>3. (IF 0 > n - 1 THEN 0 ELSE (n - 1) - 0 + 1) = n
  OBVIOUS
<1>4. 0 .. n - 1 \subseteq Nat
  OBVIOUS
<1> QED BY <1>2, <1>3, <1>4

LEMMA CommitteeOfAligned ==
    ASSUME NEW kv, Aligned(kv), EffectiveBalancesCount(kv)
    PROVE  Drawn(kv)
<1> DEFINE n == GetOr(kv, "validatorIndex", Item, 0)
           v(i) == ValidatorByIndex(kv, i)
           K == KeysOf(kv, "balanceIndex")
           s == PairOrder(K)
           vals == GetValidatorsByEffectiveBalance(kv)
           all == GetValidators(kv)
<1>1. /\ n \in Nat /\ KeysOf(kv, "validators") = 0 .. n - 1
      /\ K = {<<v(i).effectiveBalance, i>> : i \in 0 .. n - 1}
      /\ \A i \in 0 .. n - 1 : v(i).effectiveBalance \in Nat
  BY DEF Aligned, EffectiveBalancesCount
<1> HIDE DEF n, K, v
<1>2. K \subseteq Nat \X Nat /\ IsFiniteSet(K) /\ Cardinality(K) = n
  <2> DEFINE t == [i \in 0 .. n - 1 |-> <<v(i).effectiveBalance, i>>]
  <2>1. t \in [0 .. n - 1 -> K]
    BY <1>1
  <2>2. \A i, j \in 0 .. n - 1 : t[i] = t[j] => i = j
    OBVIOUS
  <2>3. \A k \in K : \E i \in 0 .. n - 1 : t[i] = k
    BY <1>1
  <2>4. t \in Bijection(0 .. n - 1, K)
    <3> HIDE DEF t
    <3> QED BY <2>1, <2>2, <2>3 DEF Bijection, Injection, Surjection, IsInjective
  <2>5. ExistsBijection(0 .. n - 1, K)
    BY <2>4 DEF ExistsBijection
  <2>6. IsFiniteSet(0 .. n - 1) /\ Cardinality(0 .. n - 1) = n
    BY <1>1, NumbersBelow
  <2>7. IsFiniteSet(K) /\ Cardinality(K) = n
    BY <2>5, <2>6, FS_Bijection
  <2>8. K \subseteq Nat \X Nat
    BY <1>1
  <2> QED BY <2>7, <2>8
<1>3. Sorted(s, n, K)
  BY <1>1, <1>2, PairOrderSorts
<1>4. vals = [i \in 1 .. n |-> v(s[i][2])]
  BY <1>2 DEF GetValidatorsByEffectiveBalance, K, v
<1> HIDE DEF s
<1>5. ASSUME NEW i \in 1 .. n
      PROVE  /\ s[i] = <<v(s[i][2]).effectiveBalance, s[i][2]>> /\ s[i][2] \in 0 .. n - 1
             /\ vals[i] = v(s[i][2])
  <2>1. s[i] \in K
    BY <1>3 DEF Sorted
  <2>2. PICK j \in 0 .. n - 1 : s[i] = <<v(j).effectiveBalance, j>>
    BY <1>1, <2>1
  <2> QED BY <1>4, <2>2
<1>6. Distinct(s, n)
  <2> SUFFICES ASSUME NEW i \in 1 .. n, NEW j \in 1 .. n, i < j, s[i] = s[j] PROVE FALSE
    BY <1>1 DEF Distinct
  <2>1. Before(s[i], s[j])
    BY <1>3 DEF Sorted
  <2>2. s[i][1] \in Nat /\ s[i][2] \in Nat
    <3>1. s[i] \in Nat \X Nat
      BY <1>2, <1>3 DEF Sorted
    <3> QED BY <3>1
  <2> QED BY <2>1, <2>2 DEF Before
<1>7. Hits(s, n, K)
  BY <1>1, <1>2, <1>3, <1>6, EachOnce DEF Sorted
<1>8. \A j \in 0 .. n - 1 : \E i \in 1 .. n : s[i][2] = j
  <2> SUFFICES ASSUME NEW j \in 0 .. n - 1 PROVE \E i \in 1 .. n : s[i][2] = j
    OBVIOUS
  <2>1. <<v(j).effectiveBalance, j>> \in K
    BY <1>1
  <2>2. PICK i \in 1 .. n : s[i] = <<v(j).effectiveBalance, j>>
    BY <1>7, <2>1 DEF Hits
  <2> QED BY <2>2
<1>9. \A i, j \in 1 .. n : i # j => s[i][2] # s[j][2]
  <2> SUFFICES ASSUME NEW i \in 1 .. n, NEW j \in 1 .. n, i # j, s[i][2] = s[j][2] PROVE FALSE
    OBVIOUS
  <2>1. s[i] = s[j]
    BY <1>5
  <2> QED BY <1>6, <2>1 DEF Distinct
\* The validators in the order of their numbers.
<1> DEFINE o == NumberOrder(0 .. n - 1)
<1>10. /\ o \in [1 .. n -> 0 .. n - 1] /\ \A i, j \in 1 .. n : i < j => o[i] < o[j]
       /\ Cardinality(0 .. n - 1) = n
  <2>1. IsFiniteSet(0 .. n - 1) /\ Cardinality(0 .. n - 1) = n /\ 0 .. n - 1 \subseteq Nat
    BY <1>1, NumbersBelow
  <2>2. SortedNumbers(o, n, 0 .. n - 1)
    BY <1>1, <2>1, NumberOrderSorts
  <2> QED BY <2>1, <2>2 DEF SortedNumbers
<1>11. all = [i \in 1 .. n |-> v(o[i])]
  BY <1>1, <1>10 DEF GetValidators, Iterate, ValidatorByIndex, v
<1> HIDE DEF o
<1>12. Hits(o, n, 0 .. n - 1)
  <2>1. IsFiniteSet(0 .. n - 1) /\ Cardinality(0 .. n - 1) = n
    BY <1>1, NumbersBelow
  <2>2. Distinct(o, n)
    <3> SUFFICES ASSUME NEW i \in 1 .. n, NEW j \in 1 .. n, i < j PROVE o[i] # o[j]
      BY <1>1 DEF Distinct
    <3> QED BY <1>1, <1>10
  <2> QED BY <1>1, <1>10, <2>1, <2>2, EachOnce
<1>13. Len(vals) = n /\ Len(all) = n /\ DOMAIN vals = 1 .. n /\ DOMAIN all = 1 .. n
  <2> HIDE DEF vals, all
  <2> QED BY <1>1, <1>4, <1>11
<1> HIDE DEF vals, all
<1>14. ToSet(vals) = ToSet(all)
  <2>1. ASSUME NEW x \in ToSet(vals) PROVE x \in ToSet(all)
    <3>1. PICK i \in 1 .. n : x = v(s[i][2])
      BY <1>5, <1>13 DEF ToSet
    <3>2. PICK j \in 1 .. n : o[j] = s[i][2]
      BY <1>5, <1>12 DEF Hits
    <3> QED BY <1>11, <1>13, <3>1, <3>2 DEF ToSet
  <2>2. ASSUME NEW x \in ToSet(all) PROVE x \in ToSet(vals)
    <3>1. PICK i \in 1 .. n : x = v(o[i])
      BY <1>11, <1>13 DEF ToSet
    <3>2. PICK j \in 1 .. n : s[j][2] = o[i]
      BY <1>8, <1>10
    <3> QED BY <1>5, <1>13, <3>1, <3>2 DEF ToSet
  <2> QED BY <2>1, <2>2
<1>15. GetTotalValidators(kv) = n
  BY <1>13 DEF GetTotalValidators, all
<1>16. ASSUME NEW i \in 2 .. n
       PROVE  vals[i - 1].effectiveBalance <= vals[i].effectiveBalance
  <2> DEFINE a == s[i - 1]
             b == s[i]
  <2>1. i - 1 \in 1 .. n /\ i \in 1 .. n /\ i - 1 < i
    BY <1>1
  <2>2. Before(a, b)
    BY <1>3, <2>1 DEF Sorted
  <2>3. /\ a = <<vals[i - 1].effectiveBalance, a[2]>> /\ a[2] \in 0 .. n - 1
        /\ b = <<vals[i].effectiveBalance, b[2]>> /\ b[2] \in 0 .. n - 1
        /\ vals[i - 1].effectiveBalance \in Nat /\ vals[i].effectiveBalance \in Nat
    BY <1>1, <1>5, <2>1
  <2> HIDE DEF a, b
  <2>4. a[1] = vals[i - 1].effectiveBalance /\ b[1] = vals[i].effectiveBalance
    BY <2>3
  <2> QED BY <2>2, <2>3, <2>4 DEF Before
<1>17. GetTotalActiveBalances(kv) = Cardinality(ActiveUnits(kv))
  <2> DEFINE w == [i \in 1 .. n |-> IF vals[i].active THEN vals[i].effectiveBalance ELSE 0]
             of == [i \in 1 .. n |-> s[i][2]]
             f == CHOOSE g : g = [i \in 0 .. n |-> IF i = 0 THEN 0
                                    ELSE g[i - 1] + IF vals[i].active THEN vals[i].effectiveBalance ELSE 0]
  <2>1. GetTotalActiveBalances(kv) = f[n]
    BY <1>13 DEF GetTotalActiveBalances, vals
  <2>2. \A i \in 1 .. n : w[i] \in Nat
    <3>1. \A i \in 1 .. n : vals[i].effectiveBalance \in Nat
      BY <1>1, <1>5
    <3> QED BY <3>1
  <2>3. Distinct(of, n)
    BY <1>9 DEF Distinct
  <2>4. IsSums(f, n, w)
    <3>1. ASSUME NEW g
          PROVE  IsSums(g, n, w) <=>
                   g = [i \in 0 .. n |-> IF i = 0 THEN 0
                          ELSE g[i - 1] + IF vals[i].active THEN vals[i].effectiveBalance ELSE 0]
      <4>1. \A i \in 0 .. n : i # 0 =>
               w[i] = IF vals[i].active THEN vals[i].effectiveBalance ELSE 0
        BY <1>1
      <4> HIDE DEF w
      <4>2. [i \in 0 .. n |-> IF i = 0 THEN 0 ELSE g[i - 1] + w[i]]
              = [i \in 0 .. n |-> IF i = 0 THEN 0
                          ELSE g[i - 1] + IF vals[i].active THEN vals[i].effectiveBalance ELSE 0]
        BY <4>1
      <4> QED BY <4>2 DEF IsSums
    <3>2. PICK g : IsSums(g, n, w)
      <4> HIDE DEF w
      <4> QED BY <1>1, <2>2, SumsExist
    <3> HIDE DEF w
    <3> QED BY <3>1, <3>2
  <2> DEFINE U == UNION {{of[i]} \X (1 .. w[i]) : i \in 1 .. n}
  <2>5. f[n] = Cardinality(U)
    <3>1. U = UnitsOf(of, w, n)
      BY DEF UnitsOf
    <3> HIDE DEF w, of, f, U
    <3> QED BY <1>1, <2>2, <2>3, <2>4, <3>1, SumCountsUnits
  <2>6. ActiveUnits(kv) = U
    <3> DEFINE A == {j \in 0 .. n - 1 : v(j).active}
    <3>1. ActiveUnits(kv) = UNION {{i} \X (1 .. v(i).effectiveBalance) : i \in A}
      BY <1>1 DEF ActiveUnits, v
    <3>2. ASSUME NEW x \in ActiveUnits(kv) PROVE x \in U
      <4>1. PICK j \in A : x \in {j} \X (1 .. v(j).effectiveBalance)
        BY <3>1, <3>2
      <4>2. PICK i \in 1 .. n : s[i][2] = j
        BY <1>8, <4>1
      <4>3. of[i] = j /\ w[i] = v(j).effectiveBalance
        BY <1>5, <4>1, <4>2
      <4>4. x \in {of[i]} \X (1 .. w[i])
        BY <4>1, <4>3
      <4> HIDE DEF of, w
      <4> QED BY <4>4
    <3>3. ASSUME NEW x \in U PROVE x \in ActiveUnits(kv)
      <4>1. PICK i \in 1 .. n : x \in {of[i]} \X (1 .. w[i])
        <5> HIDE DEF of, w
        <5> QED BY <3>3
      <4>2. vals[i] = v(s[i][2]) /\ s[i][2] \in 0 .. n - 1 /\ of[i] = s[i][2]
        BY <1>5
      <4>3. CASE vals[i].active
        <5>1. w[i] = v(s[i][2]).effectiveBalance /\ s[i][2] \in A
          BY <4>2, <4>3
        <5> HIDE DEF w, of, A
        <5> QED BY <3>1, <4>1, <4>2, <5>1
      <4>4. CASE ~vals[i].active
        <5>1. w[i] = 0
          BY <4>4
        <5>2. 1 .. w[i] = {}
          BY <5>1
        <5> HIDE DEF w, of
        <5> QED BY <4>1, <5>2
      <4> QED BY <4>3, <4>4
    <3> HIDE DEF U
    <3> QED BY <3>2, <3>3
  <2> HIDE DEF f, U
  <2> QED BY <2>1, <2>5, <2>6
<1> HIDE DEF s
<1> QED BY <1>13, <1>14, <1>15, <1>16, <1>17 DEF Drawn, n, vals, all

\* The registry is the same through every way the code reads it, on the committed
\* state and on any copy.  AddValidator and UpdateValidatorAtIndex leave exactly one
\* entry per validator in every index, at the index that the sequence gave it
\* (registry.go:29-58, index/validator.go); GetValidatorsByEffectiveBalance visits
\* every validator once and the poorest first, and GetTotalActiveBalances, which
\* adds in that order, counts every active validator once (registry.go:154-260).
THEOREM RegistryIsAligned == DbSpec => []RegistryAligned
<1>1. DbInv => RegistryAligned
  <2> SUFFICES ASSUME DbInv PROVE RegistryAligned
    OBVIOUS
  <2>1. IndexesAligned
    BY SoundRight DEF IndexesAligned
  <2>2. \A kv \in Sound : Drawn(kv)
    BY SoundRight, CommitteeOfAligned
  <2>3. CommitteeDrawn
    BY <2>2 DEF CommitteeDrawn, Drawn
  <2> QED BY <2>1, <2>3 DEF RegistryAligned
<1> QED BY <1>1, DatabaseSafe, PTL

-----------------------------------------------------------------------------
\* The running total of UpdateSlashingAtIndex is the sum of the slashings for any
\* amounts and indices, so that its check of the old value against the total never
\* refuses (statedb.go:155-185).
THEOREM SlashingsSummed == DbSpec => []TotalSlashingIsSum
<1>1. DbInv => TotalSlashingIsSum
  BY SoundRight DEF TotalSlashingIsSum, SlashingsAdded
<1> QED BY <1>1, DatabaseSafe, PTL

\* GetLatestExecutionPayloadHeader sets the version of the shared codec from the
\* layer that it reads before it decodes, so that no order of copies, writes and
\* restarts makes it decode with a version that it does not know (eth1.go:23-53).
THEOREM HeadersReadable == DbSpec => []HeaderReadable
<1>1. DbInv => HeaderReadable
  BY DEF DbInv
<1> QED BY <1>1, DatabaseSafe, PTL

-----------------------------------------------------------------------------
(* The genesis ceremony.                                                   *)

\* A deposit of the ceremony.
Premined(d) ==
    /\ d.pubkey \in DepositKeys /\ d.amount \in DepositAmounts
    /\ VerifySignature(d, PreminedForkData)

\* The state after n of the deposits.
Primed == [ok |-> TRUE, eth1DepositIndex |-> 0, validators |-> <<>>, genesisValidatorsRoot |-> ZeroRoot]
IsAfter(f, deposits, n) ==
    f = [i \in 0 .. n |-> IF i = 0 THEN Primed ELSE processDeposit(f[i - 1], deposits[i])]

LEMMA AfterExists ==
    ASSUME NEW deposits, NEW n \in Nat
    PROVE  \E f : IsAfter(f, deposits, n)
<1> DEFINE P(m) == \E f : IsAfter(f, deposits, m)
<1>1. P(0)
  <2> DEFINE f == [i \in 0 .. 0 |-> Primed]
  <2>1. f = [i \in 0 .. 0 |-> IF i = 0 THEN Primed ELSE processDeposit(f[i - 1], deposits[i])]
    OBVIOUS
  <2> HIDE DEF f
  <2>2. IsAfter(f, deposits, 0)
    BY <2>1 DEF IsAfter
  <2> QED BY <2>2
<1>2. ASSUME NEW m \in Nat, P(m) PROVE P(m + 1)
  <2>1. PICK f : IsAfter(f, deposits, m)
    BY <1>2
  <2> DEFINE x == processDeposit(f[m], deposits[m + 1])
             g == [i \in 0 .. m + 1 |-> IF i = m + 1 THEN x ELSE f[i]]
  <2>2. \A i \in 0 .. m : f[i] = IF i = 0 THEN Primed ELSE processDeposit(f[i - 1], deposits[i])
    BY <2>1 DEF IsAfter
  <2>3. \A i \in 0 .. m : i \in 0 .. m + 1 /\ g[i] = f[i]
    OBVIOUS
  <2>4. ASSUME NEW i \in 0 .. m + 1
        PROVE  g[i] = IF i = 0 THEN Primed ELSE processDeposit(g[i - 1], deposits[i])
    <3>1. CASE i = m + 1
      <4>1. i - 1 = m /\ g[i - 1] = f[m] /\ i # 0
        BY <2>3, <3>1
      <4>2. g[i] = x
        BY <3>1
      <4> HIDE DEF g
      <4> QED BY <3>1, <4>1, <4>2
    <3>2. CASE i \in 0 .. m
      <4>1. g[i] = f[i] /\ (i # 0 => i - 1 \in 0 .. m /\ g[i - 1] = f[i - 1])
        BY <2>3, <3>2
      <4> HIDE DEF g
      <4> QED BY <2>2, <3>2, <4>1
    <3> QED BY <3>1, <3>2
  <2>5. g = [i \in 0 .. m + 1 |-> g[i]]
    OBVIOUS
  <2> HIDE DEF g
  <2>6. IsAfter(g, deposits, m + 1)
    BY <2>4, <2>5 DEF IsAfter
  <2> QED BY <2>6
<1> HIDE DEF P
<1>3. P(n)
  <2> DEFINE N == {j \in Nat : P(j)}
  <2>1. 0 \in N
    BY <1>1
  <2>2. \A i \in Nat : i \in N => i + 1 \in N
    BY <1>2
  <2> HIDE DEF N
  <2>3. \A i \in Nat : i \in N
    BY <2>1, <2>2, InductionOverNat
  <2> QED BY <2>3 DEF N
<1> QED BY <1>3 DEF P

\* Capping along the way or at the end is the same.
LEMMA CapOnce ==
    ASSUME NEW x \in Nat, NEW y \in Nat, NEW cap \in Nat
    PROVE  /\ AtMost(AtMost(x, cap) + y, cap) = AtMost(x + y, cap)
           /\ AtMost(x, cap) \in Nat
BY DEF AtMost

LEMMA WholeIncrements ==
    ASSUME NEW a \in Nat
    PROVE  a - (a % EffectiveBalanceIncrement) \in Nat
<1>1. a % EffectiveBalanceIncrement \in 0 .. EffectiveBalanceIncrement - 1
  BY GenesisAssumption, ModRange
<1>2. a = EffectiveBalanceIncrement * (a \div EffectiveBalanceIncrement) + (a % EffectiveBalanceIncrement)
      /\ a \div EffectiveBalanceIncrement \in Nat
  BY GenesisAssumption, DivMod
<1>3. EffectiveBalanceIncrement * (a \div EffectiveBalanceIncrement) \in Nat
  BY <1>2, GenesisAssumption
<1> QED BY <1>1, <1>2, <1>3, GenesisAssumption

\* What n deposits have added to the stake of a key.
Shares(deposits, pubkey) == [n \in 1 .. Len(deposits) |-> Share(deposits, pubkey, n)]
SumsOf(deposits, pubkey) ==
    CHOOSE f : f = [n \in 0 .. Len(deposits) |-> IF n = 0 THEN 0
                                                 ELSE f[n - 1] + Share(deposits, pubkey, n)]

LEMMA SharesAdd ==
    ASSUME NEW deposits, Len(deposits) \in Nat,
           \A n \in 1 .. Len(deposits) : deposits[n].amount \in Nat, NEW pubkey
    PROVE  /\ Deposited(deposits, pubkey) = AtMost(SumsOf(deposits, pubkey)[Len(deposits)], MaxEffectiveBalance)
           /\ SumsOf(deposits, pubkey)[0] = 0
           /\ \A n \in 1 .. Len(deposits) :
                 /\ Share(deposits, pubkey, n) \in Nat
                 /\ SumsOf(deposits, pubkey)[n] =
                       SumsOf(deposits, pubkey)[n - 1] + Share(deposits, pubkey, n)
<1> DEFINE len == Len(deposits)
           w == Shares(deposits, pubkey)
           f == SumsOf(deposits, pubkey)
<1>1. ASSUME NEW n \in 1 .. len PROVE w[n] = Share(deposits, pubkey, n) /\ w[n] \in Nat
  <2>1. Share(deposits, pubkey, n) \in Nat
    BY <1>1, WholeIncrements DEF Share
  <2> QED BY <2>1 DEF Shares
<1> HIDE DEF w
<1>2. \E g : IsSums(g, len, w)
  BY <1>1, SumsExist
<1>3. ASSUME NEW g
      PROVE  IsSums(g, len, w) <=>
                g = [n \in 0 .. len |-> IF n = 0 THEN 0 ELSE g[n - 1] + Share(deposits, pubkey, n)]
  <2>1. \A n \in 0 .. len : n # 0 => w[n] = Share(deposits, pubkey, n)
    BY <1>1
  <2>2. [i \in 0 .. len |-> IF i = 0 THEN 0 ELSE g[i - 1] + w[i]]
          = [n \in 0 .. len |-> IF n = 0 THEN 0 ELSE g[n - 1] + Share(deposits, pubkey, n)]
    BY <2>1
  <2> QED BY <2>2 DEF IsSums
<1>4. IsSums(f, len, w)
  BY <1>2, <1>3 DEF SumsOf
<1>5. \A i \in 0 .. len : f[i] = IF i = 0 THEN 0 ELSE f[i - 1] + w[i]
  BY <1>4 DEF IsSums
<1>6. Deposited(deposits, pubkey) = AtMost(f[len], MaxEffectiveBalance)
  BY DEF Deposited, SumsOf
<1> HIDE DEF f
<1>7. \A n \in 1 .. len : f[n] = f[n - 1] + Share(deposits, pubkey, n)
  BY <1>1, <1>5
<1> QED BY <1>1, <1>5, <1>6, <1>7 DEF f

\* No deposit, no stake.
NoneFor(deposits, pubkey, n) == \A m \in 1 .. n : deposits[m].pubkey # pubkey

LEMMA SumsCount ==
    ASSUME NEW deposits, Len(deposits) \in Nat,
           \A n \in 1 .. Len(deposits) : deposits[n].amount \in Nat, NEW pubkey,
           NEW n \in 0 .. Len(deposits)
    PROVE  /\ SumsOf(deposits, pubkey)[n] \in Nat
           /\ NoneFor(deposits, pubkey, n) => SumsOf(deposits, pubkey)[n] = 0
<1> DEFINE f == SumsOf(deposits, pubkey)
           P(m) == m <= Len(deposits) => f[m] \in Nat /\ (NoneFor(deposits, pubkey, m) => f[m] = 0)
<1>0. /\ f[0] = 0
      /\ \A m \in 1 .. Len(deposits) : /\ Share(deposits, pubkey, m) \in Nat
                                       /\ f[m] = f[m - 1] + Share(deposits, pubkey, m)
  BY SharesAdd
<1> HIDE DEF f
<1>1. P(0)
  BY <1>0
<1>2. ASSUME NEW m \in Nat, P(m) PROVE P(m + 1)
  <2> SUFFICES ASSUME m + 1 <= Len(deposits)
               PROVE  f[m + 1] \in Nat /\ (NoneFor(deposits, pubkey, m + 1) => f[m + 1] = 0)
    OBVIOUS
  <2>1. /\ Share(deposits, pubkey, m + 1) \in Nat
        /\ f[m + 1] = f[m] + Share(deposits, pubkey, m + 1) /\ f[m] \in Nat
    BY <1>0, <1>2
  <2>2. ASSUME NoneFor(deposits, pubkey, m + 1)
        PROVE  NoneFor(deposits, pubkey, m) /\ Share(deposits, pubkey, m + 1) = 0
    BY <2>2 DEF NoneFor, Share
  <2> QED BY <1>2, <2>1, <2>2
<1> HIDE DEF P
<1>3. P(n)
  <2> DEFINE N == {j \in Nat : P(j)}
  <2>1. 0 \in N
    BY <1>1
  <2>2. \A i \in Nat : i \in N => i + 1 \in N
    BY <1>2
  <2> HIDE DEF N
  <2>3. \A i \in Nat : i \in N
    BY <2>1, <2>2, InductionOverNat
  <2> QED BY <2>3 DEF N
<1> QED BY <1>3 DEF P, f

\* The state after n deposits: one validator for each key among them, with what was
\* deposited for it.
StakeIs(v, deposits, n) == v.effective = AtMost(SumsOf(deposits, v.pubkey)[n], MaxEffectiveBalance)
ValidatorSet == [pubkey : DepositKeys, effective : Nat]
Counted(st, deposits, n) ==
    /\ st = [ok |-> TRUE, eth1DepositIndex |-> n, validators |-> st.validators,
             genesisValidatorsRoot |-> ZeroRoot]
    /\ st.validators \in Seq(ValidatorSet)
    /\ \A i, j \in 1 .. Len(st.validators) :
          i # j => st.validators[i].pubkey # st.validators[j].pubkey
    /\ \A i \in 1 .. Len(st.validators) : \E m \in 1 .. n :
          deposits[m].pubkey = st.validators[i].pubkey
    /\ \A m \in 1 .. n : \E i \in 1 .. Len(st.validators) :
          st.validators[i].pubkey = deposits[m].pubkey
    /\ \A i \in 1 .. Len(st.validators) : StakeIs(st.validators[i], deposits, n)

DepositsRight(deposits) ==
    /\ Len(deposits) \in Nat
    /\ \A n \in 1 .. Len(deposits) : Premined(deposits[n])

LEMMA AnotherDeposit ==
    ASSUME NEW deposits, DepositsRight(deposits), NEW n \in Nat, n + 1 <= Len(deposits),
           NEW st, Counted(st, deposits, n)
    PROVE  Counted(processDeposit(st, deposits[n + 1]), deposits, n + 1)
<1> DEFINE dep == deposits[n + 1]
           pk == dep.pubkey
           vs == st.validators
           known == IndexByPubkey(st, pk)
           counted == [st EXCEPT !.eth1DepositIndex = @ + 1]
           next == processDeposit(st, dep)
<1>0. /\ \A m \in 1 .. Len(deposits) : deposits[m].amount \in Nat
      /\ pk \in DepositKeys /\ dep.amount \in Nat /\ VerifySignature(dep, PreminedForkData)
      /\ n \in 0 .. Len(deposits) /\ n + 1 \in 1 .. Len(deposits) /\ Len(deposits) \in Nat
      /\ MaxEffectiveBalance \in Nat
  <2>1. Len(deposits) \in Nat /\ \A m \in 1 .. Len(deposits) : Premined(deposits[m])
    BY DEF DepositsRight
  <2>2. n \in 0 .. Len(deposits) /\ n + 1 \in 1 .. Len(deposits)
    BY <2>1
  <2>3. \A m \in 1 .. Len(deposits) : deposits[m].amount \in Nat
    BY <2>1, GenesisAssumption DEF Premined
  <2>4. pk \in DepositKeys /\ VerifySignature(dep, PreminedForkData)
    BY <2>1, <2>2 DEF Premined
  <2> QED BY <2>1, <2>2, <2>3, <2>4, GenesisAssumption
<1> HIDE DEF vs
<1>1. /\ st = [ok |-> TRUE, eth1DepositIndex |-> n, validators |-> vs, genesisValidatorsRoot |-> ZeroRoot]
      /\ vs \in Seq(ValidatorSet)
      /\ \A i, j \in 1 .. Len(vs) : i # j => vs[i].pubkey # vs[j].pubkey
      /\ \A i \in 1 .. Len(vs) : \E m \in 1 .. n : deposits[m].pubkey = vs[i].pubkey
      /\ \A m \in 1 .. n : \E i \in 1 .. Len(vs) : vs[i].pubkey = deposits[m].pubkey
      /\ \A i \in 1 .. Len(vs) : StakeIs(vs[i], deposits, n)
  BY DEF Counted, vs
<1>2. counted = [ok |-> TRUE, eth1DepositIndex |-> n + 1, validators |-> vs, genesisValidatorsRoot |-> ZeroRoot]
  <2> DEFINE k == st.eth1DepositIndex + 1
  <2>1. k = n + 1
    BY <1>1
  <2>2. counted = [st EXCEPT !.eth1DepositIndex = k]
    OBVIOUS
  <2> HIDE DEF k, counted
  <2>3. counted = [ok |-> TRUE, eth1DepositIndex |-> k, validators |-> vs, genesisValidatorsRoot |-> ZeroRoot]
    BY <1>1, <2>2
  <2> QED BY <2>1, <2>3
<1>3. known = {i \in 1 .. Len(vs) : vs[i].pubkey = pk}
  BY <1>1 DEF IndexByPubkey, vs
<1>4. \A k : /\ Share(deposits, k, n + 1) \in Nat
             /\ SumsOf(deposits, k)[n + 1] = SumsOf(deposits, k)[n] + Share(deposits, k, n + 1)
             /\ SumsOf(deposits, k)[n] \in Nat
             /\ NoneFor(deposits, k, n) => SumsOf(deposits, k)[n] = 0
  <2> TAKE k
  <2>1. /\ Share(deposits, k, n + 1) \in Nat
        /\ SumsOf(deposits, k)[n + 1] = SumsOf(deposits, k)[(n + 1) - 1] + Share(deposits, k, n + 1)
    BY <1>0, SharesAdd
  <2>2. /\ SumsOf(deposits, k)[n] \in Nat
        /\ NoneFor(deposits, k, n) => SumsOf(deposits, k)[n] = 0
    BY <1>0, SumsCount
  <2>3. (n + 1) - 1 = n
    OBVIOUS
  <2> QED BY <2>1, <2>2, <2>3
\* A validator with another key keeps its stake.
<1>5. ASSUME NEW v, v.pubkey # pk, StakeIs(v, deposits, n)
      PROVE  StakeIs(v, deposits, n + 1)
  <2>1. Share(deposits, v.pubkey, n + 1) = 0
    BY <1>5 DEF Share
  <2>2. SumsOf(deposits, v.pubkey)[n + 1] = SumsOf(deposits, v.pubkey)[n]
    BY <1>4, <2>1
  <2> QED BY <1>5, <2>2 DEF StakeIs
<1> HIDE DEF counted, known, pk
<1>6. CASE known # {}
  <2> DEFINE i == CHOOSE j \in known : TRUE
             w == [vs EXCEPT ![i].effective = AtMost(@ + dep.amount, MaxEffectiveBalance)]
  <2>1. next = [counted EXCEPT !.validators[i].effective = AtMost(@ + dep.amount, MaxEffectiveBalance)]
    BY <1>1, <1>6 DEF processDeposit, known, counted, pk
  <2>2. i \in 1 .. Len(vs) /\ vs[i].pubkey = pk
    BY <1>3, <1>6
  <2> HIDE DEF i
  <2>3. next = [ok |-> TRUE, eth1DepositIndex |-> n + 1, validators |-> w, genesisValidatorsRoot |-> ZeroRoot]
    BY <1>2, <2>1
  <2>4. vs[i] \in ValidatorSet /\ vs[i].effective \in Nat
    <3>1. vs[i] \in ValidatorSet
      BY <1>1, <2>2
    <3> HIDE DEF next, dep
    <3> QED BY <3>1 DEF ValidatorSet
  <2> DEFINE x == [pubkey |-> pk, effective |-> AtMost(vs[i].effective + dep.amount, MaxEffectiveBalance)]
  <2>5. w = [vs EXCEPT ![i] = x]
    <3>1. vs[i] = [pubkey |-> pk, effective |-> vs[i].effective]
      BY <2>2, <2>4 DEF ValidatorSet
    <3>2. [vs[i] EXCEPT !.effective = AtMost(@ + dep.amount, MaxEffectiveBalance)] = x
      <4> HIDE DEF dep, next
      <4> QED BY <3>1
    <3> HIDE DEF x, dep, next
    <3> QED BY <3>2
  <2>6. x \in ValidatorSet
    <3>1. AtMost(vs[i].effective + dep.amount, MaxEffectiveBalance) \in Nat
      <4> HIDE DEF dep
      <4>1. vs[i].effective + dep.amount \in Nat
        BY <1>0, <2>4
      <4> QED BY <1>0, <4>1 DEF AtMost
    <3> QED BY <1>0, <3>1 DEF ValidatorSet
  <2>7. x.pubkey = pk
    OBVIOUS
  <2>8. StakeIs(x, deposits, n + 1)
    <3>1. PICK m \in 1 .. n : deposits[m].pubkey = pk
      BY <1>1, <2>2
    <3>2. Share(deposits, pk, n + 1) = dep.amount
      <4>1. m \in 1 .. (n + 1) - 1
        BY <3>1
      <4>2. ~ \A k \in 1 .. (n + 1) - 1 : deposits[k].pubkey # pk
        BY <3>1, <4>1
      <4> QED BY <4>2 DEF Share, pk
    <3>3. vs[i].effective = AtMost(SumsOf(deposits, pk)[n], MaxEffectiveBalance)
      BY <1>1, <2>2 DEF StakeIs
    <3>4. x.effective = AtMost(SumsOf(deposits, pk)[n] + dep.amount, MaxEffectiveBalance)
      <4> DEFINE a == SumsOf(deposits, pk)[n]
      <4>1. x.effective = AtMost(AtMost(a, MaxEffectiveBalance) + dep.amount, MaxEffectiveBalance)
        BY <3>3
      <4>2. a \in Nat
        BY <1>4
      <4> HIDE DEF a, dep, x
      <4> QED BY <1>0, <4>1, <4>2, CapOnce DEF a
    <3>5. SumsOf(deposits, pk)[n + 1] = SumsOf(deposits, pk)[n] + dep.amount
      BY <1>4, <3>2
    <3> QED BY <2>7, <3>4, <3>5 DEF StakeIs
  <2> HIDE DEF x, w
  <2>9. /\ w \in Seq(ValidatorSet) /\ Len(w) = Len(vs) /\ w[i] = x
        /\ \A j \in 1 .. Len(vs) : j # i => w[j] = vs[j]
    BY <1>1, <2>2, <2>5, <2>6
  <2>10. \A j \in 1 .. Len(vs) : w[j].pubkey = vs[j].pubkey
    BY <2>2, <2>7, <2>9
  <2>11. \A j \in 1 .. Len(w) : StakeIs(w[j], deposits, n + 1)
    <3> SUFFICES ASSUME NEW j \in 1 .. Len(vs), j # i PROVE StakeIs(vs[j], deposits, n + 1)
      BY <2>8, <2>9
    <3>1. vs[j].pubkey # pk
      BY <1>1, <2>2
    <3> QED BY <1>1, <1>5, <3>1
  <2>12. \A j \in 1 .. Len(w) : \E m \in 1 .. n + 1 : deposits[m].pubkey = w[j].pubkey
    <3>1. \A m \in 1 .. n : m \in 1 .. n + 1
      OBVIOUS
    <3> QED BY <1>1, <2>9, <2>10, <3>1
  <2>13. \A m \in 1 .. n + 1 : \E j \in 1 .. Len(w) : w[j].pubkey = deposits[m].pubkey
    <3> SUFFICES ASSUME NEW m \in 1 .. n + 1 PROVE \E j \in 1 .. Len(w) : w[j].pubkey = deposits[m].pubkey
      OBVIOUS
    <3>1. CASE m = n + 1
      BY <2>2, <2>9, <2>10, <3>1 DEF pk
    <3>2. CASE m \in 1 .. n
      BY <1>1, <2>9, <2>10, <3>2
    <3> QED BY <3>1, <3>2
  <2>14. \A j, k \in 1 .. Len(w) : j # k => w[j].pubkey # w[k].pubkey
    BY <1>1, <2>9, <2>10
  <2>15. next.validators = w
    BY <2>3
  <2> HIDE DEF next
  <2>16. Counted(next, deposits, n + 1)
    BY <2>3, <2>9, <2>11, <2>12, <2>13, <2>14, <2>15 DEF Counted
  <2> QED BY <2>16 DEF next
<1>7. CASE known = {}
  <2> DEFINE x == NewValidator(dep)
             w == Append(vs, x)
             len == Len(vs)
  <2>1. NewForkData("deneb", st.genesisValidatorsRoot) = PreminedForkData
    BY <1>1 DEF PreminedForkData
  <2>2. next = [counted EXCEPT !.validators = Append(@, NewValidator(dep))]
    BY <1>0, <1>1, <1>7, <2>1 DEF processDeposit, known, counted, pk
  <2>3. next = [ok |-> TRUE, eth1DepositIndex |-> n + 1, validators |-> w, genesisValidatorsRoot |-> ZeroRoot]
    BY <1>2, <2>2
  <2> DEFINE whole == dep.amount - (dep.amount % EffectiveBalanceIncrement)
  <2>4. whole \in Nat
    BY <1>0, WholeIncrements
  <2>5. x = [pubkey |-> pk, effective |-> AtMost(whole, MaxEffectiveBalance)]
    BY DEF NewValidator, pk
  <2>6. x \in ValidatorSet /\ x.pubkey = pk
    <3> HIDE DEF whole, x
    <3>1. AtMost(whole, MaxEffectiveBalance) \in Nat
      BY <1>0, <2>4, CapOnce
    <3> QED BY <1>0, <2>5, <3>1 DEF ValidatorSet
  <2>7. \A j \in 1 .. len : vs[j].pubkey # pk
    BY <1>3, <1>7
  <2>8. NoneFor(deposits, pk, n)
    BY <1>1, <2>7 DEF NoneFor
  <2>9. StakeIs(x, deposits, n + 1)
    <3>1. Share(deposits, pk, n + 1) = whole
      <4>1. \A k \in 1 .. (n + 1) - 1 : deposits[k].pubkey # pk
        BY <2>8 DEF NoneFor
      <4> QED BY <4>1 DEF Share, pk
    <3> HIDE DEF whole, x
    <3>2. SumsOf(deposits, pk)[n + 1] = whole
      BY <1>4, <2>4, <2>8, <3>1
    <3> QED BY <2>5, <2>6, <3>2 DEF StakeIs
  <2> HIDE DEF x, w, whole
  <2>10. /\ w \in Seq(ValidatorSet) /\ Len(w) = len + 1 /\ w[len + 1] = x /\ len \in Nat
         /\ \A j \in 1 .. len : w[j] = vs[j]
    BY <1>1, <2>6 DEF w
  <2>11. \A j \in 1 .. len + 1 : j \in 1 .. len \/ j = len + 1
    BY <2>10
  <2>12. \A j \in 1 .. Len(w) : StakeIs(w[j], deposits, n + 1)
    <3> SUFFICES ASSUME NEW j \in 1 .. len PROVE StakeIs(vs[j], deposits, n + 1)
      BY <2>9, <2>10, <2>11
    <3> QED BY <1>1, <1>5, <2>7
  <2>13. \A j, k \in 1 .. Len(w) : j # k => w[j].pubkey # w[k].pubkey
    <3> SUFFICES ASSUME NEW j \in 1 .. len + 1, NEW k \in 1 .. len + 1, j # k
                 PROVE  w[j].pubkey # w[k].pubkey
      BY <2>10
    <3>1. CASE j \in 1 .. len /\ k \in 1 .. len
      BY <1>1, <2>10, <3>1
    <3>2. CASE j = len + 1
      BY <2>6, <2>7, <2>10, <2>11, <3>2
    <3>3. CASE k = len + 1
      BY <2>6, <2>7, <2>10, <2>11, <3>3
    <3> QED BY <2>11, <3>1, <3>2, <3>3
  <2>14. \A j \in 1 .. Len(w) : \E m \in 1 .. n + 1 : deposits[m].pubkey = w[j].pubkey
    <3>1. (\A m \in 1 .. n : m \in 1 .. n + 1) /\ n + 1 \in 1 .. n + 1
      OBVIOUS
    <3> SUFFICES ASSUME NEW j \in 1 .. len + 1
                 PROVE  \E m \in 1 .. n + 1 : deposits[m].pubkey = w[j].pubkey
      BY <2>10
    <3>2. CASE j = len + 1
      BY <2>6, <2>10, <3>1, <3>2 DEF pk
    <3>3. CASE j \in 1 .. len
      <4>1. PICK m \in 1 .. n : deposits[m].pubkey = vs[j].pubkey
        BY <1>1, <3>3
      <4> QED BY <2>10, <3>1, <3>3, <4>1
    <3> QED BY <2>11, <3>2, <3>3
  <2>15. \A m \in 1 .. n + 1 : \E j \in 1 .. Len(w) : w[j].pubkey = deposits[m].pubkey
    <3> SUFFICES ASSUME NEW m \in 1 .. n + 1 PROVE \E j \in 1 .. Len(w) : w[j].pubkey = deposits[m].pubkey
      OBVIOUS
    <3>0. len + 1 \in 1 .. Len(w) /\ \A j \in 1 .. len : j \in 1 .. Len(w)
      BY <2>10
    <3>1. CASE m = n + 1
      BY <2>6, <2>10, <3>0, <3>1 DEF pk
    <3>2. CASE m \in 1 .. n
      <4>1. PICK j \in 1 .. len : vs[j].pubkey = deposits[m].pubkey
        BY <1>1, <3>2
      <4> QED BY <2>10, <3>0, <4>1
    <3> QED BY <3>1, <3>2
  <2>16. next.validators = w
    BY <2>3
  <2> HIDE DEF next
  <2>17. Counted(next, deposits, n + 1)
    BY <2>3, <2>10, <2>12, <2>13, <2>14, <2>15, <2>16 DEF Counted
  <2> QED BY <2>17 DEF next
<1> QED BY <1>6, <1>7

LEMMA AllDeposits ==
    ASSUME NEW deposits, DepositsRight(deposits),
           NEW f, IsAfter(f, deposits, Len(deposits))
    PROVE  Counted(f[Len(deposits)], deposits, Len(deposits))
<1> DEFINE P(m) == m <= Len(deposits) => Counted(f[m], deposits, m)
<1>0. /\ Len(deposits) \in Nat
      /\ \A i \in 0 .. Len(deposits) :
            f[i] = IF i = 0 THEN Primed ELSE processDeposit(f[i - 1], deposits[i])
  BY DEF IsAfter, DepositsRight
<1>1. P(0)
  <2>1. f[0] = Primed
    BY <1>0
  <2>2. Primed.validators = <<>> /\ Len(<<>>) = 0 /\ <<>> \in Seq(ValidatorSet)
    BY DEF Primed
  <2>3. Counted(Primed, deposits, 0)
    <3>1. Primed = [ok |-> TRUE, eth1DepositIndex |-> 0, validators |-> Primed.validators,
                    genesisValidatorsRoot |-> ZeroRoot]
      BY DEF Primed
    <3> QED BY <2>2, <3>1 DEF Counted
  <2> QED BY <2>1, <2>3
<1>2. ASSUME NEW m \in Nat, P(m) PROVE P(m + 1)
  <2> SUFFICES ASSUME m + 1 <= Len(deposits) PROVE Counted(f[m + 1], deposits, m + 1)
    OBVIOUS
  <2>1. Counted(f[m], deposits, m)
    BY <1>0, <1>2
  <2>2. f[m + 1] = processDeposit(f[m], deposits[m + 1])
    <3>1. m + 1 \in 0 .. Len(deposits) /\ m + 1 # 0 /\ (m + 1) - 1 = m
      BY <1>0
    <3> QED BY <1>0, <3>1
  <2> QED BY <2>1, <2>2, AnotherDeposit
<1> HIDE DEF P
<1>3. P(Len(deposits))
  <2> DEFINE N == {j \in Nat : P(j)}
  <2>1. 0 \in N
    BY <1>1
  <2>2. \A i \in Nat : i \in N => i + 1 \in N
    BY <1>2
  <2> HIDE DEF N
  <2>3. \A i \in Nat : i \in N
    BY <2>1, <2>2, InductionOverNat
  <2> QED BY <1>0, <2>3 DEF N
<1> QED BY <1>0, <1>3 DEF P

\* What InitGenesis makes of premined deposits.
LEMMA GenesisIs ==
    ASSUME NEW deposits, DepositsRight(deposits), NEW header, header.extra <= ExtraDataLength
    PROVE  LET st == InitializePreminedBeaconStateFromEth1(deposits, header)
           IN \E vs : /\ st = [ok |-> TRUE, eth1DepositIndex |-> Len(deposits), validators |-> vs,
                               genesisValidatorsRoot |-> ValidatorsRoot(vs)]
                      /\ Counted([ok |-> TRUE, eth1DepositIndex |-> Len(deposits), validators |-> vs,
                                  genesisValidatorsRoot |-> ZeroRoot], deposits, Len(deposits))
<1> DEFINE len == Len(deposits)
           f == CHOOSE g : g = [n \in 0 .. len |->
                                  IF n = 0 THEN Primed ELSE processDeposit(g[n - 1], deposits[n])]
           st == InitializePreminedBeaconStateFromEth1(deposits, header)
           last == f[len]
<1>1. st = [last EXCEPT !.genesisValidatorsRoot = ValidatorsRoot(last.validators),
                        !.ok = @ /\ header.extra <= ExtraDataLength]
  BY DEF InitializePreminedBeaconStateFromEth1, Primed
<1>2. IsAfter(f, deposits, len)
  <2>1. len \in Nat
    BY DEF DepositsRight
  <2>2. \E g : IsAfter(g, deposits, len)
    BY <2>1, AfterExists
  <2> QED BY <2>2 DEF IsAfter
<1> HIDE DEF f
<1>3. Counted(last, deposits, len)
  BY <1>2, AllDeposits
<1> HIDE DEF last
<1>4. last = [ok |-> TRUE, eth1DepositIndex |-> len, validators |-> last.validators,
              genesisValidatorsRoot |-> ZeroRoot]
  BY <1>3 DEF Counted
<1> DEFINE vs == last.validators
<1> HIDE DEF vs
<1>5. last = [ok |-> TRUE, eth1DepositIndex |-> len, validators |-> vs,
              genesisValidatorsRoot |-> ZeroRoot]
  BY <1>4 DEF vs
<1> DEFINE k == last.ok /\ header.extra <= ExtraDataLength
           r == ValidatorsRoot(vs)
<1>6. k = TRUE
  BY <1>5
<1>7. st = [last EXCEPT !.genesisValidatorsRoot = r, !.ok = k]
  <2>1. [last EXCEPT !.genesisValidatorsRoot = r].ok = last.ok
    BY <1>5
  <2>2. st = [[last EXCEPT !.genesisValidatorsRoot = ValidatorsRoot(last.validators)]
                 EXCEPT !.ok = @ /\ header.extra <= ExtraDataLength]
    BY <1>1
  <2>3. ValidatorsRoot(last.validators) = r
    BY DEF vs
  <2> HIDE DEF st, r
  <2> QED BY <2>1, <2>2, <2>3
<1> HIDE DEF st, k, r
<1>8. st = [ok |-> TRUE, eth1DepositIndex |-> len, validators |-> vs, genesisValidatorsRoot |-> r]
  BY <1>5, <1>6, <1>7
<1>9. Counted([ok |-> TRUE, eth1DepositIndex |-> len, validators |-> vs,
               genesisValidatorsRoot |-> ZeroRoot], deposits, len)
  BY <1>3, <1>5
<1> QED BY <1>8, <1>9 DEF r, st

LEMMA RootsDiffer == ASSUME NEW vs PROVE ZeroRoot # ValidatorsRoot(vs)
BY DEF ZeroRoot, ValidatorsRoot

\* A signature is good for one fork data only.
LEMMA SignatureBinds ==
    ASSUME NEW d, NEW f, NEW g, VerifySignature(d, f), VerifySignature(d, g)
    PROVE  f = g
<1> DEFINE s(h) == Sign(d.pubkey, ComputeSigningRoot(depositMessage(d.pubkey, d.amount), ComputeDomain(h)))
<1>1. depositMessage(d.pubkey, d.amount).pubkey = d.pubkey
  BY DEF depositMessage
<1>2. s(f) = s(g)
  BY <1>1 DEF VerifySignature, VerifyCreateValidator
<1>3. \A h : s(h).root.domain.of = h
  BY DEF Sign, ComputeSigningRoot, ComputeDomain
<1> HIDE DEF s
<1> QED BY <1>2, <1>3

LEMMA ForkDataBinds ==
    ASSUME NEW v, NEW r, NEW q, NewForkData(v, r) = NewForkData(v, q)
    PROVE  r = q
<1>1. NewForkData(v, r).root = r /\ NewForkData(v, q).root = q
  BY DEF NewForkData
<1> QED BY <1>1

LEMMA SignedVerifies ==
    ASSUME NEW f, NEW p, NEW a
    PROVE  VerifySignature(SignedDeposit(f, p, a), f)
BY DEF VerifySignature, VerifyCreateValidator, SignedDeposit, CreateAndSignDepositMessage, depositMessage

\* What GenesisFollowsFiles says of one state.
Follows(st, deposits) ==
    /\ st.ok
    /\ st.eth1DepositIndex = Len(deposits)
    /\ Cardinality({d.pubkey : d \in ToSet(deposits)}) = Len(st.validators)
    /\ \A i \in DOMAIN st.validators :
          st.validators[i].effective = Deposited(deposits, st.validators[i].pubkey)
    /\ LET forkData == NewForkData("deneb", st.genesisValidatorsRoot)
       IN /\ \A d \in ToSet(deposits) : ~VerifySignature(d, forkData)
          /\ \A p \in DepositKeys, a \in DepositAmounts, root \in {ZeroRoot, st.genesisValidatorsRoot} :
                VerifySignature(createValidatorCmd(p, a, "deneb", root), forkData)
                    <=> root = st.genesisValidatorsRoot

LEMMA GenesisRight ==
    ASSUME NEW deposits, DepositsRight(deposits), deposits \in Seq(ToSet(deposits)),
           NEW header, header.extra <= ExtraDataLength
    PROVE  Follows(InitializePreminedBeaconStateFromEth1(deposits, header), deposits)
<1> DEFINE st == InitializePreminedBeaconStateFromEth1(deposits, header)
           len == Len(deposits)
<1>1. PICK vs : /\ st = [ok |-> TRUE, eth1DepositIndex |-> len, validators |-> vs,
                         genesisValidatorsRoot |-> ValidatorsRoot(vs)]
                /\ Counted([ok |-> TRUE, eth1DepositIndex |-> len, validators |-> vs,
                            genesisValidatorsRoot |-> ZeroRoot], deposits, len)
  BY GenesisIs
<1> HIDE DEF st
<1> DEFINE r == ValidatorsRoot(vs)
           forkData == NewForkData("deneb", r)
<1> HIDE DEF r
<1>2. /\ st.ok /\ st.eth1DepositIndex = len /\ st.validators = vs /\ st.genesisValidatorsRoot = r
  BY <1>1 DEF r
<1>3. /\ vs \in Seq(ValidatorSet)
      /\ \A i, j \in 1 .. Len(vs) : i # j => vs[i].pubkey # vs[j].pubkey
      /\ \A i \in 1 .. Len(vs) : \E m \in 1 .. len : deposits[m].pubkey = vs[i].pubkey
      /\ \A m \in 1 .. len : \E i \in 1 .. Len(vs) : vs[i].pubkey = deposits[m].pubkey
      /\ \A i \in 1 .. Len(vs) : StakeIs(vs[i], deposits, len)
  <2> DEFINE c == [ok |-> TRUE, eth1DepositIndex |-> len, validators |-> vs,
                   genesisValidatorsRoot |-> ZeroRoot]
  <2>1. c.validators = vs
    OBVIOUS
  <2>2. Counted(c, deposits, len)
    BY <1>1
  <2> HIDE DEF c
  <2> QED BY <2>1, <2>2 DEF Counted
<1>4. /\ len \in Nat /\ \A m \in 1 .. len : Premined(deposits[m]) /\ deposits[m].amount \in Nat
      /\ ToSet(deposits) = {deposits[m] : m \in 1 .. len}
  <2>1. len \in Nat /\ \A m \in 1 .. len : Premined(deposits[m])
    BY DEF DepositsRight
  <2>2. \A m \in 1 .. len : deposits[m].amount \in Nat
    BY <2>1, GenesisAssumption DEF Premined
  <2>3. DOMAIN deposits = 1 .. len
    OBVIOUS
  <2>4. ToSet(deposits) = {deposits[m] : m \in 1 .. len}
    BY <2>3 DEF ToSet
  <2> QED BY <2>1, <2>2, <2>4
<1>5. Cardinality({d.pubkey : d \in ToSet(deposits)}) = Len(vs)
  <2> DEFINE K == {d.pubkey : d \in ToSet(deposits)}
             t == [i \in 1 .. Len(vs) |-> vs[i].pubkey]
  <2>1. K = {deposits[m].pubkey : m \in 1 .. len}
    BY <1>4
  <2> HIDE DEF K
  <2>2. t \in [1 .. Len(vs) -> K]
    BY <1>3, <2>1
  <2>3. \A i, j \in 1 .. Len(vs) : t[i] = t[j] => i = j
    BY <1>3
  <2>4. \A k \in K : \E i \in 1 .. Len(vs) : t[i] = k
    BY <1>3, <2>1
  <2>5. t \in Bijection(1 .. Len(vs), K)
    <3> HIDE DEF t
    <3> QED BY <2>2, <2>3, <2>4 DEF Bijection, Injection, Surjection, IsInjective
  <2>6. ExistsBijection(1 .. Len(vs), K)
    BY <2>5 DEF ExistsBijection
  <2>7. Len(vs) \in Nat
    BY <1>3
  <2>8. IsFiniteSet(1 .. Len(vs)) /\ Cardinality(1 .. Len(vs)) = Len(vs)
    <3> DEFINE k == Len(vs)
    <3> HIDE DEF k
    <3>1. k \in Nat
      BY <2>7 DEF k
    <3>2. IsFiniteSet(1 .. k) /\ Cardinality(1 .. k) = k
      BY <3>1, FS_Interval
    <3> QED BY <3>2 DEF k
  <2>9. Cardinality(K) = Len(vs)
    BY <2>6, <2>8, FS_Bijection
  <2> QED BY <2>9 DEF K
<1>6. ASSUME NEW i \in DOMAIN vs PROVE vs[i].effective = Deposited(deposits, vs[i].pubkey)
  <2>1. i \in 1 .. Len(vs)
    BY <1>3
  <2>2. Deposited(deposits, vs[i].pubkey) = AtMost(SumsOf(deposits, vs[i].pubkey)[len], MaxEffectiveBalance)
    BY <1>4, SharesAdd
  <2> QED BY <1>3, <2>1, <2>2 DEF StakeIs
<1>7. ASSUME NEW d \in ToSet(deposits) PROVE ~VerifySignature(d, forkData)
  <2>1. VerifySignature(d, PreminedForkData)
    BY <1>4 DEF Premined
  <2>2. PreminedForkData # forkData
    <3> SUFFICES ASSUME PreminedForkData = forkData PROVE FALSE
      OBVIOUS
    <3>1. ZeroRoot = r
      BY ForkDataBinds DEF PreminedForkData
    <3> QED BY <3>1, RootsDiffer DEF r
  <2> HIDE DEF forkData
  <2> QED BY <2>1, <2>2, SignatureBinds
<1>8. ASSUME NEW p \in DepositKeys, NEW a \in DepositAmounts, NEW root \in {ZeroRoot, r}
      PROVE  VerifySignature(createValidatorCmd(p, a, "deneb", root), forkData) <=> root = r
  <2> DEFINE g == NewForkData("deneb", root)
             d == createValidatorCmd(p, a, "deneb", root)
  <2>1. VerifySignature(d, g)
    BY SignedVerifies DEF createValidatorCmd
  <2>2. root = r => g = forkData
    OBVIOUS
  <2>3. g = forkData => root = r
    BY ForkDataBinds
  <2> HIDE DEF d, g, forkData
  <2>4. VerifySignature(d, forkData) <=> root = r
    BY <2>1, <2>2, <2>3, SignatureBinds
  <2> QED BY <2>4 DEF d
<1>9. Follows(st, deposits)
  BY <1>2, <1>5, <1>6, <1>7, <1>8 DEF Follows
<1> QED BY <1>9 DEF st

\* The invariant of the ceremony: every deposit that a command has made, wherever it
\* is by now, is signed for a chain without a root; and the state is that of the
\* genesis file, which no command changes once there is a state.
IsDeposit(d) == d = [pubkey |-> d.pubkey, amount |-> d.amount, index |-> d.index, signature |-> d.signature]
FileRight(c) == c = {} \/ c = {<<>>} \/ \E d : c = {<<d>>} /\ Premined(d) /\ IsDeposit(d)
CeremonyInv ==
    /\ files \in [DepositKeys -> {files[p] : p \in DepositKeys}]
    /\ \A p \in DepositKeys : FileRight(files[p])
    /\ \A d \in writing : FileRight({<<d>>})
    /\ genesis = [version |-> "deneb", deposits |-> genesis.deposits, header |-> genesis.header]
    /\ genesis.deposits \in Seq(ToSet(genesis.deposits)) /\ DepositsRight(genesis.deposits)
    /\ genesis.header.extra <= ExtraDataLength
    /\ \A st \in chain : st = ProcessGenesisData(genesis)

LEMMA PreminedFile ==
    ASSUME NEW p \in DepositKeys, NEW a \in DepositAmounts
    PROVE  FileRight({<<SignedDeposit(PreminedForkData, p, a)>>})
<1> DEFINE d == SignedDeposit(PreminedForkData, p, a)
<1>1. /\ d.pubkey = p /\ d.amount = a
      /\ IsDeposit(d)
  BY DEF SignedDeposit, IsDeposit
<1>2. VerifySignature(d, PreminedForkData)
  BY SignedVerifies
<1> HIDE DEF d
<1>3. Premined(d)
  BY <1>1, <1>2 DEF Premined
<1>4. FileRight({<<d>>})
  BY <1>1, <1>3 DEF FileRight
<1> QED BY <1>4 DEF d

\* A deposit of a file with another index is a deposit still.
LEMMA Reindexing ==
    ASSUME NEW d, Premined(d), NEW k,
           IsDeposit(d)
    PROVE  Premined([d EXCEPT !.index = k])
<1> DEFINE e == [d EXCEPT !.index = k]
<1>1. e.pubkey = d.pubkey /\ e.amount = d.amount /\ e.signature = d.signature
  BY DEF IsDeposit
<1> HIDE DEF e
<1>2. Premined(e)
  BY <1>1 DEF Premined, VerifySignature
<1> QED BY <1>2 DEF e

LEMMA Concatenated ==
    ASSUME NEW s, s \in Seq(ToSet(s)), DepositsRight(s),
           NEW n \in Nat, NEW t, t = [i \in 1 .. n |-> t[i]], \A i \in 1 .. n : Premined(t[i])
    PROVE  s \o t \in Seq(ToSet(s \o t)) /\ DepositsRight(s \o t)
<1> DEFINE V == {d : d \in ToSet(s)} \cup {t[i] : i \in 1 .. n}
           u == s \o t
<1>1. t \in Seq(V) /\ Len(t) = n
  <2>1. \A i \in 1 .. n : t[i] \in V
    OBVIOUS
  <2> HIDE DEF V
  <2> QED BY <2>1
<1>2. s \in Seq(V)
  <2>1. ToSet(s) \subseteq V
    OBVIOUS
  <2> HIDE DEF V
  <2>2. DOMAIN s = 1 .. Len(s) /\ Len(s) \in Nat /\ \A i \in 1 .. Len(s) : s[i] \in V
    BY <2>1
  <2>3. s = [i \in 1 .. Len(s) |-> s[i]]
    BY <2>2
  <2> QED BY <2>2, <2>3
<1> HIDE DEF V
<1>3. /\ u \in Seq(V) /\ Len(u) = Len(s) + n /\ Len(s) \in Nat
      /\ \A i \in 1 .. Len(u) : u[i] = IF i <= Len(s) THEN s[i] ELSE t[i - Len(s)]
  BY <1>1, <1>2
<1> HIDE DEF u
<1>4. DOMAIN u = 1 .. Len(u) /\ Len(u) \in Nat /\ u = [i \in 1 .. Len(u) |-> u[i]]
  BY <1>3
<1>5. \A i \in 1 .. Len(u) : u[i] \in ToSet(u)
  BY <1>4 DEF ToSet
<1>6. u \in Seq(ToSet(u))
  BY <1>4, <1>5
<1>7. ASSUME NEW i \in 1 .. Len(u) PROVE Premined(u[i])
  <2>1. i \in Nat /\ i >= 1 /\ i <= Len(s) + n /\ Len(s) \in Nat
    BY <1>3
  <2>2. u[i] = IF i <= Len(s) THEN s[i] ELSE t[i - Len(s)]
    BY <1>3
  <2>3. CASE i <= Len(s)
    <3>1. i \in 1 .. Len(s)
      BY <2>1, <2>3
    <3>2. u[i] = s[i]
      BY <2>2, <2>3
    <3> QED BY <3>1, <3>2 DEF DepositsRight
  <2>4. CASE ~(i <= Len(s))
    <3>1. i - Len(s) \in 1 .. n
      BY <2>1, <2>4
    <3>2. u[i] = t[i - Len(s)]
      BY <2>2, <2>4
    <3> QED BY <3>1, <3>2
  <2> QED BY <2>3, <2>4
<1>8. DepositsRight(u)
  BY <1>4, <1>7 DEF DepositsRight
<1> QED BY <1>6, <1>8 DEF u

\* CollectGenesisDeposits appends deposits of the ceremony.
LEMMA CollectKeeps ==
    ASSUME CeremonyInv, CollectGenesisDeposits
    PROVE  /\ genesis'.deposits \in Seq(ToSet(genesis'.deposits)) /\ DepositsRight(genesis'.deposits)
           /\ genesis' = [version |-> "deneb", deposits |-> genesis'.deposits, header |-> genesis'.header]
           /\ genesis'.header = genesis.header
<1> DEFINE S == {p \in DepositKeys : files[p] # {}}
           names == CollectValidatorJSONFiles
           collected == [i \in DOMAIN names |-> [Content(names[i]) EXCEPT !.index = i - 1]]
           n == Cardinality(S)
<1>1. /\ genesis' = [genesis EXCEPT !.deposits = @ \o collected]
      /\ \A p \in DepositKeys : Parsed(p)
  BY DEF CollectGenesisDeposits
<1>2. SortedNumbers(names, n, S) /\ n \in Nat
  <2>1. S \in SUBSET DepositKeys /\ S \subseteq Nat
    BY GenesisAssumption
  <2> HIDE DEF S
  <2>2. IsFiniteSet(S) /\ n \in Nat
    BY <2>1, GenesisAssumption, FS_Subset, FS_CardinalityType
  <2>3. SortedNumbers(NumberOrder(S), n, S)
    BY <2>1, <2>2, NumberOrderSorts
  <2> QED BY <2>2, <2>3 DEF CollectValidatorJSONFiles, S
<1> HIDE DEF names, n
<1>3. DOMAIN names = 1 .. n /\ \A i \in 1 .. n : names[i] \in S
  BY <1>2 DEF SortedNumbers
<1>4. ASSUME NEW i \in 1 .. n PROVE Premined(collected[i])
  <2> DEFINE p == names[i]
  <2>1. p \in DepositKeys /\ files[p] # {} /\ files[p] # {<<>>} /\ FileRight(files[p])
    BY <1>1, <1>3 DEF Parsed, CeremonyInv
  <2> HIDE DEF p
  <2>2. PICK d : /\ files[p] = {<<d>>} /\ Premined(d)
                 /\ IsDeposit(d)
    BY <2>1 DEF FileRight
  <2>3. Content(p) = d
    <3>1. (CHOOSE c \in files[p] : TRUE) = <<d>>
      BY <2>2
    <3>2. Head(<<d>>) = d
      OBVIOUS
    <3> QED BY <3>1, <3>2 DEF Content
  <2>4. collected[i] = [Content(p) EXCEPT !.index = i - 1]
    BY <1>3 DEF p
  <2> HIDE DEF collected
  <2> QED BY <2>2, <2>3, <2>4, Reindexing
<1>5. collected = [i \in 1 .. n |-> collected[i]]
  BY <1>3
<1> HIDE DEF collected
<1> DEFINE g == genesis.deposits
           u == g \o collected
<1>6. /\ genesis = [version |-> "deneb", deposits |-> g, header |-> genesis.header]
      /\ g \in Seq(ToSet(g)) /\ DepositsRight(g)
  BY DEF CeremonyInv
<1> HIDE DEF g
<1>7. u \in Seq(ToSet(u)) /\ DepositsRight(u)
  BY <1>2, <1>4, <1>5, <1>6, Concatenated
<1>8. genesis' = [genesis EXCEPT !.deposits = u]
  BY <1>1 DEF g
<1> DEFINE h == genesis.header
<1> HIDE DEF u, h
<1>9. genesis = [version |-> "deneb", deposits |-> g, header |-> h]
  BY <1>6 DEF h
<1>10. genesis' = [version |-> "deneb", deposits |-> u, header |-> h]
  BY <1>8, <1>9
<1>11. genesis'.deposits = u /\ genesis'.header = h
  BY <1>10
<1> QED BY <1>7, <1>10, <1>11 DEF h

LEMMA CeremonyInit == GenesisInit => CeremonyInv
<1> SUFFICES ASSUME GenesisInit PROVE CeremonyInv
  OBVIOUS
<1>1. /\ files = [p \in DepositKeys |-> {}] /\ writing = {} /\ chain = {}
      /\ genesis = [version |-> "deneb", deposits |-> <<>>, header |-> [extra |-> ExtraDataLength]]
  BY DEF GenesisInit, DefaultGenesisDeneb
<1>2. files \in [DepositKeys -> {files[p] : p \in DepositKeys}]
  BY <1>1
<1>3. /\ genesis.deposits = <<>> /\ genesis.header.extra = 32
      /\ genesis = [version |-> "deneb", deposits |-> genesis.deposits, header |-> genesis.header]
  BY <1>1 DEF ExtraDataLength
<1>4. <<>> \in Seq(ToSet(<<>>)) /\ DepositsRight(<<>>)
  BY DEF DepositsRight
<1> QED BY <1>1, <1>2, <1>3, <1>4 DEF CeremonyInv, FileRight, ExtraDataLength

LEMMA CeremonyStep == ASSUME CeremonyInv, [GenesisNext]_genesisVars PROVE CeremonyInv'
<1>0. /\ files \in [DepositKeys -> {files[p] : p \in DepositKeys}]
      /\ \A p \in DepositKeys : FileRight(files[p])
      /\ \A d \in writing : FileRight({<<d>>})
      /\ genesis = [version |-> "deneb", deposits |-> genesis.deposits, header |-> genesis.header]
      /\ genesis.deposits \in Seq(ToSet(genesis.deposits)) /\ DepositsRight(genesis.deposits)
      /\ genesis.header.extra <= ExtraDataLength
      /\ \A st \in chain : st = ProcessGenesisData(genesis)
  BY DEF CeremonyInv
\* Replacing a file.
<1>1. ASSUME NEW p, NEW c, FileRight(c), files' = [files EXCEPT ![p] = c]
      PROVE  /\ files' \in [DepositKeys -> {files'[q] : q \in DepositKeys}]
             /\ \A q \in DepositKeys : FileRight(files'[q])
  <2>1. DOMAIN files' = DepositKeys /\ files' = [q \in DepositKeys |-> files'[q]]
    BY <1>0, <1>1
  <2>2. \A q \in DepositKeys : files'[q] = c \/ files'[q] = files[q]
    BY <1>0, <1>1
  <2> QED BY <1>0, <1>1, <2>1, <2>2
<1>2. CASE UNCHANGED genesisVars
  BY <1>0, <1>2 DEF genesisVars, CeremonyInv
<1>3. ASSUME NEW p \in DepositKeys, NEW a \in DepositAmounts, AddGenesisDeposit(p, a)
      PROVE  CeremonyInv'
  <2> DEFINE d == SignedDeposit(PreminedForkData, p, a)
  <2>1. /\ files' = [files EXCEPT ![p] = {<<>>}] /\ writing' = writing \cup {d}
        /\ genesis' = genesis /\ chain' = chain
    BY <1>3 DEF AddGenesisDeposit
  <2>2. FileRight({<<d>>})
    BY PreminedFile
  <2> HIDE DEF d
  <2>3. FileRight({<<>>})
    BY DEF FileRight
  <2>4. \A e \in writing' : FileRight({<<e>>})
    BY <1>0, <2>1, <2>2
  <2>5. /\ files' \in [DepositKeys -> {files'[q] : q \in DepositKeys}]
        /\ \A q \in DepositKeys : FileRight(files'[q])
    BY <1>1, <2>1, <2>3
  <2> QED BY <1>0, <2>1, <2>4, <2>5 DEF CeremonyInv
<1>4. ASSUME NEW d \in writing, writeDepositToFile(d)
      PROVE  CeremonyInv'
  <2>1. /\ files' = [files EXCEPT ![d.pubkey] = {<<d>>}] /\ writing' = writing \ {d}
        /\ genesis' = genesis /\ chain' = chain
    BY <1>4 DEF writeDepositToFile
  <2>2. FileRight({<<d>>})
    BY <1>0
  <2>3. \A e \in writing' : FileRight({<<e>>})
    BY <1>0, <2>1
  <2>4. /\ files' \in [DepositKeys -> {files'[q] : q \in DepositKeys}]
        /\ \A q \in DepositKeys : FileRight(files'[q])
    BY <1>1, <2>1, <2>2
  <2> QED BY <1>0, <2>1, <2>3, <2>4 DEF CeremonyInv
<1>5. ASSUME NEW d \in writing, Interrupt(d)
      PROVE  CeremonyInv'
  <2>1. files' = files /\ writing' = writing \ {d} /\ genesis' = genesis /\ chain' = chain
    BY <1>5 DEF Interrupt
  <2>2. \A e \in writing' : FileRight({<<e>>})
    BY <1>0, <2>1
  <2> QED BY <1>0, <2>1, <2>2 DEF CeremonyInv
<1>6. CASE CollectGenesisDeposits
  <2>1. files' = files /\ writing' = writing /\ chain' = chain /\ chain = {}
    BY <1>6 DEF CollectGenesisDeposits
  <2>2. /\ genesis'.deposits \in Seq(ToSet(genesis'.deposits)) /\ DepositsRight(genesis'.deposits)
        /\ genesis' = [version |-> "deneb", deposits |-> genesis'.deposits, header |-> genesis'.header]
        /\ genesis'.header = genesis.header
    BY <1>6, CollectKeeps
  <2> QED BY <1>0, <2>1, <2>2 DEF CeremonyInv
<1>7. ASSUME NEW extra \in ExtraLengths, AddExecutionPayload(extra)
      PROVE  CeremonyInv'
  <2> DEFINE h == executableDataToExecutionPayloadHeader(extra)
             g == genesis.deposits
  <2>1. /\ files' = files /\ writing' = writing /\ chain' = chain /\ chain = {}
        /\ genesis' = [genesis EXCEPT !.header = h]
    BY <1>7 DEF AddExecutionPayload
  <2>2. h.extra <= ExtraDataLength
    BY GenesisAssumption DEF executableDataToExecutionPayloadHeader, ExtraDataLength
  <2> HIDE DEF h, g
  <2>3. genesis = [version |-> "deneb", deposits |-> g, header |-> genesis.header]
    BY <1>0 DEF g
  <2>4. genesis' = [version |-> "deneb", deposits |-> g, header |-> h]
    BY <2>1, <2>3
  <2>5. genesis'.deposits = genesis.deposits /\ genesis'.header = h
        /\ genesis' = [version |-> "deneb", deposits |-> genesis'.deposits, header |-> genesis'.header]
    BY <2>4 DEF g
  <2> QED BY <1>0, <2>1, <2>2, <2>5 DEF CeremonyInv
<1>8. CASE InitGenesis
  <2>1. /\ files' = files /\ writing' = writing /\ genesis' = genesis
        /\ chain' = {ProcessGenesisData(genesis)}
    BY <1>8 DEF InitGenesis
  <2>2. \A st \in chain' : st = ProcessGenesisData(genesis)
    BY <2>1
  <2> QED BY <1>0, <2>1, <2>2 DEF CeremonyInv
<1> QED BY <1>2, <1>3, <1>4, <1>5, <1>6, <1>7, <1>8 DEF GenesisNext

\* Whatever files, amounts and extra data there are, however many deposits were
\* collected and however often, a genesis file that the commands have written makes
\* a state: one validator per collected key with what was deposited for it, up to
\* the cap, and a root under which the signatures of the ceremony create no further
\* validator (collect.go, state_processor_genesis.go:40-170).
THEOREM GenesisFollows == GenesisSpec => []GenesisFollowsFiles
<1>1. CeremonyInv => GenesisFollowsFiles
  <2> SUFFICES ASSUME CeremonyInv, NEW st \in chain PROVE Follows(st, genesis.deposits)
    BY DEF GenesisFollowsFiles, Follows
  <2>1. st = InitializePreminedBeaconStateFromEth1(genesis.deposits, genesis.header)
    BY DEF CeremonyInv, ProcessGenesisData
  <2> QED BY <2>1, GenesisRight DEF CeremonyInv
<1>2. CeremonyInv /\ [GenesisNext]_genesisVars => CeremonyInv'
  BY CeremonyStep
<1> QED BY <1>1, <1>2, CeremonyInit, PTL DEF GenesisSpec

-----------------------------------------------------------------------------
(* Merkle trees.                                                           *)

\* The zero hashes up to n.
IsZeros(f, n) ==
    f = [i \in 0 .. n |-> IF i = 0 THEN Chunk(0) ELSE Hash(f[i - 1], f[i - 1])]
Zeros(n) == CHOOSE f : IsZeros(f, n)

LEMMA ZerosExist ==
    ASSUME NEW n \in Nat
    PROVE  \E f : IsZeros(f, n)
<1> DEFINE P(m) == \E f : IsZeros(f, m)
<1>1. P(0)
  <2> DEFINE f == [i \in 0 .. 0 |-> Chunk(0)]
  <2>1. f = [i \in 0 .. 0 |-> IF i = 0 THEN Chunk(0) ELSE Hash(f[i - 1], f[i - 1])]
    OBVIOUS
  <2> HIDE DEF f
  <2>2. IsZeros(f, 0)
    BY <2>1 DEF IsZeros
  <2> QED BY <2>2
<1>2. ASSUME NEW m \in Nat, P(m) PROVE P(m + 1)
  <2>1. PICK f : IsZeros(f, m)
    BY <1>2
  <2> DEFINE x == Hash(f[m], f[m])
             g == [i \in 0 .. m + 1 |-> IF i = m + 1 THEN x ELSE f[i]]
  <2>2. \A i \in 0 .. m : f[i] = IF i = 0 THEN Chunk(0) ELSE Hash(f[i - 1], f[i - 1])
    BY <2>1 DEF IsZeros
  <2>3. \A i \in 0 .. m : i \in 0 .. m + 1 /\ g[i] = f[i]
    OBVIOUS
  <2>4. ASSUME NEW i \in 0 .. m + 1
        PROVE  g[i] = IF i = 0 THEN Chunk(0) ELSE Hash(g[i - 1], g[i - 1])
    <3>1. CASE i = m + 1
      <4>1. i - 1 = m /\ g[i - 1] = f[m] /\ i # 0
        BY <2>3, <3>1
      <4>2. g[i] = x
        BY <3>1
      <4> HIDE DEF g
      <4> QED BY <3>1, <4>1, <4>2
    <3>2. CASE i \in 0 .. m
      <4>1. g[i] = f[i] /\ (i # 0 => i - 1 \in 0 .. m /\ g[i - 1] = f[i - 1])
        BY <2>3, <3>2
      <4> HIDE DEF g
      <4> QED BY <2>2, <3>2, <4>1
    <3> QED BY <3>1, <3>2
  <2>5. g = [i \in 0 .. m + 1 |-> g[i]]
    OBVIOUS
  <2> HIDE DEF g
  <2>6. IsZeros(g, m + 1)
    BY <2>4, <2>5 DEF IsZeros
  <2> QED BY <2>6
<1> HIDE DEF P
<1>3. P(n)
  <2> DEFINE N == {j \in Nat : P(j)}
  <2>1. 0 \in N
    BY <1>1
  <2>2. \A i \in Nat : i \in N => i + 1 \in N
    BY <1>2
  <2> HIDE DEF N
  <2>3. \A i \in Nat : i \in N
    BY <2>1, <2>2, InductionOverNat
  <2> QED BY <2>3 DEF N
<1> QED BY <1>3 DEF P

LEMMA ZerosSteps ==
    ASSUME NEW n \in Nat
    PROVE  LET f == Zeros(n)
           IN /\ f = [i \in 0 .. n |-> f[i]] /\ f[0] = Chunk(0)
              /\ \A i \in 0 .. n - 1 : f[i + 1] = Hash(f[i], f[i])
<1> DEFINE f == Zeros(n)
<1>1. IsZeros(f, n)
  BY ZerosExist DEF Zeros
<1> HIDE DEF f
<1>2. f = [i \in 0 .. n |-> f[i]]
  BY <1>1 DEF IsZeros
<1>3. f[0] = Chunk(0)
  BY <1>1 DEF IsZeros
<1>4. ASSUME NEW i \in 0 .. n - 1 PROVE f[i + 1] = Hash(f[i], f[i])
  <2> DEFINE j == i + 1
  <2>1. j \in 0 .. n /\ j # 0 /\ j - 1 = i
    OBVIOUS
  <2>2. f[j] = IF j = 0 THEN Chunk(0) ELSE Hash(f[j - 1], f[j - 1])
    BY <1>1, <2>1 DEF IsZeros
  <2> QED BY <2>1, <2>2
<1> QED BY <1>2, <1>3, <1>4 DEF f

\* A layer of even length is hashed pair by pair.
LEMMA ParentsOfPairs ==
    ASSUME NEW s, NEW h \in Nat, Len(s) = 2 * h
    PROVE  BuildParentTreeRoots(s) = [i \in 1 .. h |-> Hash(s[2 * i - 1], s[2 * i])]
<1>1. Len(s) \in Nat /\ Len(s) \div 2 = h
  OBVIOUS
<1>2. ParentsWritten(Len(s), Goroutines) = 0 .. (h - 1)
  BY <1>1, HostAssumption, WrittenOnSmallHosts
<1>3. \A i \in 1 .. h : i - 1 \in ParentsWritten(Len(s), Goroutines)
  BY <1>2
<1> QED BY <1>1, <1>3 DEF BuildParentTreeRoots

\* The layer above a layer.
LayerAbove(s, d) == BuildParentTreeRoots(Even(s, d - 1))

\* The layers over leaves up to n.
IsLayersTo(f, leaves, n) ==
    f = [i \in 0 .. n |-> IF i = 0 THEN leaves ELSE LayerAbove(f[i - 1], i)]
LayersTo(leaves, n) == CHOOSE f : IsLayersTo(f, leaves, n)

LEMMA LayersToExist ==
    ASSUME NEW leaves, NEW n \in Nat
    PROVE  \E f : IsLayersTo(f, leaves, n)
<1> DEFINE P(m) == \E f : IsLayersTo(f, leaves, m)
<1>1. P(0)
  <2> DEFINE f == [i \in 0 .. 0 |-> leaves]
  <2>1. f = [i \in 0 .. 0 |-> IF i = 0 THEN leaves ELSE LayerAbove(f[i - 1], i)]
    OBVIOUS
  <2> HIDE DEF f
  <2>2. IsLayersTo(f, leaves, 0)
    BY <2>1 DEF IsLayersTo
  <2> QED BY <2>2
<1>2. ASSUME NEW m \in Nat, P(m) PROVE P(m + 1)
  <2>1. PICK f : IsLayersTo(f, leaves, m)
    BY <1>2
  <2> DEFINE x == LayerAbove(f[m], m + 1)
             g == [i \in 0 .. m + 1 |-> IF i = m + 1 THEN x ELSE f[i]]
  <2>2. \A i \in 0 .. m : f[i] = IF i = 0 THEN leaves ELSE LayerAbove(f[i - 1], i)
    BY <2>1 DEF IsLayersTo
  <2>3. \A i \in 0 .. m : i \in 0 .. m + 1 /\ g[i] = f[i]
    OBVIOUS
  <2>4. ASSUME NEW i \in 0 .. m + 1
        PROVE  g[i] = IF i = 0 THEN leaves ELSE LayerAbove(g[i - 1], i)
    <3>1. CASE i = m + 1
      <4>1. i - 1 = m /\ g[i - 1] = f[m] /\ i # 0
        BY <2>3, <3>1
      <4>2. g[i] = x
        BY <3>1
      <4> HIDE DEF g
      <4> QED BY <3>1, <4>1, <4>2
    <3>2. CASE i \in 0 .. m
      <4>1. g[i] = f[i] /\ (i # 0 => i - 1 \in 0 .. m /\ g[i - 1] = f[i - 1])
        BY <2>3, <3>2
      <4> HIDE DEF g
      <4> QED BY <2>2, <3>2, <4>1
    <3> QED BY <3>1, <3>2
  <2>5. g = [i \in 0 .. m + 1 |-> g[i]]
    OBVIOUS
  <2> HIDE DEF g
  <2>6. IsLayersTo(g, leaves, m + 1)
    BY <2>4, <2>5 DEF IsLayersTo
  <2> QED BY <2>6
<1> HIDE DEF P
<1>3. P(n)
  <2> DEFINE N == {j \in Nat : P(j)}
  <2>1. 0 \in N
    BY <1>1
  <2>2. \A i \in Nat : i \in N => i + 1 \in N
    BY <1>2
  <2> HIDE DEF N
  <2>3. \A i \in Nat : i \in N
    BY <2>1, <2>2, InductionOverNat
  <2> QED BY <2>3 DEF N
<1> QED BY <1>3 DEF P

LEMMA LayersToSteps ==
    ASSUME NEW leaves, NEW n \in Nat
    PROVE  LET f == LayersTo(leaves, n)
           IN /\ f = [i \in 0 .. n |-> f[i]] /\ f[0] = leaves
              /\ \A i \in 0 .. n - 1 : f[i + 1] = LayerAbove(f[i], i + 1)
<1> DEFINE f == LayersTo(leaves, n)
<1>1. IsLayersTo(f, leaves, n)
  BY LayersToExist DEF LayersTo
<1> HIDE DEF f
<1>2. f = [i \in 0 .. n |-> f[i]]
  BY <1>1 DEF IsLayersTo
<1>3. f[0] = leaves
  BY <1>1 DEF IsLayersTo
<1>4. ASSUME NEW i \in 0 .. n - 1 PROVE f[i + 1] = LayerAbove(f[i], i + 1)
  <2> DEFINE j == i + 1
  <2>1. j \in 0 .. n /\ j # 0 /\ j - 1 = i
    OBVIOUS
  <2>2. f[j] = IF j = 0 THEN leaves ELSE LayerAbove(f[j - 1], j)
    BY <1>1, <2>1 DEF IsLayersTo
  <2> QED BY <2>1, <2>2
<1> QED BY <1>2, <1>3, <1>4 DEF f

\* The reference: the nodes over the leaves, and over any nodes.
NodesOf(leaves) == [i \in Nat |-> IF i < Len(leaves) THEN leaves[i + 1] ELSE Chunk(0)]
NodesAbove(nodes) == [i \in Nat |-> Hash(nodes[2 * i], nodes[2 * i + 1])]

\* The nodes of the reference up to n.
IsNodesTo(f, leaves, n) ==
    f = [i \in 0 .. n |-> IF i = 0 THEN NodesOf(leaves) ELSE NodesAbove(f[i - 1])]
NodesTo(leaves, n) == CHOOSE f : IsNodesTo(f, leaves, n)

LEMMA NodesToExist ==
    ASSUME NEW leaves, NEW n \in Nat
    PROVE  \E f : IsNodesTo(f, leaves, n)
<1> DEFINE P(m) == \E f : IsNodesTo(f, leaves, m)
<1>1. P(0)
  <2> DEFINE f == [i \in 0 .. 0 |-> NodesOf(leaves)]
  <2>1. f = [i \in 0 .. 0 |-> IF i = 0 THEN NodesOf(leaves) ELSE NodesAbove(f[i - 1])]
    OBVIOUS
  <2> HIDE DEF f
  <2>2. IsNodesTo(f, leaves, 0)
    BY <2>1 DEF IsNodesTo
  <2> QED BY <2>2
<1>2. ASSUME NEW m \in Nat, P(m) PROVE P(m + 1)
  <2>1. PICK f : IsNodesTo(f, leaves, m)
    BY <1>2
  <2> DEFINE x == NodesAbove(f[m])
             g == [i \in 0 .. m + 1 |-> IF i = m + 1 THEN x ELSE f[i]]
  <2>2. \A i \in 0 .. m : f[i] = IF i = 0 THEN NodesOf(leaves) ELSE NodesAbove(f[i - 1])
    BY <2>1 DEF IsNodesTo
  <2>3. \A i \in 0 .. m : i \in 0 .. m + 1 /\ g[i] = f[i]
    OBVIOUS
  <2>4. ASSUME NEW i \in 0 .. m + 1
        PROVE  g[i] = IF i = 0 THEN NodesOf(leaves) ELSE NodesAbove(g[i - 1])
    <3>1. CASE i = m + 1
      <4>1. i - 1 = m /\ g[i - 1] = f[m] /\ i # 0
        BY <2>3, <3>1
      <4>2. g[i] = x
        BY <3>1
      <4> HIDE DEF g
      <4> QED BY <3>1, <4>1, <4>2
    <3>2. CASE i \in 0 .. m
      <4>1. g[i] = f[i] /\ (i # 0 => i - 1 \in 0 .. m /\ g[i - 1] = f[i - 1])
        BY <2>3, <3>2
      <4> HIDE DEF g
      <4> QED BY <2>2, <3>2, <4>1
    <3> QED BY <3>1, <3>2
  <2>5. g = [i \in 0 .. m + 1 |-> g[i]]
    OBVIOUS
  <2> HIDE DEF g
  <2>6. IsNodesTo(g, leaves, m + 1)
    BY <2>4, <2>5 DEF IsNodesTo
  <2> QED BY <2>6
<1> HIDE DEF P
<1>3. P(n)
  <2> DEFINE N == {j \in Nat : P(j)}
  <2>1. 0 \in N
    BY <1>1
  <2>2. \A i \in Nat : i \in N => i + 1 \in N
    BY <1>2
  <2> HIDE DEF N
  <2>3. \A i \in Nat : i \in N
    BY <2>1, <2>2, InductionOverNat
  <2> QED BY <2>3 DEF N
<1> QED BY <1>3 DEF P

LEMMA NodesToSteps ==
    ASSUME NEW leaves, NEW n \in Nat
    PROVE  LET f == NodesTo(leaves, n)
           IN /\ f = [i \in 0 .. n |-> f[i]] /\ f[0] = NodesOf(leaves)
              /\ \A i \in 0 .. n - 1 : f[i + 1] = NodesAbove(f[i])
<1> DEFINE f == NodesTo(leaves, n)
<1>1. IsNodesTo(f, leaves, n)
  BY NodesToExist DEF NodesTo
<1> HIDE DEF f
<1>2. f = [i \in 0 .. n |-> f[i]]
  BY <1>1 DEF IsNodesTo
<1>3. f[0] = NodesOf(leaves)
  BY <1>1 DEF IsNodesTo
<1>4. ASSUME NEW i \in 0 .. n - 1 PROVE f[i + 1] = NodesAbove(f[i])
  <2> DEFINE j == i + 1
  <2>1. j \in 0 .. n /\ j # 0 /\ j - 1 = i
    OBVIOUS
  <2>2. f[j] = IF j = 0 THEN NodesOf(leaves) ELSE NodesAbove(f[j - 1])
    BY <1>1, <2>1 DEF IsNodesTo
  <2> QED BY <2>1, <2>2
<1> QED BY <1>2, <1>3, <1>4 DEF f

\* What Insert begins with.
InsertLeafLevel(m, item, index) ==
    [at |-> index, node |-> item,
     layer |-> PutAt(FilledTo(m.branches[0], index), index, item)]

\* The rounds of Insert up to n.
IsInsertTo(f, m, item, index, n) ==
    f = [i \in 0 .. n |-> IF i = 0 THEN InsertLeafLevel(m, item, index) ELSE InsertLevel(m, f[i - 1], i)]
InsertTo(m, item, index, n) == CHOOSE f : IsInsertTo(f, m, item, index, n)

LEMMA InsertToExist ==
    ASSUME NEW m, NEW item, NEW index, NEW n \in Nat
    PROVE  \E f : IsInsertTo(f, m, item, index, n)
<1> DEFINE P(k) == \E f : IsInsertTo(f, m, item, index, k)
<1>1. P(0)
  <2> DEFINE f == [i \in 0 .. 0 |-> InsertLeafLevel(m, item, index)]
  <2>1. f = [i \in 0 .. 0 |-> IF i = 0 THEN InsertLeafLevel(m, item, index) ELSE InsertLevel(m, f[i - 1], i)]
    OBVIOUS
  <2> HIDE DEF f
  <2>2. IsInsertTo(f, m, item, index, 0)
    BY <2>1 DEF IsInsertTo
  <2> QED BY <2>2
<1>2. ASSUME NEW k \in Nat, P(k) PROVE P(k + 1)
  <2>1. PICK f : IsInsertTo(f, m, item, index, k)
    BY <1>2
  <2> DEFINE x == InsertLevel(m, f[k], k + 1)
             g == [i \in 0 .. k + 1 |-> IF i = k + 1 THEN x ELSE f[i]]
  <2>2. \A i \in 0 .. k : f[i] = IF i = 0 THEN InsertLeafLevel(m, item, index) ELSE InsertLevel(m, f[i - 1], i)
    BY <2>1 DEF IsInsertTo
  <2>3. \A i \in 0 .. k : i \in 0 .. k + 1 /\ g[i] = f[i]
    OBVIOUS
  <2>4. ASSUME NEW i \in 0 .. k + 1
        PROVE  g[i] = IF i = 0 THEN InsertLeafLevel(m, item, index) ELSE InsertLevel(m, g[i - 1], i)
    <3>1. CASE i = k + 1
      <4>1. i - 1 = k /\ g[i - 1] = f[k] /\ i # 0
        BY <2>3, <3>1
      <4>2. g[i] = x
        BY <3>1
      <4> HIDE DEF g
      <4> QED BY <3>1, <4>1, <4>2
    <3>2. CASE i \in 0 .. k
      <4>1. g[i] = f[i] /\ (i # 0 => i - 1 \in 0 .. k /\ g[i - 1] = f[i - 1])
        BY <2>3, <3>2
      <4> HIDE DEF g
      <4> QED BY <2>2, <3>2, <4>1
    <3> QED BY <3>1, <3>2
  <2>5. g = [i \in 0 .. k + 1 |-> g[i]]
    OBVIOUS
  <2> HIDE DEF g
  <2>6. IsInsertTo(g, m, item, index, k + 1)
    BY <2>4, <2>5 DEF IsInsertTo
  <2> QED BY <2>6
<1> HIDE DEF P
<1>3. P(n)
  <2> DEFINE N == {j \in Nat : P(j)}
  <2>1. 0 \in N
    BY <1>1
  <2>2. \A i \in Nat : i \in N => i + 1 \in N
    BY <1>2
  <2> HIDE DEF N
  <2>3. \A i \in Nat : i \in N
    BY <2>1, <2>2, InductionOverNat
  <2> QED BY <2>3 DEF N
<1> QED BY <1>3 DEF P

LEMMA InsertToSteps ==
    ASSUME NEW m, NEW item, NEW index, NEW n \in Nat
    PROVE  LET f == InsertTo(m, item, index, n)
           IN /\ f = [i \in 0 .. n |-> f[i]] /\ f[0] = InsertLeafLevel(m, item, index)
              /\ \A i \in 0 .. n - 1 : f[i + 1] = InsertLevel(m, f[i], i + 1)
<1> DEFINE f == InsertTo(m, item, index, n)
<1>1. IsInsertTo(f, m, item, index, n)
  BY InsertToExist DEF InsertTo
<1> HIDE DEF f
<1>2. f = [i \in 0 .. n |-> f[i]]
  BY <1>1 DEF IsInsertTo
<1>3. f[0] = InsertLeafLevel(m, item, index)
  BY <1>1 DEF IsInsertTo
<1>4. ASSUME NEW i \in 0 .. n - 1 PROVE f[i + 1] = InsertLevel(m, f[i], i + 1)
  <2> DEFINE j == i + 1
  <2>1. j \in 0 .. n /\ j # 0 /\ j - 1 = i
    OBVIOUS
  <2>2. f[j] = IF j = 0 THEN InsertLeafLevel(m, item, index) ELSE InsertLevel(m, f[j - 1], j)
    BY <1>1, <2>1 DEF IsInsertTo
  <2> QED BY <2>1, <2>2
<1> QED BY <1>2, <1>3, <1>4 DEF f

\* A node and its neighbor in the branch.
JoinedWith(branch, index, node, d) ==
    IF IndexBit(index, d - 1) THEN Hash(branch[d], node) ELSE Hash(node, branch[d])

\* The walk up a branch.
IsPathTo(f, leaf, branch, index, n) ==
    f = [i \in 0 .. n |-> IF i = 0 THEN leaf ELSE JoinedWith(branch, index, f[i - 1], i)]
PathTo(leaf, branch, index, n) == CHOOSE f : IsPathTo(f, leaf, branch, index, n)

LEMMA PathToExist ==
    ASSUME NEW leaf, NEW branch, NEW index, NEW n \in Nat
    PROVE  \E f : IsPathTo(f, leaf, branch, index, n)
<1> DEFINE P(m) == \E f : IsPathTo(f, leaf, branch, index, m)
<1>1. P(0)
  <2> DEFINE f == [i \in 0 .. 0 |-> leaf]
  <2>1. f = [i \in 0 .. 0 |-> IF i = 0 THEN leaf ELSE JoinedWith(branch, index, f[i - 1], i)]
    OBVIOUS
  <2> HIDE DEF f
  <2>2. IsPathTo(f, leaf, branch, index, 0)
    BY <2>1 DEF IsPathTo
  <2> QED BY <2>2
<1>2. ASSUME NEW m \in Nat, P(m) PROVE P(m + 1)
  <2>1. PICK f : IsPathTo(f, leaf, branch, index, m)
    BY <1>2
  <2> DEFINE x == JoinedWith(branch, index, f[m], m + 1)
             g == [i \in 0 .. m + 1 |-> IF i = m + 1 THEN x ELSE f[i]]
  <2>2. \A i \in 0 .. m : f[i] = IF i = 0 THEN leaf ELSE JoinedWith(branch, index, f[i - 1], i)
    BY <2>1 DEF IsPathTo
  <2>3. \A i \in 0 .. m : i \in 0 .. m + 1 /\ g[i] = f[i]
    OBVIOUS
  <2>4. ASSUME NEW i \in 0 .. m + 1
        PROVE  g[i] = IF i = 0 THEN leaf ELSE JoinedWith(branch, index, g[i - 1], i)
    <3>1. CASE i = m + 1
      <4>1. i - 1 = m /\ g[i - 1] = f[m] /\ i # 0
        BY <2>3, <3>1
      <4>2. g[i] = x
        BY <3>1
      <4> HIDE DEF g
      <4> QED BY <3>1, <4>1, <4>2
    <3>2. CASE i \in 0 .. m
      <4>1. g[i] = f[i] /\ (i # 0 => i - 1 \in 0 .. m /\ g[i - 1] = f[i - 1])
        BY <2>3, <3>2
      <4> HIDE DEF g
      <4> QED BY <2>2, <3>2, <4>1
    <3> QED BY <3>1, <3>2
  <2>5. g = [i \in 0 .. m + 1 |-> g[i]]
    OBVIOUS
  <2> HIDE DEF g
  <2>6. IsPathTo(g, leaf, branch, index, m + 1)
    BY <2>4, <2>5 DEF IsPathTo
  <2> QED BY <2>6
<1> HIDE DEF P
<1>3. P(n)
  <2> DEFINE N == {j \in Nat : P(j)}
  <2>1. 0 \in N
    BY <1>1
  <2>2. \A i \in Nat : i \in N => i + 1 \in N
    BY <1>2
  <2> HIDE DEF N
  <2>3. \A i \in Nat : i \in N
    BY <2>1, <2>2, InductionOverNat
  <2> QED BY <2>3 DEF N
<1> QED BY <1>3 DEF P

LEMMA PathToSteps ==
    ASSUME NEW leaf, NEW branch, NEW index, NEW n \in Nat
    PROVE  LET f == PathTo(leaf, branch, index, n)
           IN /\ f = [i \in 0 .. n |-> f[i]] /\ f[0] = leaf
              /\ \A i \in 0 .. n - 1 : f[i + 1] = JoinedWith(branch, index, f[i], i + 1)
<1> DEFINE f == PathTo(leaf, branch, index, n)
<1>1. IsPathTo(f, leaf, branch, index, n)
  BY PathToExist DEF PathTo
<1> HIDE DEF f
<1>2. f = [i \in 0 .. n |-> f[i]]
  BY <1>1 DEF IsPathTo
<1>3. f[0] = leaf
  BY <1>1 DEF IsPathTo
<1>4. ASSUME NEW i \in 0 .. n - 1 PROVE f[i + 1] = JoinedWith(branch, index, f[i], i + 1)
  <2> DEFINE j == i + 1
  <2>1. j \in 0 .. n /\ j # 0 /\ j - 1 = i
    OBVIOUS
  <2>2. f[j] = IF j = 0 THEN leaf ELSE JoinedWith(branch, index, f[j - 1], j)
    BY <1>1, <2>1 DEF IsPathTo
  <2> QED BY <2>1, <2>2
<1> QED BY <1>2, <1>3, <1>4 DEF f

LEMMA HashBinds ==
    ASSUME NEW a, NEW b, NEW c, NEW d, Hash(a, b) = Hash(c, d)
    PROVE  a = c /\ b = d
BY DEF Hash

LEMMA ZeroHashes ==
    /\ zeroHashes[0] = Chunk(0)
    /\ \A d \in 0 .. NumZeroHashes - 1 : zeroHashes[d + 1] = Hash(zeroHashes[d], zeroHashes[d])
<1>1. zeroHashes = Zeros(NumZeroHashes)
  BY DEF zeroHashes, Zeros, IsZeros
<1>2. NumZeroHashes \in Nat
  BY DEF NumZeroHashes
<1> QED BY <1>1, <1>2, ZerosSteps

LEMMA LayersSteps ==
    ASSUME NEW leaves, NEW n \in Nat
    PROVE  LET f == Layers(leaves, n)
           IN /\ f = [i \in 0 .. n |-> f[i]] /\ f[0] = leaves
              /\ \A i \in 0 .. n - 1 : f[i + 1] = LayerAbove(f[i], i + 1)
<1>1. Layers(leaves, n) = LayersTo(leaves, n)
  BY DEF Layers, LayersTo, IsLayersTo, LayerAbove
<1> QED BY <1>1, LayersToSteps

LEMMA ReferenceSteps ==
    ASSUME NEW leaves, NEW n \in Nat
    PROVE  LET f == ReferenceNodes(leaves, n)
           IN /\ f[0] = NodesOf(leaves)
              /\ \A i \in 0 .. n - 1 : f[i + 1] = NodesAbove(f[i])
<1>1. ReferenceNodes(leaves, n) = NodesTo(leaves, n)
  BY DEF ReferenceNodes, NodesTo, IsNodesTo, NodesOf, NodesAbove
<1> QED BY <1>1, NodesToSteps

\* A layer that holds the first of the nodes of its height, the rest being zero.
LayerOf(s, d, nodes) == IsSequence(s) /\ \A i \in Nat : NodeAt(s, i, d) = nodes[i]

LEMMA LeavesLayer ==
    ASSUME NEW leaves, IsSequence(leaves)
    PROVE  LayerOf(leaves, 0, NodesOf(leaves))
BY ZeroHashes DEF LayerOf, NodeAt, NodesOf

LEMMA SequenceLen ==
    ASSUME NEW s, IsSequence(s)
    PROVE  /\ Len(s) \in Nat /\ DOMAIN s = 1 .. Len(s)
           /\ s = [l \in 1 .. Len(s) |-> s[l]]
BY DEF IsSequence

LEMMA AppendedSequence ==
    ASSUME NEW s, IsSequence(s), NEW x
    PROVE  /\ IsSequence(Append(s, x)) /\ Len(Append(s, x)) = Len(s) + 1
           /\ Append(s, x)[Len(s) + 1] = x /\ \A l \in 1 .. Len(s) : Append(s, x)[l] = s[l]
<1> DEFINE V == {s[l] : l \in 1 .. Len(s)}
           W == V \cup {x}
           t == Append(s, x)
<1>1. s \in Seq(V) /\ V \subseteq W /\ x \in W
  BY DEF IsSequence
<1> HIDE DEF V, W
<1>2. s \in Seq(W)
  BY <1>1
<1>3. /\ t \in Seq(W) /\ Len(s) \in Nat /\ Len(t) = Len(s) + 1 /\ t[Len(s) + 1] = x
      /\ \A l \in 1 .. Len(s) : t[l] = s[l]
  BY <1>1, <1>2
<1> HIDE DEF t
<1>4. IsSequence(t)
  BY <1>3, SequenceOf
<1> QED BY <1>3, <1>4 DEF t

LEMMA ReplacedSequence ==
    ASSUME NEW s, IsSequence(s), NEW n \in 1 .. Len(s), NEW x
    PROVE  LET t == [s EXCEPT ![n] = x]
           IN IsSequence(t) /\ Len(t) = Len(s) /\ \A l \in 1 .. Len(s) : t[l] = IF l = n THEN x ELSE s[l]
<1> DEFINE V == {s[l] : l \in 1 .. Len(s)}
           W == V \cup {x}
           t == [s EXCEPT ![n] = x]
<1>1. s \in Seq(V) /\ V \subseteq W /\ x \in W
  BY DEF IsSequence
<1> HIDE DEF V, W
<1>2. s \in Seq(W)
  BY <1>1
<1>3. t \in Seq(W) /\ Len(t) = Len(s) /\ \A l \in 1 .. Len(s) : t[l] = IF l = n THEN x ELSE s[l]
  BY <1>1, <1>2
<1> HIDE DEF t
<1>4. IsSequence(t)
  BY <1>3, SequenceOf
<1> QED BY <1>3, <1>4 DEF t

LEMMA MadeSequence ==
    ASSUME NEW n \in Nat, NEW f, f = [l \in 1 .. n |-> f[l]]
    PROVE  IsSequence(f) /\ Len(f) = n
<1> DEFINE V == {f[l] : l \in 1 .. n}
<1>1. \A l \in 1 .. n : f[l] \in V
  OBVIOUS
<1> HIDE DEF V
<1>2. f \in [1 .. n -> V]
  BY <1>1
<1>3. f \in Seq(V) /\ Len(f) = n
  BY <1>2
<1> QED BY <1>3, SequenceOf

\* A put changes one node.
LEMMA PutNode ==
    ASSUME NEW s, IsSequence(s), NEW at \in Nat, at <= Len(s), NEW x, NEW d
    PROVE  LET t == PutAt(s, at, x)
           IN /\ IsSequence(t) /\ Len(t) = IF at = Len(s) THEN Len(s) + 1 ELSE Len(s)
              /\ \A i \in Nat : NodeAt(t, i, d) = IF i = at THEN x ELSE NodeAt(s, i, d)
<1> DEFINE t == PutAt(s, at, x)
<1>1. Len(s) \in Nat
  BY SequenceLen
<1>2. CASE at = Len(s)
  <2>1. t = Append(s, x)
    BY <1>1, <1>2 DEF PutAt
  <2>2. /\ IsSequence(t) /\ Len(t) = Len(s) + 1
        /\ t[Len(s) + 1] = x /\ \A l \in 1 .. Len(s) : t[l] = s[l]
    BY <2>1, AppendedSequence
  <2> HIDE DEF t
  <2>3. ASSUME NEW i \in Nat PROVE NodeAt(t, i, d) = IF i = at THEN x ELSE NodeAt(s, i, d)
    BY <1>1, <1>2, <2>2 DEF NodeAt
  <2> QED BY <1>2, <2>2, <2>3 DEF t
<1>3. CASE at < Len(s)
  <2> DEFINE k == at + 1
  <2>1. k \in 1 .. Len(s) /\ k - 1 = at
    BY <1>1, <1>3
  <2>2. t = [s EXCEPT ![k] = x]
    BY <1>1, <1>3 DEF PutAt
  <2> DEFINE u == [s EXCEPT ![k] = x]
  <2> HIDE DEF k
  <2>3. IsSequence(u) /\ Len(u) = Len(s) /\ \A l \in 1 .. Len(s) : u[l] = IF l = k THEN x ELSE s[l]
    BY <2>1, ReplacedSequence
  <2> HIDE DEF t, u
  <2>4. IsSequence(t) /\ Len(t) = Len(s) /\ \A l \in 1 .. Len(s) : t[l] = IF l = k THEN x ELSE s[l]
    BY <2>2, <2>3 DEF u
  <2> HIDE DEF t
  <2>5. ASSUME NEW i \in Nat PROVE NodeAt(t, i, d) = IF i = at THEN x ELSE NodeAt(s, i, d)
    BY <1>1, <1>3, <2>1, <2>4 DEF NodeAt, k
  <2> QED BY <1>1, <1>3, <2>4, <2>5 DEF t
<1> QED BY <1>1, <1>2, <1>3

\* The layer above holds the nodes above.
LEMMA AboveLayer ==
    ASSUME NEW s, NEW d \in 0 .. NumZeroHashes - 1, NEW nodes, LayerOf(s, d, nodes)
    PROVE  LET t == LayerAbove(s, d + 1)
           IN LayerOf(t, d + 1, NodesAbove(nodes)) /\ Len(t) = (Len(s) + 1) \div 2
<1> DEFINE e == Even(s, d)
           t == LayerAbove(s, d + 1)
           h == (Len(s) + 1) \div 2
           z == zeroHashes[d]
<1>0. IsSequence(s) /\ Len(s) \in Nat
  BY SequenceLen DEF LayerOf
<1>1. /\ Len(e) = 2 * h /\ h \in Nat /\ Len(s) <= 2 * h
      /\ \A l \in 1 .. 2 * h : e[l] = NodeAt(s, l - 1, d)
  <2>1. CASE Len(s) % 2 = 1
    <3>1. e = Append(s, z)
      BY <2>1 DEF Even
    <3>2. Len(e) = Len(s) + 1 /\ e[Len(s) + 1] = z /\ \A l \in 1 .. Len(s) : e[l] = s[l]
      BY <1>0, <3>1, AppendedSequence
    <3> HIDE DEF e
    <3>3. 2 * h = Len(s) + 1 /\ h \in Nat
      BY <1>0, <2>1
    <3> HIDE DEF h, z
    <3>4. ASSUME NEW l \in 1 .. Len(s) + 1 PROVE e[l] = NodeAt(s, l - 1, d)
      BY <1>0, <3>2 DEF NodeAt, z
    <3> QED BY <1>0, <3>2, <3>3, <3>4
  <2>2. CASE Len(s) % 2 = 0
    <3>1. e = s
      BY <2>2 DEF Even
    <3> HIDE DEF e
    <3>2. 2 * h = Len(s) /\ h \in Nat
      BY <1>0, <2>2
    <3> HIDE DEF h, z
    <3>3. ASSUME NEW l \in 1 .. Len(s) PROVE e[l] = NodeAt(s, l - 1, d)
      BY <1>0, <3>1 DEF NodeAt
    <3> QED BY <1>0, <3>1, <3>2, <3>3
  <2> QED BY <1>0, <2>1, <2>2
<1>2. t = BuildParentTreeRoots(e)
  BY DEF LayerAbove
<1> HIDE DEF e, h, t
<1>3. t = [i \in 1 .. h |-> Hash(e[2 * i - 1], e[2 * i])]
  <2>1. Len(e) = 2 * h /\ h \in Nat
    BY <1>1
  <2> QED BY <1>2, <2>1, ParentsOfPairs
<1>4. IsSequence(t) /\ Len(t) = h
  <2>1. t = [i \in 1 .. h |-> t[i]]
    BY <1>3
  <2> QED BY <1>1, <2>1, MadeSequence
<1>5. ASSUME NEW i \in Nat PROVE NodeAt(t, i, d + 1) = NodesAbove(nodes)[i]
  <2>1. NodesAbove(nodes)[i] = Hash(nodes[2 * i], nodes[2 * i + 1])
    BY DEF NodesAbove
  <2>2. nodes[2 * i] = NodeAt(s, 2 * i, d) /\ nodes[2 * i + 1] = NodeAt(s, 2 * i + 1, d)
    BY DEF LayerOf
  <2>3. CASE i < h
    <3> DEFINE k == i + 1
    <3>1. k \in 1 .. h /\ 2 * k - 1 \in 1 .. 2 * h /\ 2 * k \in 1 .. 2 * h
          /\ (2 * k - 1) - 1 = 2 * i /\ 2 * k - 1 = 2 * i + 1
      BY <1>1, <2>3
    <3>2. NodeAt(t, i, d + 1) = t[k]
      BY <1>4, <2>3 DEF NodeAt
    <3> HIDE DEF k
    <3>3. t[k] = Hash(e[2 * k - 1], e[2 * k])
      BY <1>3, <3>1
    <3>4. e[2 * k - 1] = NodeAt(s, 2 * i, d) /\ e[2 * k] = NodeAt(s, 2 * i + 1, d)
      BY <1>1, <3>1
    <3> QED BY <2>1, <2>2, <3>2, <3>3, <3>4
  <2>4. CASE ~(i < h)
    <3>1. ~(2 * i < Len(s)) /\ ~(2 * i + 1 < Len(s))
      BY <1>0, <1>1, <2>4
    <3>2. NodeAt(s, 2 * i, d) = z /\ NodeAt(s, 2 * i + 1, d) = z
      BY <3>1 DEF NodeAt
    <3>3. NodeAt(t, i, d + 1) = zeroHashes[d + 1]
      BY <1>4, <2>4 DEF NodeAt
    <3>4. zeroHashes[d + 1] = Hash(z, z)
      BY ZeroHashes
    <3> QED BY <2>1, <2>2, <3>2, <3>3, <3>4
  <2> QED BY <2>3, <2>4
<1> QED BY <1>4, <1>5 DEF LayerOf, t, h

LEMMA LayersHoldNodes ==
    ASSUME NEW leaves, IsSequence(leaves), NEW depth \in 0 .. NumZeroHashes
    PROVE  /\ \A d \in 0 .. depth : LayerOf(Layers(leaves, depth)[d], d, ReferenceNodes(leaves, depth)[d])
           /\ \A d \in 0 .. depth - 1 :
                 Len(Layers(leaves, depth)[d + 1]) = (Len(Layers(leaves, depth)[d]) + 1) \div 2
<1> DEFINE L == Layers(leaves, depth)
           R == ReferenceNodes(leaves, depth)
           P(d) == d <= depth => LayerOf(L[d], d, R[d])
<1>0. NumZeroHashes = 64 /\ depth \in Nat
  BY DEF NumZeroHashes
<1>1. L[0] = leaves /\ \A i \in 0 .. depth - 1 : L[i + 1] = LayerAbove(L[i], i + 1)
  BY <1>0, LayersSteps
<1>2. R[0] = NodesOf(leaves) /\ \A i \in 0 .. depth - 1 : R[i + 1] = NodesAbove(R[i])
  BY <1>0, ReferenceSteps
<1> HIDE DEF L, R
<1>3. P(0)
  BY <1>1, <1>2, LeavesLayer
<1>4. ASSUME NEW d \in 0 .. depth - 1, LayerOf(L[d], d, R[d])
      PROVE  LayerOf(L[d + 1], d + 1, R[d + 1]) /\ Len(L[d + 1]) = (Len(L[d]) + 1) \div 2
  <2>1. d \in 0 .. NumZeroHashes - 1
    BY <1>0
  <2>2. LayerOf(LayerAbove(L[d], d + 1), d + 1, NodesAbove(R[d]))
        /\ Len(LayerAbove(L[d], d + 1)) = (Len(L[d]) + 1) \div 2
    BY <1>4, <2>1, AboveLayer
  <2> QED BY <1>1, <1>2, <2>2
<1>5. ASSUME NEW d \in Nat, P(d) PROVE P(d + 1)
  <2>1. SUFFICES ASSUME d + 1 <= depth PROVE LayerOf(L[d + 1], d + 1, R[d + 1])
    OBVIOUS
  <2>2. d \in 0 .. depth - 1 /\ d <= depth
    BY <1>0, <2>1
  <2> QED BY <1>4, <1>5, <2>2
<1> HIDE DEF P
<1>6. \A d \in Nat : P(d)
  <2> DEFINE N == {j \in Nat : P(j)}
  <2>1. 0 \in N
    BY <1>3
  <2>2. \A i \in Nat : i \in N => i + 1 \in N
    BY <1>5
  <2> HIDE DEF N
  <2>3. \A i \in Nat : i \in N
    BY <2>1, <2>2, InductionOverNat
  <2> QED BY <2>3 DEF N
<1>7. \A d \in 0 .. depth : LayerOf(L[d], d, R[d])
  BY <1>0, <1>6 DEF P
<1>8. ASSUME NEW d \in 0 .. depth - 1 PROVE Len(L[d + 1]) = (Len(L[d]) + 1) \div 2
  <2>1. d \in 0 .. depth
    BY <1>0
  <2> QED BY <1>4, <1>7, <2>1
<1> QED BY <1>7, <1>8 DEF L, R

\* A tree of these leaves: every layer holds its nodes, and none is less than half
\* as long as the one below.
TreeOf(m, leaves) ==
    /\ m = [ok |-> TRUE, depth |-> m.depth, branches |-> m.branches, leaves |-> leaves]
    /\ m.depth \in 1 .. MaxTreeDepth
    /\ IsSequence(leaves) /\ leaves # <<>>
    /\ m.branches = [d \in 0 .. m.depth |-> m.branches[d]] /\ m.branches[0] = leaves
    /\ \A d \in 0 .. m.depth : LayerOf(m.branches[d], d, ReferenceNodes(leaves, m.depth)[d])
    /\ \A d \in 0 .. m.depth - 1 : Len(m.branches[d]) <= 2 * Len(m.branches[d + 1])

LEMMA NewTreeIsOfLeaves ==
    ASSUME NEW leaves, IsSequence(leaves), NEW depth \in Nat,
           NewTreeFromLeavesWithDepth(leaves, depth).ok
    PROVE  TreeOf(NewTreeFromLeavesWithDepth(leaves, depth), leaves)
<1> DEFINE L == Layers(leaves, depth)
           m == NewTreeFromLeavesWithDepth(leaves, depth)
<1>1. verifySufficientDepth(Len(leaves), depth)
  BY DEF NewTreeFromLeavesWithDepth, Error
<1>2. Len(leaves) \in Nat /\ Len(leaves) > 0 /\ depth \in 1 .. MaxTreeDepth /\ depth \in 0 .. NumZeroHashes
  <2>1. Len(leaves) > 0 /\ depth > 0 /\ depth <= MaxTreeDepth
    BY <1>1 DEF verifySufficientDepth
  <2>2. Len(leaves) \in Nat
    BY SequenceLen
  <2> QED BY <2>1, <2>2 DEF MaxTreeDepth, NumZeroHashes
<1>3. m = [ok |-> TRUE, depth |-> depth, branches |-> L, leaves |-> leaves]
  BY <1>1 DEF NewTreeFromLeavesWithDepth
<1>4. L = [i \in 0 .. depth |-> L[i]] /\ L[0] = leaves
  BY LayersSteps
<1>5. /\ \A d \in 0 .. depth : LayerOf(L[d], d, ReferenceNodes(leaves, depth)[d])
      /\ \A d \in 0 .. depth - 1 : Len(L[d + 1]) = (Len(L[d]) + 1) \div 2
  BY <1>2, LayersHoldNodes
<1>6. leaves # <<>>
  BY <1>2
<1> HIDE DEF L, m
<1>7. ASSUME NEW d \in 0 .. depth - 1 PROVE Len(L[d]) <= 2 * Len(L[d + 1])
  <2>1. d \in 0 .. depth
    OBVIOUS
  <2>2. Len(L[d]) \in Nat
    BY <1>5, <2>1, SequenceLen DEF LayerOf
  <2> DEFINE k == Len(L[d])
  <2>3. Len(L[d + 1]) = (k + 1) \div 2 /\ k \in Nat
    BY <1>5, <2>2
  <2> HIDE DEF k
  <2>4. k <= 2 * ((k + 1) \div 2)
    BY <2>3
  <2> QED BY <2>3, <2>4 DEF k
<1>8. m.depth = depth /\ m.branches = L
  BY <1>3
<1>9. TreeOf(m, leaves)
  BY <1>2, <1>3, <1>4, <1>5, <1>6, <1>7, <1>8 DEF TreeOf
<1> QED BY <1>9 DEF m

\* A round of Insert: the node on its way up is in its place, and no other
\* node of its height has changed.
RoundRight(c, s, nodes, old) ==
    /\ c.at \in Nat /\ c.at <= Len(s) /\ c.node = nodes[c.at] /\ c.layer = PutAt(s, c.at, c.node)
    /\ \A i \in Nat : i # c.at => nodes[i] = old[i]

LEMMA RoundLayer ==
    ASSUME NEW c, NEW s, NEW nodes, NEW old, NEW d, RoundRight(c, s, nodes, old), LayerOf(s, d, old)
    PROVE  /\ LayerOf(c.layer, d, nodes)
           /\ Len(c.layer) = IF c.at = Len(s) THEN Len(s) + 1 ELSE Len(s)
<1> DEFINE at == c.at
           x == c.node
           t == PutAt(s, at, x)
<1>0. IsSequence(s) /\ at \in Nat /\ at <= Len(s) /\ x = nodes[at] /\ c.layer = t
  BY DEF RoundRight, LayerOf
<1>4. \A i \in Nat : (i # at => nodes[i] = old[i]) /\ NodeAt(s, i, d) = old[i]
  BY DEF RoundRight, LayerOf
<1> HIDE DEF at, x
<1>1. /\ IsSequence(t) /\ Len(t) = IF at = Len(s) THEN Len(s) + 1 ELSE Len(s)
      /\ \A i \in Nat : NodeAt(t, i, d) = IF i = at THEN x ELSE NodeAt(s, i, d)
  BY <1>0, PutNode
<1> HIDE DEF t
<1>3. ASSUME NEW i \in Nat PROVE NodeAt(t, i, d) = nodes[i]
  BY <1>0, <1>1, <1>4
<1> QED BY <1>0, <1>1, <1>3 DEF LayerOf, at

LEMMA PutLength ==
    ASSUME NEW s, IsSequence(s), NEW at \in Nat, at <= Len(s), NEW x
    PROVE  Len(PutAt(s, at, x)) = IF at = Len(s) THEN Len(s) + 1 ELSE Len(s)
<1> DEFINE t == PutAt(s, at, x)
<1>1. /\ IsSequence(t) /\ Len(t) = IF at = Len(s) THEN Len(s) + 1 ELSE Len(s)
      /\ \A i \in Nat : NodeAt(t, i, 0) = IF i = at THEN x ELSE NodeAt(s, i, 0)
  BY PutNode
<1> QED BY <1>1

LEMMA NextRound ==
    ASSUME NEW m, NEW c, NEW s, NEW u, NEW nodes, NEW old, NEW d \in Nat,
           RoundRight(c, s, nodes, old), LayerOf(s, d, old), u = m.branches[d + 1], IsSequence(u),
           Len(s) <= 2 * Len(u)
    PROVE  LET e == InsertLevel(m, c, d + 1)
           IN /\ RoundRight(e, u, NodesAbove(nodes), NodesAbove(old))
              /\ Len(c.layer) <= 2 * Len(e.layer)
<1> DEFINE e == InsertLevel(m, c, d + 1)
           at == c.at \div 2
           n == NodeAt(c.layer, Sibling(c.at), d)
           h == IF c.at % 2 = 0 THEN Hash(c.node, n) ELSE Hash(n, c.node)
<1>1. Len(s) \in Nat /\ Len(u) \in Nat
  BY SequenceLen DEF LayerOf
<1>2. c.at \in Nat /\ c.at <= Len(s) /\ c.node = nodes[c.at]
  BY DEF RoundRight
<1>3. at \in Nat /\ at <= Len(u) /\ (c.at = Len(s) => Len(s) + 1 <= 2 * (at + 1))
      /\ (c.at % 2 = 0 => c.at = 2 * at) /\ (c.at % 2 = 1 => c.at = 2 * at + 1) /\ c.at % 2 \in {0, 1}
  BY <1>1, <1>2
<1>4. e = [at |-> at, node |-> h, layer |-> PutAt(u, at, h)]
  <2>1. (d + 1) - 1 = d
    OBVIOUS
  <2> QED BY <2>1 DEF InsertLevel
<1> HIDE DEF at
<1>5. LayerOf(c.layer, d, nodes) /\ Len(c.layer) = IF c.at = Len(s) THEN Len(s) + 1 ELSE Len(s)
  BY RoundLayer
<1>6. h = NodesAbove(nodes)[at]
  <2>1. NodesAbove(nodes)[at] = Hash(nodes[2 * at], nodes[2 * at + 1])
    BY <1>3 DEF NodesAbove
  <2>2. CASE c.at % 2 = 0
    <3>1. Sibling(c.at) = 2 * at + 1 /\ c.at = 2 * at
      BY <1>3, <2>2 DEF Sibling
    <3>2. 2 * at + 1 \in Nat
      BY <1>3
    <3>3. n = nodes[2 * at + 1]
      BY <1>5, <3>1, <3>2 DEF LayerOf
    <3> QED BY <1>2, <2>1, <2>2, <3>1, <3>3
  <2>3. CASE c.at % 2 = 1
    <3>1. Sibling(c.at) = 2 * at /\ c.at = 2 * at + 1
      BY <1>3, <2>3 DEF Sibling
    <3>2. 2 * at \in Nat
      BY <1>3
    <3>3. n = nodes[2 * at]
      BY <1>5, <3>1, <3>2 DEF LayerOf
    <3> QED BY <1>2, <2>1, <2>3, <3>1, <3>3
  <2> QED BY <1>3, <2>2, <2>3
<1> HIDE DEF h, e
<1>7. e.at = at /\ e.node = h /\ e.layer = PutAt(u, at, h)
  BY <1>4
<1>8. ASSUME NEW i \in Nat, i # at PROVE NodesAbove(nodes)[i] = NodesAbove(old)[i]
  <2>1. 2 * i \in Nat /\ 2 * i + 1 \in Nat /\ 2 * i # c.at /\ 2 * i + 1 # c.at
    BY <1>2, <1>3, <1>8
  <2>2. nodes[2 * i] = old[2 * i] /\ nodes[2 * i + 1] = old[2 * i + 1]
    BY <2>1 DEF RoundRight
  <2> QED BY <2>2 DEF NodesAbove
<1>9. RoundRight(e, u, NodesAbove(nodes), NodesAbove(old))
  BY <1>3, <1>6, <1>7, <1>8 DEF RoundRight
<1>10. Len(e.layer) = IF at = Len(u) THEN Len(u) + 1 ELSE Len(u)
  BY <1>3, <1>7, PutLength
<1>11. Len(c.layer) <= 2 * Len(e.layer)
  <2>1. CASE c.at = Len(s)
    BY <1>1, <1>3, <1>5, <1>10, <2>1
  <2>2. CASE c.at # Len(s)
    BY <1>1, <1>3, <1>5, <1>10, <2>2
  <2> QED BY <2>1, <2>2
<1> QED BY <1>9, <1>11 DEF e

\* Insert makes a tree of the leaves with the item among them.
LEMMA InsertIsOfLeaves ==
    ASSUME NEW m, NEW leaves, TreeOf(m, leaves), NEW item, NEW index \in Nat, index <= Len(leaves)
    PROVE  TreeOf(Insert(m, item, index), PutAt(leaves, index, item))
<1> DEFINE depth == m.depth
           B == m.branches
           next == PutAt(leaves, index, item)
           R == ReferenceNodes(leaves, depth)
           S == ReferenceNodes(next, depth)
           f == InsertTo(m, item, index, depth)
           C == [d \in 0 .. depth |-> f[d].layer]
           P(d) == d <= depth => RoundRight(f[d], B[d], S[d], R[d])
<1>0. /\ m = [ok |-> TRUE, depth |-> depth, branches |-> B, leaves |-> leaves]
      /\ depth \in 1 .. MaxTreeDepth
      /\ IsSequence(leaves) /\ leaves # <<>> /\ B[0] = leaves
      /\ \A d \in 0 .. depth : LayerOf(B[d], d, R[d])
      /\ \A d \in 0 .. depth - 1 : Len(B[d]) <= 2 * Len(B[d + 1])
  BY DEF TreeOf
<1>depth. depth \in Nat
  <2>1. depth \in 1 .. MaxTreeDepth
    BY <1>0
  <2> HIDE DEF depth, B, R, next, S, f
  <2> QED BY <2>1 DEF MaxTreeDepth
<1>filled. FilledTo(B[0], index) = B[0]
  BY <1>0 DEF FilledTo
<1>1. Insert(m, item, index) = [m EXCEPT !.branches = C, !.leaves = PutAt(@, index, item)]
  BY DEF Insert, InsertTo, IsInsertTo, InsertLeafLevel
<1>2. /\ f[0] = InsertLeafLevel(m, item, index)
      /\ \A i \in 0 .. depth - 1 : f[i + 1] = InsertLevel(m, f[i], i + 1)
  BY <1>0, <1>depth, InsertToSteps
<1>3. R[0] = NodesOf(leaves) /\ \A i \in 0 .. depth - 1 : R[i + 1] = NodesAbove(R[i])
  BY <1>0, <1>depth, ReferenceSteps
<1>4. S[0] = NodesOf(next) /\ \A i \in 0 .. depth - 1 : S[i + 1] = NodesAbove(S[i])
  BY <1>0, <1>depth, ReferenceSteps
<1>5. /\ IsSequence(next) /\ Len(next) = IF index = Len(leaves) THEN Len(leaves) + 1 ELSE Len(leaves)
      /\ \A i \in Nat : NodeAt(next, i, 0) = IF i = index THEN item ELSE NodeAt(leaves, i, 0)
  BY <1>0, <1>depth, PutNode
<1> HIDE DEF f, R, S, depth, B, next
<1>6. P(0)
  <2>1. f[0].at = index /\ f[0].node = item /\ f[0].layer = PutAt(B[0], index, item)
    BY <1>filled, <1>2 DEF InsertLeafLevel, B
  <2>2. \A i \in Nat : S[0][i] = NodeAt(next, i, 0)
    BY <1>4, <1>5, LeavesLayer DEF LayerOf
  <2>3. \A i \in Nat : R[0][i] = NodeAt(leaves, i, 0)
    BY <1>0, <1>depth, <1>3, LeavesLayer DEF LayerOf
  <2>4. \A i \in Nat : i # index => S[0][i] = R[0][i]
    BY <1>5, <2>2, <2>3
  <2>5. item = S[0][index]
    BY <1>5, <2>2
  <2>6. RoundRight(f[0], B[0], S[0], R[0])
    BY <1>0, <1>depth, <2>1, <2>4, <2>5 DEF RoundRight
  <2> QED BY <2>6
<1>7. ASSUME NEW d \in 0 .. depth - 1, RoundRight(f[d], B[d], S[d], R[d])
      PROVE  RoundRight(f[d + 1], B[d + 1], S[d + 1], R[d + 1])
             /\ Len(f[d].layer) <= 2 * Len(f[d + 1].layer)
  <2>1. d \in Nat /\ d \in 0 .. depth /\ d + 1 \in 0 .. depth
    BY <1>0, <1>depth
  <2>2. LayerOf(B[d], d, R[d]) /\ IsSequence(B[d + 1]) /\ Len(B[d]) <= 2 * Len(B[d + 1])
    BY <1>0, <1>depth, <2>1 DEF LayerOf
  <2>3. B[d + 1] = m.branches[d + 1]
    BY DEF B
  <2> DEFINE e == InsertLevel(m, f[d], d + 1)
  <2>4. /\ RoundRight(e, B[d + 1], NodesAbove(S[d]), NodesAbove(R[d]))
        /\ Len(f[d].layer) <= 2 * Len(e.layer)
    BY <1>7, <2>1, <2>2, <2>3, NextRound
  <2> QED BY <1>2, <1>3, <1>4, <2>4
<1>8. ASSUME NEW d \in Nat, P(d) PROVE P(d + 1)
  <2>1. SUFFICES ASSUME d + 1 <= depth PROVE RoundRight(f[d + 1], B[d + 1], S[d + 1], R[d + 1])
    OBVIOUS
  <2>2. d \in 0 .. depth - 1 /\ d <= depth
    BY <1>0, <1>depth, <2>1
  <2> QED BY <1>7, <1>8, <2>2
<1> HIDE DEF P
<1>9. \A d \in Nat : P(d)
  <2> DEFINE N == {j \in Nat : P(j)}
  <2>1. 0 \in N
    BY <1>6
  <2>2. \A i \in Nat : i \in N => i + 1 \in N
    BY <1>8
  <2> HIDE DEF N
  <2>3. \A i \in Nat : i \in N
    BY <2>1, <2>2, InductionOverNat
  <2> QED BY <2>3 DEF N
<1>10. ASSUME NEW d \in 0 .. depth PROVE RoundRight(f[d], B[d], S[d], R[d]) /\ LayerOf(C[d], d, S[d])
  <2>1. d \in Nat /\ d <= depth
    BY <1>0, <1>depth
  <2>2. RoundRight(f[d], B[d], S[d], R[d])
    BY <1>9, <2>1 DEF P
  <2>3. LayerOf(f[d].layer, d, S[d])
    BY <1>0, <1>depth, <2>2, RoundLayer
  <2> QED BY <2>2, <2>3
<1>11. ASSUME NEW d \in 0 .. depth - 1 PROVE Len(C[d]) <= 2 * Len(C[d + 1])
  <2>1. d \in 0 .. depth /\ d + 1 \in 0 .. depth
    BY <1>0, <1>depth
  <2>2. C[d] = f[d].layer /\ C[d + 1] = f[d + 1].layer
    BY <2>1
  <2> HIDE DEF C
  <2> QED BY <1>7, <1>10, <2>1, <2>2
<1>12. C[0] = next
  <2>1. C[0] = f[0].layer
    BY <1>0, <1>depth
  <2>2. f[0].layer = PutAt(B[0], index, item)
    BY <1>filled, <1>2 DEF InsertLeafLevel, B
  <2> QED BY <1>0, <1>depth, <2>1, <2>2 DEF next
<1>13. C = [d \in 0 .. depth |-> C[d]]
  OBVIOUS
<1> HIDE DEF C
<1>14. Insert(m, item, index) = [ok |-> TRUE, depth |-> depth, branches |-> C, leaves |-> next]
  BY <1>0, <1>depth, <1>1 DEF next
<1> DEFINE t == [ok |-> TRUE, depth |-> depth, branches |-> C, leaves |-> next]
<1>15. t.depth = depth /\ t.branches = C
  OBVIOUS
<1>16. next # <<>>
  <2>1. Len(leaves) \in Nat /\ Len(leaves) # 0
    BY <1>0, <1>depth DEF IsSequence
  <2>2. Len(next) # 0
    BY <1>5, <2>1
  <2> QED BY <2>2
<1>17. t = [ok |-> TRUE, depth |-> t.depth, branches |-> t.branches, leaves |-> next]
  BY <1>15
<1> HIDE DEF t
<1>18. TreeOf(t, next)
  BY <1>0, <1>depth, <1>5, <1>10, <1>11, <1>12, <1>13, <1>15, <1>16, <1>17 DEF TreeOf, S
<1> QED BY <1>14, <1>18 DEF t, next

\* Nodes of growing height, and a branch that leads from position i up.
Stacked(R, depth) == \A d \in 0 .. depth - 1 : R[d + 1] = NodesAbove(R[d])
LeadsUp(branch, R, i, depth) == \A d \in 0 .. depth - 1 : branch[d + 1] = R[d][Sibling(i \div 2^d)]
SameBits(g, i, depth) == \A d \in 0 .. depth - 1 : IndexBit(g, d) <=> IndexBit(i, d)

LEMMA RootIsPath ==
    ASSUME NEW leaf, NEW branch, NEW index
    PROVE  RootFromBranch(leaf, branch, index) = PathTo(leaf, branch, index, Len(branch))[Len(branch)]
BY DEF RootFromBranch, PathTo, IsPathTo, JoinedWith

LEMMA HalvesOf ==
    ASSUME NEW a \in Nat
    PROVE  /\ a \div 2 \in Nat
           /\ a % 2 = 1 => a = 2 * (a \div 2) + 1 /\ Sibling(a) = 2 * (a \div 2)
           /\ a % 2 # 1 => a = 2 * (a \div 2) /\ Sibling(a) = 2 * (a \div 2) + 1
<1>1. a % 2 \in {0, 1}
  OBVIOUS
<1>2. CASE a % 2 = 1
  BY <1>2 DEF Sibling
<1>3. CASE a % 2 = 0
  BY <1>3 DEF Sibling
<1> QED BY <1>1, <1>2, <1>3

\* One step of the walk, upwards and downwards.
LEMMA JoinUp ==
    ASSUME NEW branch, NEW index, NEW d \in Nat, NEW nodes, NEW a \in Nat,
           IndexBit(index, d) <=> a % 2 = 1, branch[d + 1] = nodes[Sibling(a)]
    PROVE  JoinedWith(branch, index, nodes[a], d + 1) = NodesAbove(nodes)[a \div 2]
<1> DEFINE h == a \div 2
<1>1. (d + 1) - 1 = d
  OBVIOUS
<1>2. JoinedWith(branch, index, nodes[a], d + 1)
         = IF a % 2 = 1 THEN Hash(branch[d + 1], nodes[a]) ELSE Hash(nodes[a], branch[d + 1])
  BY <1>1 DEF JoinedWith
<1>3. h \in Nat /\ (a % 2 = 1 => a = 2 * h + 1 /\ Sibling(a) = 2 * h)
      /\ (a % 2 # 1 => a = 2 * h /\ Sibling(a) = 2 * h + 1)
  BY HalvesOf
<1> HIDE DEF h
<1>4. NodesAbove(nodes)[h] = Hash(nodes[2 * h], nodes[2 * h + 1])
  BY <1>3 DEF NodesAbove
<1> QED BY <1>2, <1>3, <1>4 DEF h

LEMMA JoinDown ==
    ASSUME NEW branch, NEW index \in Nat, NEW d \in Nat, NEW nodes, NEW x,
           JoinedWith(branch, index, x, d + 1) = NodesAbove(nodes)[(index \div 2^d) \div 2]
    PROVE  x = nodes[index \div 2^d]
<1> DEFINE a == index \div 2^d
           h == a \div 2
<1>0. a \in Nat
  BY Shift
<1>1. (d + 1) - 1 = d
  OBVIOUS
<1>2. JoinedWith(branch, index, x, d + 1)
         = IF a % 2 = 1 THEN Hash(branch[d + 1], x) ELSE Hash(x, branch[d + 1])
  BY <1>1 DEF JoinedWith, IndexBit
<1> HIDE DEF a
<1>3. h \in Nat /\ (a % 2 = 1 => a = 2 * h + 1 /\ Sibling(a) = 2 * h)
      /\ (a % 2 # 1 => a = 2 * h /\ Sibling(a) = 2 * h + 1)
  BY <1>0, HalvesOf
<1>5. JoinedWith(branch, index, x, d + 1) = NodesAbove(nodes)[h]
  BY DEF a
<1> HIDE DEF h
<1>4. NodesAbove(nodes)[h] = Hash(nodes[2 * h], nodes[2 * h + 1])
  BY <1>3 DEF NodesAbove
<1>6. x = nodes[a]
  <2>1. CASE a % 2 = 1
    <3>1. Hash(branch[d + 1], x) = Hash(nodes[2 * h], nodes[2 * h + 1])
      BY <1>2, <1>4, <1>5, <2>1
    <3> QED BY <1>3, <2>1, <3>1, HashBinds
  <2>2. CASE a % 2 # 1
    <3>1. Hash(x, branch[d + 1]) = Hash(nodes[2 * h], nodes[2 * h + 1])
      BY <1>2, <1>4, <1>5, <2>2
    <3> QED BY <1>3, <2>2, <3>1, HashBinds
  <2> QED BY <2>1, <2>2
<1> QED BY <1>6 DEF a

\* The walk from a node along its branch passes the nodes above it.
LEMMA PathPassesNodes ==
    ASSUME NEW R, NEW depth \in Nat, Stacked(R, depth), NEW i \in Nat, NEW index, NEW branch,
           LeadsUp(branch, R, i, depth), NEW n \in Nat, depth <= n,
           SameBits(index, i, depth)
    PROVE  PathTo(R[0][i], branch, index, n)[depth] = R[depth][i \div 2^depth]
<1> DEFINE f == PathTo(R[0][i], branch, index, n)
           P(d) == d <= depth => f[d] = R[d][i \div 2^d]
<1>1. f[0] = R[0][i] /\ \A d \in 0 .. n - 1 : f[d + 1] = JoinedWith(branch, index, f[d], d + 1)
  BY PathToSteps
<1> HIDE DEF f
<1>2. P(0)
  BY <1>1, Shift
<1>3. ASSUME NEW d \in Nat, P(d) PROVE P(d + 1)
  <2>1. SUFFICES ASSUME d + 1 <= depth PROVE f[d + 1] = R[d + 1][i \div 2^(d + 1)]
    OBVIOUS
  <2>2. d \in 0 .. depth - 1 /\ d \in 0 .. n - 1 /\ d <= depth
    BY <2>1
  <2> DEFINE a == i \div 2^d
             nodes == R[d]
  <2>3. a \in Nat /\ i \div 2^(d + 1) = a \div 2
    BY Shift
  <2>4. IndexBit(index, d) <=> a % 2 = 1
    BY <2>2 DEF SameBits, IndexBit
  <2>5. branch[d + 1] = nodes[Sibling(a)]
    BY <2>2 DEF LeadsUp
  <2>6. f[d] = nodes[a]
    BY <1>3, <2>2
  <2> HIDE DEF a, nodes
  <2>7. JoinedWith(branch, index, nodes[a], d + 1) = NodesAbove(nodes)[a \div 2]
    BY <2>3, <2>4, <2>5, JoinUp
  <2>8. R[d + 1] = NodesAbove(nodes)
    BY <2>2 DEF Stacked, nodes
  <2> QED BY <1>1, <2>2, <2>3, <2>6, <2>7, <2>8
<1> HIDE DEF P
<1>4. \A d \in Nat : P(d)
  <2> DEFINE N == {j \in Nat : P(j)}
  <2>1. 0 \in N
    BY <1>2
  <2>2. \A j \in Nat : j \in N => j + 1 \in N
    BY <1>3
  <2> HIDE DEF N
  <2>3. \A j \in Nat : j \in N
    BY <2>1, <2>2, InductionOverNat
  <2> QED BY <2>3 DEF N
<1> QED BY <1>4 DEF P, f

\* A walk that ends in the root began in the leaf of its index, whatever the branch.
LEMMA PathBinds ==
    ASSUME NEW R, NEW depth \in Nat, Stacked(R, depth), NEW j \in Nat, NEW branch, NEW x,
           PathTo(x, branch, j, depth)[depth] = R[depth][j \div 2^depth]
    PROVE  x = R[0][j]
<1> DEFINE f == PathTo(x, branch, j, depth)
           P(k) == k <= depth => f[depth - k] = R[depth - k][j \div 2^(depth - k)]
<1>1. f[0] = x /\ \A d \in 0 .. depth - 1 : f[d + 1] = JoinedWith(branch, j, f[d], d + 1)
  BY PathToSteps
<1>0. f[depth] = R[depth][j \div 2^depth]
  OBVIOUS
<1> HIDE DEF f
<1>2. P(0)
  <2>1. depth - 0 = depth
    OBVIOUS
  <2> QED BY <1>0, <2>1
<1>3. ASSUME NEW k \in Nat, P(k) PROVE P(k + 1)
  <2> DEFINE d == depth - (k + 1)
  <2>1. SUFFICES ASSUME k + 1 <= depth PROVE f[d] = R[d][j \div 2^d]
    OBVIOUS
  <2>2. d \in 0 .. depth - 1 /\ d \in Nat /\ depth - k = d + 1 /\ k <= depth
    BY <2>1
  <2> HIDE DEF d
  <2>3. f[d + 1] = R[d + 1][j \div 2^(d + 1)]
    BY <1>3, <2>2
  <2>4. j \div 2^(d + 1) = (j \div 2^d) \div 2
    BY <2>2, Shift
  <2> DEFINE nodes == R[d]
             y == f[d]
  <2>5. R[d + 1] = NodesAbove(nodes)
    BY <2>2 DEF Stacked
  <2>6. f[d + 1] = JoinedWith(branch, j, y, d + 1)
    BY <1>1, <2>2
  <2> HIDE DEF nodes, y
  <2>7. JoinedWith(branch, j, y, d + 1) = NodesAbove(nodes)[(j \div 2^d) \div 2]
    BY <2>3, <2>4, <2>5, <2>6
  <2>8. y = nodes[j \div 2^d]
    BY <2>2, <2>7, JoinDown
  <2> QED BY <2>8 DEF nodes, y
<1> HIDE DEF P
<1>4. \A k \in Nat : P(k)
  <2> DEFINE N == {l \in Nat : P(l)}
  <2>1. 0 \in N
    BY <1>2
  <2>2. \A l \in Nat : l \in N => l + 1 \in N
    BY <1>3
  <2> HIDE DEF N
  <2>3. \A l \in Nat : l \in N
    BY <2>1, <2>2, InductionOverNat
  <2> QED BY <2>3 DEF N
<1>5. f[0] = R[0][j \div 2^0]
  <2> DEFINE z == depth - depth
  <2>1. z = 0 /\ depth <= depth
    OBVIOUS
  <2>2. P(depth)
    BY <1>4
  <2>3. f[z] = R[z][j \div 2^z]
    BY <2>1, <2>2 DEF P
  <2> HIDE DEF z
  <2> QED BY <2>1, <2>3
<1> QED BY <1>1, <1>5, Shift

\* Adding the bit above the depth leaves the lower bits of a position alone.
LEMMA LowerBits ==
    ASSUME NEW depth \in Nat, NEW i \in Nat
    PROVE  SameBits(2^depth + i, i, depth)
<1> DEFINE g == 2^depth + i
           P(d) == d <= depth => g \div 2^d = 2^(depth - d) + (i \div 2^d)
<1>0. g \in Nat
  <2>1. 2^depth \in Nat
    BY PowerPositive
  <2> QED BY <2>1
<1>1. P(0)
  <2> DEFINE z == depth - 0
  <2>1. z = depth
    OBVIOUS
  <2>2. g \div 2^0 = g /\ i \div 2^0 = i
    BY <1>0, Shift
  <2> HIDE DEF z
  <2>3. g \div 2^0 = 2^z + (i \div 2^0)
    BY <2>1, <2>2
  <2> QED BY <2>3 DEF z
<1>2. ASSUME NEW d \in Nat, d + 1 <= depth, g \div 2^d = 2^(depth - d) + (i \div 2^d)
      PROVE  g \div 2^(d + 1) = 2^(depth - (d + 1)) + (i \div 2^(d + 1))
             /\ (g \div 2^d) % 2 = (i \div 2^d) % 2
  <2> DEFINE e == depth - (d + 1)
             p == 2^e
             q == 2^(depth - d)
             a == g \div 2^d
             b == i \div 2^d
  <2>1. e \in Nat /\ depth - d = e + 1
    BY <1>2
  <2> HIDE DEF e
  <2>2. p \in Nat /\ q = 2 * p
    BY <2>1, PowerPositive, PowerDoubles
  <2>3. a \in Nat /\ g \div 2^(d + 1) = a \div 2
    BY <1>0, Shift
  <2>4. b \in Nat /\ i \div 2^(d + 1) = b \div 2
    BY Shift
  <2>5. a = q + b
    BY <1>2
  <2> HIDE DEF p, q, a, b
  <2>6. a \div 2 = p + (b \div 2) /\ a % 2 = b % 2
    BY <2>2, <2>3, <2>4, <2>5
  <2> QED BY <2>3, <2>4, <2>6 DEF a, b, p, e
<1>3. ASSUME NEW d \in Nat, P(d) PROVE P(d + 1)
  <2>1. SUFFICES ASSUME d + 1 <= depth PROVE g \div 2^(d + 1) = 2^(depth - (d + 1)) + (i \div 2^(d + 1))
    OBVIOUS
  <2>2. d <= depth
    BY <2>1
  <2> HIDE DEF g
  <2> QED BY <1>2, <1>3, <2>1, <2>2
<1> HIDE DEF P
<1>4. \A d \in Nat : P(d)
  <2> DEFINE N == {j \in Nat : P(j)}
  <2>1. 0 \in N
    BY <1>1
  <2>2. \A j \in Nat : j \in N => j + 1 \in N
    BY <1>3
  <2> HIDE DEF N
  <2>3. \A j \in Nat : j \in N
    BY <2>1, <2>2, InductionOverNat
  <2> QED BY <2>3 DEF N
<1>5. ASSUME NEW d \in 0 .. depth - 1 PROVE (g \div 2^d) % 2 = (i \div 2^d) % 2
  <2>1. d \in Nat /\ d + 1 <= depth /\ d <= depth
    OBVIOUS
  <2>2. g \div 2^d = 2^(depth - d) + (i \div 2^d)
    BY <1>4, <2>1 DEF P
  <2> HIDE DEF g
  <2> QED BY <1>2, <2>1, <2>2
<1> HIDE DEF g
<1>6. SameBits(g, i, depth)
  BY <1>5 DEF SameBits, IndexBit
<1> QED BY <1>6 DEF g

LEMMA FloorOfLog ==
    ASSUME NEW depth \in Nat, NEW i \in Nat, i < 2^depth
    PROVE  ILog2Floor(2^depth + i) = depth
<1> DEFINE p == 2^depth
           g == p + i
           D == {d \in 0 .. g : 2^d <= g /\ 2^(d + 1) > g}
<1>1. p \in Nat \ {0} /\ depth < p /\ i < p
  BY PowerPositive
<1>2. 2^(depth + 1) = 2 * p
  BY PowerDoubles
<1>3. g \in Nat /\ g # 0 /\ depth \in 0 .. g /\ p <= g /\ 2 * p > g
  <2> HIDE DEF p
  <2> QED BY <1>1
<1>4. depth \in D
  BY <1>2, <1>3
<1>5. ASSUME NEW d \in D PROVE d = depth
  <2>1. d \in Nat /\ 2^d <= g /\ 2^(d + 1) > g
    OBVIOUS
  <2>2. ASSUME d < depth PROVE FALSE
    <3>1. d + 1 <= depth /\ d + 1 \in Nat
      BY <2>1, <2>2
    <3> DEFINE q == 2^(d + 1)
    <3>2. q <= p /\ q \in Nat /\ q > g
      BY <2>1, <3>1, PowerGrows, PowerPositive
    <3> HIDE DEF q, p
    <3> QED BY <1>1, <3>2
  <2>3. ASSUME depth < d PROVE FALSE
    <3>1. depth + 1 <= d /\ depth + 1 \in Nat
      BY <2>1, <2>3
    <3> DEFINE q == 2^d
               r == 2^(depth + 1)
    <3>2. r <= q /\ q \in Nat /\ q <= g /\ r = 2 * p
      BY <1>2, <2>1, <3>1, PowerGrows, PowerPositive
    <3> HIDE DEF q, p, r
    <3> QED BY <1>1, <3>2
  <2> QED BY <2>1, <2>2, <2>3
<1>6. ILog2Floor(g) = CHOOSE d \in 0 .. g : 2^d <= g /\ 2^(d + 1) > g
  BY <1>3 DEF ILog2Floor
<1>7. \A d \in 0 .. g : (2^d <= g /\ 2^(d + 1) > g) <=> d = depth
  BY <1>4, <1>5
<1> HIDE DEF g, D
<1>8. ILog2Floor(g) = depth
  BY <1>3, <1>6, <1>7
<1> QED BY <1>8 DEF g, p

LEMMA RootIsReference ==
    ASSUME NEW m, NEW leaves, TreeOf(m, leaves)
    PROVE  Root(m) = ReferenceRoot(leaves, m.depth)
<1> DEFINE depth == m.depth
           B == m.branches
           R == ReferenceNodes(leaves, depth)
           P(d) == d <= depth => Len(B[d]) # 0
<1>0. /\ depth \in 1 .. MaxTreeDepth /\ IsSequence(leaves) /\ leaves # <<>> /\ B[0] = leaves
      /\ \A d \in 0 .. depth : LayerOf(B[d], d, R[d])
      /\ \A d \in 0 .. depth - 1 : Len(B[d]) <= 2 * Len(B[d + 1])
  BY DEF TreeOf
<1> HIDE DEF depth, B, R
<1>1. depth \in Nat
  BY <1>0 DEF MaxTreeDepth
<1>2. \A d \in 0 .. depth : Len(B[d]) \in Nat
  BY <1>0, SequenceLen DEF LayerOf
<1>3. P(0)
  BY <1>0 DEF IsSequence
<1>4. ASSUME NEW d \in Nat, P(d) PROVE P(d + 1)
  <2>1. SUFFICES ASSUME d + 1 <= depth PROVE Len(B[d + 1]) # 0
    OBVIOUS
  <2>2. d \in 0 .. depth - 1 /\ d \in 0 .. depth /\ d + 1 \in 0 .. depth /\ d <= depth
    BY <1>1, <2>1
  <2>3. Len(B[d]) \in Nat /\ Len(B[d + 1]) \in Nat /\ Len(B[d]) # 0
    BY <1>2, <1>4, <2>2
  <2>4. Len(B[d]) <= 2 * Len(B[d + 1])
    BY <1>0, <2>2
  <2> QED BY <2>3, <2>4
<1> HIDE DEF P
<1>5. \A d \in Nat : P(d)
  <2> DEFINE N == {j \in Nat : P(j)}
  <2>1. 0 \in N
    BY <1>3
  <2>2. \A j \in Nat : j \in N => j + 1 \in N
    BY <1>4
  <2> HIDE DEF N
  <2>3. \A j \in Nat : j \in N
    BY <2>1, <2>2, InductionOverNat
  <2> QED BY <2>3 DEF N
<1>6. Len(B[depth]) \in Nat /\ Len(B[depth]) # 0 /\ depth \in 0 .. depth
  BY <1>1, <1>2, <1>5 DEF P
<1>7. NodeAt(B[depth], 0, depth) = B[depth][1]
  BY <1>6 DEF NodeAt
<1>8. NodeAt(B[depth], 0, depth) = R[depth][0]
  BY <1>0, <1>6 DEF LayerOf
<1> QED BY <1>7, <1>8 DEF Root, ReferenceRoot, depth, B, R

\* The last layer of leaves that the depth has room for is the root alone.
LEMMA LastLayer ==
    ASSUME NEW leaves, IsSequence(leaves), NEW depth \in 0 .. NumZeroHashes,
           Len(leaves) # 0, Len(leaves) <= 2^depth
    PROVE  Len(Layers(leaves, depth)[depth]) = 1
<1> DEFINE L == Layers(leaves, depth)
           P(d) == d <= depth => /\ Len(L[d]) \in Nat \ {0}
                                 /\ Len(L[d]) <= 2^(depth - d)
<1>0. depth \in Nat
  BY DEF NumZeroHashes
<1>1. L[0] = leaves
  BY <1>0, LayersSteps
<1>2. \A d \in 0 .. depth - 1 : Len(L[d + 1]) = (Len(L[d]) + 1) \div 2
  BY LayersHoldNodes
<1> HIDE DEF L
<1>3. P(0)
  <2>1. depth - 0 = depth
    BY <1>0
  <2>2. Len(leaves) \in Nat
    BY SequenceLen
  <2> QED BY <1>1, <2>1, <2>2
<1>4. ASSUME NEW d \in Nat, P(d) PROVE P(d + 1)
  <2> DEFINE e == depth - (d + 1)
             p == 2^e
             q == 2^(depth - d)
             k == Len(L[d])
             l == Len(L[d + 1])
  <2>1. SUFFICES ASSUME d + 1 <= depth PROVE l \in Nat \ {0} /\ l <= p
    OBVIOUS
  <2>2. e \in Nat /\ depth - d = e + 1 /\ d \in 0 .. depth - 1 /\ d <= depth
    BY <1>0, <2>1
  <2>3. p \in Nat /\ q = 2 * p
    <3> HIDE DEF e
    <3> QED BY <2>2, PowerPositive, PowerDoubles
  <2>4. k \in Nat \ {0} /\ k <= q
    BY <1>4, <2>2
  <2>5. l = (k + 1) \div 2
    BY <1>2, <2>2
  <2> HIDE DEF e, p, q, k, l
  <2> QED BY <2>3, <2>4, <2>5
<1> HIDE DEF P
<1>5. \A d \in Nat : P(d)
  <2> DEFINE N == {j \in Nat : P(j)}
  <2>1. 0 \in N
    BY <1>3
  <2>2. \A j \in Nat : j \in N => j + 1 \in N
    BY <1>4
  <2> HIDE DEF N
  <2>3. \A j \in Nat : j \in N
    BY <2>1, <2>2, InductionOverNat
  <2> QED BY <2>3 DEF N
<1>6. P(depth) /\ depth <= depth /\ depth - depth = 0
  BY <1>0, <1>5
<1> DEFINE z == depth - depth
<1>7. z = 0 /\ Len(L[depth]) \in Nat \ {0} /\ Len(L[depth]) <= 2^z
  BY <1>6 DEF P
<1> HIDE DEF z
<1> DEFINE n == Len(L[depth])
<1>8. n <= 1 /\ n \in Nat \ {0}
  BY <1>7, PowerOfNone
<1> HIDE DEF n
<1>9. n = 1
  BY <1>8
<1> QED BY <1>9 DEF n, L

\* Leaves beyond the room of the depth do not reach its root.
LEMMA OnlyRoomCounts ==
    ASSUME NEW leaves, NEW room, NEW depth \in Nat,
           \A i \in Nat : i < 2^depth => NodesOf(leaves)[i] = NodesOf(room)[i]
    PROVE  ReferenceRoot(leaves, depth) = ReferenceRoot(room, depth)
<1> DEFINE R == ReferenceNodes(leaves, depth)
           S == ReferenceNodes(room, depth)
           P(d) == d <= depth => \A i \in Nat : i < 2^(depth - d) => R[d][i] = S[d][i]
<1>1. R[0] = NodesOf(leaves) /\ \A i \in 0 .. depth - 1 : R[i + 1] = NodesAbove(R[i])
  BY ReferenceSteps
<1>2. S[0] = NodesOf(room) /\ \A i \in 0 .. depth - 1 : S[i + 1] = NodesAbove(S[i])
  BY ReferenceSteps
<1> HIDE DEF R, S
<1>3. P(0)
  <2> DEFINE z == depth - 0
  <2>1. z = depth
    OBVIOUS
  <2> HIDE DEF z
  <2>2. \A i \in Nat : i < 2^z => R[0][i] = S[0][i]
    BY <1>1, <1>2, <2>1
  <2> QED BY <2>2 DEF z
<1>4. ASSUME NEW d \in Nat, P(d) PROVE P(d + 1)
  <2> DEFINE e == depth - (d + 1)
             p == 2^e
             q == 2^(depth - d)
  <2>1. SUFFICES ASSUME d + 1 <= depth, NEW i \in Nat, i < p PROVE R[d + 1][i] = S[d + 1][i]
    OBVIOUS
  <2>2. e \in Nat /\ depth - d = e + 1 /\ d \in 0 .. depth - 1 /\ d <= depth
    BY <2>1
  <2>3. p \in Nat /\ q = 2 * p
    <3> HIDE DEF e
    <3> QED BY <2>2, PowerPositive, PowerDoubles
  <2>4. \A j \in Nat : j < q => R[d][j] = S[d][j]
    BY <1>4, <2>2
  <2> HIDE DEF e, p, q
  <2>5. 2 * i \in Nat /\ 2 * i < q /\ 2 * i + 1 \in Nat /\ 2 * i + 1 < q
    BY <2>1, <2>3
  <2>6. R[d][2 * i] = S[d][2 * i] /\ R[d][2 * i + 1] = S[d][2 * i + 1]
    BY <2>4, <2>5
  <2>7. R[d + 1] = NodesAbove(R[d]) /\ S[d + 1] = NodesAbove(S[d])
    BY <1>1, <1>2, <2>2
  <2> QED BY <2>6, <2>7 DEF NodesAbove
<1> HIDE DEF P
<1>5. \A d \in Nat : P(d)
  <2> DEFINE N == {j \in Nat : P(j)}
  <2>1. 0 \in N
    BY <1>3
  <2>2. \A j \in Nat : j \in N => j + 1 \in N
    BY <1>4
  <2> HIDE DEF N
  <2>3. \A j \in Nat : j \in N
    BY <2>1, <2>2, InductionOverNat
  <2> QED BY <2>3 DEF N
<1> DEFINE z == depth - depth
<1>6. z = 0 /\ depth <= depth /\ P(depth)
  BY <1>5
<1>7. \A i \in Nat : i < 2^z => R[depth][i] = S[depth][i]
  BY <1>6 DEF P
<1> HIDE DEF z
<1>8. R[depth][0] = S[depth][0]
  BY <1>6, <1>7, PowerOfNone
<1> QED BY <1>8 DEF ReferenceRoot, R, S

\* The root alone is the reference's.
LEMMA RootAlone ==
    ASSUME NEW leaves, IsSequence(leaves), NEW depth \in 0 .. NumZeroHashes,
           Len(leaves) # 0, Len(leaves) <= 2^depth
    PROVE  NewRootWithDepth(leaves, depth) = ReferenceRoot(leaves, depth)
<1> DEFINE L == Layers(leaves, depth)
           R == ReferenceNodes(leaves, depth)
<1>0. depth \in Nat /\ depth \in 0 .. depth
  BY DEF NumZeroHashes
<1>1. Len(L[depth]) = 1
  BY LastLayer
<1>2. LayerOf(L[depth], depth, R[depth])
  BY <1>0, LayersHoldNodes
<1>3. NewRootWithDepth(leaves, depth) = L[depth][1]
  BY <1>1 DEF NewRootWithDepth
<1> HIDE DEF L, R
<1>4. NodeAt(L[depth], 0, depth) = R[depth][0] /\ NodeAt(L[depth], 0, depth) = L[depth][1]
  BY <1>1, <1>2 DEF LayerOf, NodeAt
<1> QED BY <1>3, <1>4 DEF ReferenceRoot, R

LEMMA RootsOfTree ==
    ASSUME TreeOf(tree, treeLeaves)
    PROVE  /\ TreeRoots /\ Room \in Nat \ {0} /\ Room <= Len(treeLeaves) /\ Room <= 2^tree.depth
           /\ tree.depth \in Nat
<1> DEFINE depth == tree.depth
           p == 2^depth
           room == SubSeq(treeLeaves, 1, Room)
<1>0. tree.leaves = treeLeaves /\ depth \in 1 .. MaxTreeDepth /\ IsSequence(treeLeaves) /\ treeLeaves # <<>>
  BY DEF TreeOf
<1>1. depth \in Nat /\ depth \in 0 .. NumZeroHashes
  <2> HIDE DEF depth
  <2> QED BY <1>0 DEF MaxTreeDepth, NumZeroHashes
<1>2. Len(treeLeaves) \in Nat /\ Len(treeLeaves) # 0
  BY <1>0 DEF IsSequence
<1>3. p \in Nat \ {0}
  BY <1>1, PowerPositive
<1>4. Room = IF Len(treeLeaves) < p THEN Len(treeLeaves) ELSE p
  BY DEF Room
<1> HIDE DEF depth, p
<1>5. Room \in Nat \ {0} /\ Room <= Len(treeLeaves) /\ Room <= p
  BY <1>2, <1>3, <1>4
<1>6. IsSequence(room) /\ Len(room) = Room /\ \A l \in 1 .. Room : room[l] = treeLeaves[l]
  <2> DEFINE V == {treeLeaves[l] : l \in 1 .. Len(treeLeaves)}
  <2>1. treeLeaves \in Seq(V)
    BY <1>0 DEF IsSequence
  <2> HIDE DEF V
  <2> DEFINE n == Room
  <2>4. n \in Nat /\ 1 <= n /\ n <= Len(treeLeaves)
    BY <1>5
  <2> HIDE DEF n
  <2> DEFINE u == SubSeq(treeLeaves, 1, n)
  <2>2. u \in Seq(V) /\ Len(u) = n /\ \A l \in 1 .. n : u[l] = treeLeaves[l]
    BY <2>1, <2>4
  <2>3. IsSequence(u)
    BY <2>2, SequenceOf
  <2> QED BY <2>2, <2>3 DEF n
<1> HIDE DEF room
<1>7. ASSUME NEW i \in Nat, i < p PROVE NodesOf(treeLeaves)[i] = NodesOf(room)[i]
  <2>1. NodesOf(treeLeaves)[i] = IF i < Len(treeLeaves) THEN treeLeaves[i + 1] ELSE Chunk(0)
    BY DEF NodesOf
  <2>2. NodesOf(room)[i] = IF i < Len(room) THEN room[i + 1] ELSE Chunk(0)
    BY DEF NodesOf
  <2> QED BY <1>2, <1>3, <1>4, <1>6, <1>7, <2>1, <2>2
<1>8. ReferenceRoot(treeLeaves, depth) = ReferenceRoot(room, depth)
  BY <1>1, <1>7, OnlyRoomCounts DEF p
<1>9. NewRootWithDepth(room, depth) = ReferenceRoot(room, depth)
  BY <1>1, <1>5, <1>6, RootAlone DEF p
<1>10. Root(tree) = ReferenceRoot(treeLeaves, depth)
  BY RootIsReference DEF depth
<1>11. TreeRoots
  BY <1>0, <1>8, <1>9, <1>10 DEF TreeRoots, depth, room
<1> QED BY <1>1, <1>5, <1>11 DEF depth, p

\* The Merkle proof of position i is the branch that leads up from it.
LEMMA MerkleProofLeadsUp ==
    ASSUME NEW m, NEW leaves, TreeOf(m, leaves), NEW i \in Nat, i < Len(leaves)
    PROVE  LET p == MerkleProof(m, i)
           IN /\ p = [ok |-> TRUE, proof |-> p.proof]
              /\ IsSequence(p.proof) /\ Len(p.proof) = m.depth
              /\ LeadsUp(p.proof, ReferenceNodes(leaves, m.depth), i, m.depth)
<1> DEFINE depth == m.depth
           B == m.branches
           R == ReferenceNodes(leaves, depth)
           q == [d \in 1 .. depth |-> NodeAt(B[d - 1], Sibling(i \div 2^(d - 1)), d - 1)]
           p == MerkleProof(m, i)
<1>0. /\ depth \in 1 .. MaxTreeDepth /\ IsSequence(leaves) /\ B[0] = leaves
      /\ \A d \in 0 .. depth : LayerOf(B[d], d, R[d])
  BY DEF TreeOf
<1>1. Len(leaves) \in Nat
  BY <1>0, SequenceLen
<1>2. p = [ok |-> TRUE, proof |-> q]
  BY <1>0, <1>1 DEF MerkleProof
<1> HIDE DEF depth, B, R, p
<1>3. depth \in Nat
  BY <1>0 DEF MaxTreeDepth
<1>4. q = [d \in 1 .. depth |-> q[d]]
  OBVIOUS
<1>5. ASSUME NEW d \in 0 .. depth - 1 PROVE q[d + 1] = R[d][Sibling(i \div 2^d)]
  <2>1. d + 1 \in 1 .. depth /\ (d + 1) - 1 = d /\ d \in 0 .. depth /\ d \in Nat
    BY <1>3
  <2>2. q[d + 1] = NodeAt(B[d], Sibling(i \div 2^d), d)
    BY <2>1
  <2> DEFINE a == i \div 2^d
  <2>3. a \in Nat
    BY <2>1, Shift
  <2> HIDE DEF a, q
  <2>4. Sibling(a) \in Nat
    BY <2>3 DEF Sibling
  <2> QED BY <1>0, <2>1, <2>2, <2>4 DEF LayerOf, a
<1> HIDE DEF q
<1>6. IsSequence(q) /\ Len(q) = depth
  BY <1>3, <1>4, MadeSequence
<1>7. LeadsUp(q, R, i, depth)
  BY <1>5 DEF LeadsUp
<1>8. p.proof = q
  BY <1>2
<1> QED BY <1>2, <1>6, <1>7, <1>8 DEF p, R, depth

LEMMA ProofsOfTree ==
    ASSUME TreeOf(tree, treeLeaves), NEW i \in 0 .. Room - 1
    PROVE  ProofOf(i)
<1> DEFINE depth == tree.depth
           R == ReferenceNodes(treeLeaves, depth)
           p == MerkleProof(tree, i)
           branch == p.proof
           root == Root(tree)
<1>0. Room \in Nat \ {0} /\ Room <= Len(treeLeaves) /\ Room <= 2^depth /\ depth \in Nat
  BY RootsOfTree
<1>1. /\ depth \in 1 .. MaxTreeDepth /\ IsSequence(treeLeaves) /\ tree.leaves = treeLeaves
  BY DEF TreeOf
<1>2. Len(treeLeaves) \in Nat /\ 2^depth \in Nat
  BY <1>0, <1>1, SequenceLen, PowerPositive
<1>3. i \in Nat /\ i < Len(treeLeaves) /\ i < 2^depth
  <2> DEFINE q == 2^depth
  <2>1. q \in Nat /\ Room <= q
    BY <1>0, <1>2
  <2> HIDE DEF q
  <2>2. i \in Nat /\ i < Len(treeLeaves) /\ i < q
    BY <1>0, <1>2, <2>1
  <2> QED BY <2>2 DEF q
<1>4. p = [ok |-> TRUE, proof |-> branch] /\ IsSequence(branch) /\ Len(branch) = depth
      /\ LeadsUp(branch, R, i, depth)
  BY <1>3, MerkleProofLeadsUp
<1>5. R[0] = NodesOf(treeLeaves) /\ Stacked(R, depth)
  BY <1>0, ReferenceSteps DEF Stacked
<1>6. root = R[depth][0]
  BY RootIsReference DEF ReferenceRoot
<1>7. \A j \in Nat : R[0][j] = LeafAt(j)
  BY <1>5 DEF NodesOf, LeafAt
<1>8. \A j \in Nat : j < 2^depth => j \div 2^depth = 0
  BY <1>0, Shift
<1>9. depth <= 62
  <2> HIDE DEF depth
  <2> QED BY <1>1 DEF MaxTreeDepth
<1>bits. SameBits(i, i, depth) /\ depth <= depth
  BY <1>0 DEF SameBits
<1> HIDE DEF depth, R, p, branch, root
<1>10. VerifyProof(root, LeafAt(i), i, branch)
  <2>1. PathTo(R[0][i], branch, i, depth)[depth] = R[depth][i \div 2^depth]
    BY <1>0, <1>bits, <1>3, <1>4, <1>5, PathPassesNodes
  <2>2. RootFromBranch(LeafAt(i), branch, i) = root
    BY <1>3, <1>4, <1>6, <1>7, <1>8, <2>1, RootIsPath
  <2> QED BY <1>0, <1>4, <1>9, <2>2 DEF VerifyProof, IsValidMerkleBranch
<1>11. ASSUME NEW j \in 0 .. 2^depth - 1, NEW x, VerifyProof(root, x, j, branch) PROVE x = LeafAt(j)
  <2>1. j \in Nat /\ j < 2^depth
    <3> DEFINE q == 2^depth
    <3>1. q \in Nat /\ j \in 0 .. q - 1
      BY <1>2 DEF depth
    <3> HIDE DEF q
    <3>2. j \in Nat /\ j < q
      BY <3>1
    <3> QED BY <3>2 DEF q
  <2>2. RootFromBranch(x, branch, j) = root
    BY <1>11 DEF VerifyProof, IsValidMerkleBranch
  <2>3. PathTo(x, branch, j, depth)[depth] = R[depth][j \div 2^depth]
    BY <1>4, <1>6, <1>8, <2>1, <2>2, RootIsPath
  <2>4. x = R[0][j]
    BY <1>0, <1>5, <2>1, <2>3, PathBinds
  <2> QED BY <1>7, <2>1, <2>4
<1>12. ASSUME treeLeaves # <<Chunk(0)>>
       PROVE  VerifyProof(HashTreeRoot(tree), LeafAt(i), i, MerkleProofWithMixin(tree, i).proof)
  <2> DEFINE len == Chunk(Len(treeLeaves))
             longer == Append(branch, len)
             n == depth + 1
  <2>1. HashTreeRoot(tree) = Hash(root, len)
    BY <1>1, <1>12 DEF HashTreeRoot, MixinLength, root
  <2>2. MerkleProofWithMixin(tree, i).proof = longer
    <3>1. p.ok /\ [p EXCEPT !.proof = Append(@, len)].proof = longer
      BY <1>4
    <3>2. MerkleProofWithMixin(tree, i) = [p EXCEPT !.proof = Append(@, len)]
      BY <1>1, <3>1 DEF MerkleProofWithMixin, p
    <3> QED BY <3>1, <3>2
  <2>3. /\ Len(longer) = n /\ longer[n] = len /\ \A l \in 1 .. depth : longer[l] = branch[l]
    BY <1>4, AppendedSequence
  <2> HIDE DEF longer, len
  <2>4. LeadsUp(longer, R, i, depth)
    <3>1. \A d \in 0 .. depth - 1 : d + 1 \in 1 .. depth
      BY <1>0
    <3> QED BY <1>4, <2>3, <3>1 DEF LeadsUp
  <2> DEFINE f == PathTo(R[0][i], longer, i, n)
  <2>5. f[depth] = R[depth][i \div 2^depth]
    <3>1. n \in Nat /\ depth <= n
      BY <1>0
    <3> HIDE DEF n
    <3> QED BY <1>0, <1>3, <1>5, <1>bits, <2>4, <3>1, PathPassesNodes
  <2>6. f[n] = JoinedWith(longer, i, f[depth], n)
    <3>1. n \in Nat /\ depth \in 0 .. n - 1
      BY <1>0
    <3>2. \A d \in 0 .. n - 1 : f[d + 1] = JoinedWith(longer, i, f[d], d + 1)
      BY <3>1, PathToSteps
    <3> HIDE DEF f
    <3> QED BY <3>1, <3>2
  <2> HIDE DEF f
  <2>7. ~IndexBit(i, depth) /\ n - 1 = depth
    BY <1>0, <1>3, <1>8 DEF IndexBit
  <2>8. f[n] = Hash(root, len)
    BY <1>3, <1>6, <1>8, <2>3, <2>5, <2>6, <2>7 DEF JoinedWith
  <2>9. RootFromBranch(LeafAt(i), longer, i) = Hash(root, len)
    BY <1>3, <1>7, <2>3, <2>8, RootIsPath DEF f
  <2> QED BY <1>0, <1>9, <2>1, <2>2, <2>3, <2>9 DEF VerifyProof, IsValidMerkleBranch
<1>13. CalculateMerkleRoot(NewGeneralizedIndex(depth, i), LeafAt(i), branch) = [ok |-> TRUE, root |-> root]
  <2> DEFINE g == 2^depth + i
  <2>1. ILog2Floor(g) = depth
    BY <1>0, <1>3, FloorOfLog
  <2>2. SameBits(g, i, depth)
    BY <1>0, <1>3, LowerBits
  <2> HIDE DEF g
  <2>3. PathTo(R[0][i], branch, g, depth)[depth] = R[depth][i \div 2^depth]
    BY <1>0, <1>3, <1>4, <1>5, <1>bits, <2>2, PathPassesNodes
  <2>4. RootFromBranch(LeafAt(i), branch, g) = root
    BY <1>3, <1>4, <1>6, <1>7, <1>8, <2>3, RootIsPath
  <2>5. NewGeneralizedIndex(depth, i) = g
    BY DEF NewGeneralizedIndex, g
  <2> QED BY <1>4, <2>1, <2>4, <2>5 DEF CalculateMerkleRoot
<1> QED BY <1>4, <1>10, <1>11, <1>12, <1>13 DEF ProofOf, depth, p, branch, root

\* The inductive invariant: what was built or inserted into is a tree of the leaves,
\* as long as no Insert left a gap.
TreeInv == tree.ok /\ ~gap => TreeOf(tree, treeLeaves)

\* For every depth and all leaves, after any number of Inserts at existing
\* positions and at the end: the root is that of the leaves, the proof of a leaf
\* convinces VerifyProof and CalculateMerkleRoot, and a proof of the right length
\* that convinces VerifyProof of some leaf at some index convinces it of the leaf
\* that is there (tree.go, root.go, proof.go, index.go).  Of a tree into which a leaf
\* was inserted beyond the next position nothing is said.
THEOREM TreeFollows == TreeSpec => []TreeFollowsLeaves
<1>1. TreeInit => TreeInv
  BY DEF TreeInit, TreeInv, Error
<1>2. TreeInv /\ [TreeNext]_treeVars => TreeInv'
  <2> SUFFICES ASSUME TreeInv, [TreeNext]_treeVars PROVE TreeInv'
    OBVIOUS
  <2>1. ASSUME NEW leaves \in BoundedSeq(Leaves, MaxNewLeaves), NEW depth \in TreeDepths,
               NewTree(leaves, depth)
        PROVE  TreeInv'
    <3>1. leaves \in Seq(Leaves)
      <4>1. PICK n \in 0 .. MaxNewLeaves : leaves \in [1 .. n -> Leaves]
        BY <2>1 DEF BoundedSeq, SeqOf
      <4>2. n \in Nat
        BY TreeAssumption
      <4> QED BY <4>1, <4>2
    <3>2. IsSequence(leaves) /\ depth \in Nat
      BY <3>1, SequenceOf, TreeAssumption
    <3> DEFINE t == NewTreeFromLeavesWithDepth(leaves, depth)
    <3>3. t.ok => TreeOf(t, leaves)
      BY <3>2, NewTreeIsOfLeaves
    <3>4. tree' = t /\ treeLeaves' = leaves
      BY <2>1 DEF NewTree
    <3> QED BY <3>3, <3>4 DEF TreeInv, TreeOf
  <2>2. ASSUME NEW item \in Leaves, NEW index \in 0 .. MaxLeaves, InsertLeaf(item, index)
        PROVE  TreeInv'
    <3> SUFFICES ASSUME ~gap' PROVE TreeOf(tree, treeLeaves)'
      BY DEF TreeInv
    <3>1. ~gap /\ ~(index > Len(treeLeaves)) /\ TreeOf(tree, treeLeaves)
      BY <2>2 DEF InsertLeaf, TreeInv
    <3>0. index \in Nat /\ index <= Len(treeLeaves)
      <4>1. index \in Nat
        BY <2>2, TreeAssumption
      <4>2. Len(treeLeaves) \in Nat
        BY <3>1 DEF TreeOf, IsSequence
      <4> QED BY <3>1, <4>1, <4>2
    <3>filled. FilledTo(treeLeaves, index) = treeLeaves
      BY <3>0 DEF FilledTo
    <3> DEFINE t == Insert(tree, item, index)
               s == PutAt(treeLeaves, index, item)
    <3>2. TreeOf(t, s)
      BY <3>0, <3>1, InsertIsOfLeaves
    <3>3. tree' = t /\ treeLeaves' = s
      BY <2>2, <3>filled DEF InsertLeaf
    <3> HIDE DEF t, s
    <3> QED BY <3>2, <3>3 DEF TreeOf
  <2>3. ASSUME UNCHANGED treeVars PROVE TreeInv'
    BY <2>3 DEF treeVars, TreeInv, TreeOf
  <2> QED BY <2>1, <2>2, <2>3 DEF TreeNext
<1>3. TreeInv => TreeFollowsLeaves
  BY RootsOfTree, ProofsOfTree DEF TreeInv, TreeFollowsLeaves
<1> QED BY <1>1, <1>2, <1>3, PTL DEF TreeSpec
-----------------------------------------------------------------------------
(* Lists that are padded to their limit.                                   *)

\* The logarithm is the least exponent that suffices.
LEMMA CeilIsLeast ==
    ASSUME NEW u \in Nat
    PROVE  /\ ILog2Ceil(u) \in Nat /\ u <= 2^ILog2Ceil(u)
           /\ \A e \in Nat : u <= 2^e => ILog2Ceil(u) <= e
<1>1. CASE u = 0
  <2>1. ILog2Ceil(u) = 0 /\ 2^0 = 1
    BY <1>1, PowerOfNone DEF ILog2Ceil
  <2> DEFINE z == ILog2Ceil(u)
  <2>2. z = 0
    BY <2>1
  <2> HIDE DEF z
  <2>3. 2^z = 1
    BY <2>1, <2>2
  <2>4. u <= 2^z
    BY <1>1, <2>3
  <2>5. z \in Nat /\ \A e \in Nat : z <= e
    BY <2>2
  <2> QED BY <2>4, <2>5 DEF z
<1>2. CASE u # 0
  <2> DEFINE S == {d \in Nat : u <= 2^d}
             Least(d) == 2^d >= u /\ \A e \in 0 .. d - 1 : 2^e < u
  <2>1. u \in S
    <3> DEFINE p == 2^u
    <3>1. p \in Nat /\ u < p
      BY PowerPositive
    <3> HIDE DEF p
    <3>2. u <= p
      BY <3>1
    <3> QED BY <3>2 DEF p
  <2>2. PICK x \in S : \A y \in S : x <= y
    BY <2>1, LeastNatural
  <2>3. x \in Nat /\ u <= 2^x /\ x <= u /\ x \in 0 .. u
    BY <2>1, <2>2
  <2>4. ASSUME NEW e \in Nat, u <= 2^e PROVE x <= e
    BY <2>2, <2>4
  <2>5. \A e \in Nat : 2^e \in Nat
    BY PowerPositive
  <2>6. Least(x)
    <3>1. ASSUME NEW e \in 0 .. x - 1 PROVE 2^e < u
      <4>1. e \in Nat /\ ~(x <= e)
        BY <2>3
      <4>2. 2^e \in Nat /\ ~(u <= 2^e)
        BY <2>4, <2>5, <4>1
      <4> QED BY <4>2
    <3>2. 2^x \in Nat
      BY <2>3, <2>5
    <3> QED BY <2>3, <3>1, <3>2
  <2>7. \E d \in 0 .. u : Least(d)
    BY <2>3, <2>6
  <2> DEFINE c == CHOOSE d \in 0 .. u : Least(d)
  <2>8. ILog2Ceil(u) = c
    BY <1>2 DEF ILog2Ceil
  <2>9. c \in 0 .. u /\ Least(c)
    <3> HIDE DEF Least
    <3> QED BY <2>7
  <2> HIDE DEF c
  <2>10. c \in Nat /\ 2^c \in Nat /\ u <= 2^c
    BY <2>5, <2>9
  <2>11. ASSUME NEW e \in Nat, u <= 2^e PROVE c <= e
    <3>1. e \notin 0 .. c - 1
      <4>1. ASSUME e \in 0 .. c - 1 PROVE FALSE
        <5>1. 2^e < u /\ 2^e \in Nat
          BY <2>5, <2>9, <4>1
        <5> QED BY <2>11, <5>1
      <4> QED BY <4>1
    <3> QED BY <2>10, <3>1
  <2> QED BY <2>8, <2>10, <2>11
<1> QED BY <1>1, <1>2

LEMMA CeilOfPower ==
    ASSUME NEW k \in Nat
    PROVE  ILog2Ceil(2^k) = k
<1> DEFINE p == 2^k
           d == ILog2Ceil(p)
           q == 2^d
<1>1. p \in Nat
  BY PowerPositive
<1>2. d \in Nat /\ p <= q /\ \A e \in Nat : p <= 2^e => d <= e
  <2> HIDE DEF p
  <2> QED BY <1>1, CeilIsLeast
<1>3. d <= k
  BY <1>1, <1>2
<1>4. ASSUME d < k PROVE FALSE
  <2>1. d + 1 \in Nat /\ d + 1 <= k
    <3> HIDE DEF d
    <3> QED BY <1>2, <1>4
  <2> HIDE DEF d
  <2> DEFINE r == 2^(d + 1)
  <2>2. r <= p /\ r = 2 * q /\ q \in Nat \ {0}
    BY <1>2, <2>1, PowerGrows, PowerDoubles, PowerPositive
  <2> HIDE DEF p, q, r
  <2> QED BY <1>1, <1>2, <2>2
<1> HIDE DEF d
<1>5. d = k
  BY <1>2, <1>3, <1>4
<1> QED BY <1>5 DEF d, p

LEMMA CeilMonotone ==
    ASSUME NEW u \in Nat, NEW v \in Nat, u <= v
    PROVE  ILog2Ceil(u) <= ILog2Ceil(v)
<1> DEFINE d == ILog2Ceil(v)
           q == 2^d
<1>1. d \in Nat /\ v <= q
  BY CeilIsLeast
<1> HIDE DEF d
<1>2. q \in Nat
  BY <1>1, PowerPositive
<1> HIDE DEF q
<1>3. u <= q
  BY <1>1, <1>2
<1> QED BY <1>1, <1>3, CeilIsLeast DEF q, d

LEMMA NoHeight ==
    ASSUME NEW leaves
    PROVE  ReferenceRoot(leaves, 0) = NodesOf(leaves)[0]
<1>1. ReferenceNodes(leaves, 0)[0] = NodesOf(leaves)
  BY ReferenceSteps
<1> QED BY <1>1 DEF ReferenceRoot

\* Padding to a power of two makes the reference tree of that depth.
LEMMA PaddedRoot ==
    ASSUME NEW chunks, IsSequence(chunks), NEW e \in 0 .. NumZeroHashes, Len(chunks) <= 2^e
    PROVE  Padded(chunks, 2^e) = [ok |-> TRUE, root |-> ReferenceRoot(chunks, e)]
<1> DEFINE n == 2^e
           padded == PadTo(chunks, n)
<1>0. e \in Nat /\ Len(chunks) \in Nat /\ n \in Nat \ {0}
  <2>1. e \in Nat
    BY DEF NumZeroHashes
  <2> QED BY <2>1, SequenceLen, PowerPositive
<1>1. ILog2Ceil(n) = e
  BY <1>0, CeilOfPower
<1>2. Len(chunks) <= n /\ (e = 0 => n = 1)
  BY PowerOfNone
<1>3. ILog2Ceil(NextPowerOfTwo(n)) = e
  BY <1>0, <1>1, CeilOfPower DEF NextPowerOfTwo
<1>4. \A i \in Nat : i < n => NodesOf(chunks)[i] = NodesOf(padded)[i]
  <2>1. padded = [i \in 1 .. n |-> IF i <= Len(chunks) THEN chunks[i] ELSE Chunk(0)]
    BY DEF PadTo
  <2> HIDE DEF n
  <2>2. padded = [i \in 1 .. n |-> padded[i]]
    BY <2>1
  <2>3. Len(padded) = n
    <3> HIDE DEF padded
    <3> QED BY <1>0, <2>2, MadeSequence
  <2>4. ASSUME NEW i \in Nat, i < n PROVE NodesOf(chunks)[i] = NodesOf(padded)[i]
    <3>1. i + 1 \in 1 .. n
      BY <1>0, <2>4
    <3>2. padded[i + 1] = IF i + 1 <= Len(chunks) THEN chunks[i + 1] ELSE Chunk(0)
      BY <2>1, <3>1
    <3>3. NodesOf(padded)[i] = padded[i + 1]
      BY <2>3, <2>4 DEF NodesOf
    <3>4. NodesOf(chunks)[i] = IF i < Len(chunks) THEN chunks[i + 1] ELSE Chunk(0)
      BY <2>4 DEF NodesOf
    <3> HIDE DEF padded
    <3> QED BY <1>0, <2>4, <3>2, <3>3, <3>4
  <2> QED BY <2>4
<1>5. IsSequence(padded) /\ Len(padded) = n
  <2>1. padded = [i \in 1 .. n |-> padded[i]]
    BY DEF PadTo
  <2> HIDE DEF padded, n
  <2> QED BY <1>0, <2>1, MadeSequence
<1> HIDE DEF padded
<1>6. ReferenceRoot(padded, e) = ReferenceRoot(chunks, e)
  BY <1>0, <1>4, OnlyRoomCounts
<1>7. NewRootWithDepth(padded, e) = ReferenceRoot(padded, e)
  <2>1. Len(padded) # 0 /\ Len(padded) <= 2^e
    <3>1. n # 0 /\ n <= n
      <4> HIDE DEF n
      <4> QED BY <1>0
    <3> QED BY <1>5, <3>1
  <2> QED BY <1>5, <2>1, RootAlone
<1>8. ASSUME n = 1 PROVE e = 0 /\ padded[1] = ReferenceRoot(padded, 0)
  <2>1. e = 0
    <3>1. e < n
      BY <1>0, PowerPositive
    <3> HIDE DEF n
    <3> QED BY <1>0, <1>8, <3>1
  <2>2. NodesOf(padded)[0] = padded[1]
    BY <1>5, <1>8 DEF NodesOf
  <2> QED BY <2>1, <2>2, NoHeight
<1>9. Padded(chunks, n) = [ok |-> TRUE, root |-> IF Len(padded) = 1 THEN padded[1]
                                                ELSE NewRootWithMaxLeaves(padded, n)]
  BY DEF Padded, padded
<1>10. NewRootWithMaxLeaves(padded, n) = ReferenceRoot(chunks, e)
  BY <1>3, <1>6, <1>7 DEF NewRootWithMaxLeaves
<1>11. Len(padded) = 1 => padded[1] = ReferenceRoot(chunks, e)
  BY <1>5, <1>6, <1>8
<1> QED BY <1>9, <1>10, <1>11

\* Merkleize with a limit that the list keeps.
LEMMA MerkleizedWithin ==
    ASSUME NEW chunks, IsSequence(chunks), NEW limit \in Nat, Len(chunks) <= limit,
           ILog2Ceil(limit) <= NumZeroHashes
    PROVE  Padded(chunks, NextPowerOfTwo(limit)) = [ok |-> TRUE, root |-> ReferenceRoot(chunks, ILog2Ceil(limit))]
           /\ Merkleize(chunks, limit) = [ok |-> TRUE, root |-> ReferenceRoot(chunks, ILog2Ceil(limit))]
<1> DEFINE e == ILog2Ceil(limit)
           n == 2^e
<1>1. e \in Nat /\ limit <= n
  BY CeilIsLeast
<1> HIDE DEF e
<1>2. n \in Nat /\ Len(chunks) \in Nat /\ e \in 0 .. NumZeroHashes
  <2>1. n \in Nat
    BY <1>1, PowerPositive
  <2>2. Len(chunks) \in Nat
    BY SequenceLen
  <2>3. e <= NumZeroHashes
    BY DEF e
  <2>4. e \in 0 .. NumZeroHashes
    BY <1>1, <2>3 DEF NumZeroHashes
  <2> QED BY <2>1, <2>2, <2>4
<1>3. Len(chunks) <= n
  <2> HIDE DEF n
  <2> QED BY <1>1, <1>2
<1>4. Padded(chunks, n) = [ok |-> TRUE, root |-> ReferenceRoot(chunks, e)]
  BY <1>2, <1>3, PaddedRoot
<1>5. limit >= Len(chunks)
  BY <1>2
<1> QED BY <1>4, <1>5 DEF Merkleize, NextPowerOfTwo, n, e

LEMMA VectorRoot ==
    ASSUME NEW chunks, IsSequence(chunks), ILog2Ceil(Len(chunks)) <= NumZeroHashes
    PROVE  MerkleizeVec(chunks) = [ok |-> TRUE, root |-> ReferenceRoot(chunks, ILog2Ceil(Len(chunks)))]
<1>1. Len(chunks) \in Nat
  BY SequenceLen
<1> QED BY <1>1, MerkleizedWithin DEF MerkleizeVec

LEMMA CompositeListRoot ==
    ASSUME NEW htrs, IsSequence(htrs), NEW limit \in Nat, Len(htrs) <= limit,
           ILog2Ceil(limit) <= NumZeroHashes
    PROVE  MerkleizeListComposite(htrs, limit)
              = [ok |-> TRUE, root |-> MerkleizeWithMixin(htrs, Len(htrs), limit)]
<1>1. Len(htrs) \in Nat
  BY SequenceLen
<1>2. ChunkCountCompositeList(htrs, limit) = limit
  BY <1>1 DEF ChunkCountCompositeList
<1> DEFINE r == Merkleize(htrs, limit)
<1>3. r = [ok |-> TRUE, root |-> ReferenceRoot(htrs, ILog2Ceil(limit))]
  BY MerkleizedWithin
<1> HIDE DEF r
<1>4. MixedIn(r, Len(htrs)) = [ok |-> TRUE, root |-> MerkleizeWithMixin(htrs, Len(htrs), limit)]
  BY <1>3 DEF MixedIn, MerkleizeWithMixin
<1> QED BY <1>2, <1>4 DEF MerkleizeListComposite, r

LEMMA CeilDivFacts ==
    ASSUME NEW a \in Nat, NEW b \in Nat \ {0}
    PROVE  /\ CeilDiv(a, b) \in Nat /\ CeilDiv(a, b) <= a /\ (a # 0 => CeilDiv(a, b) # 0)
           /\ \A c \in Nat : a <= c => CeilDiv(a, b) <= CeilDiv(c, b)
<1> DEFINE x == a + b - 1
           q == x \div b
<1>1. x \in Nat /\ b * q + (x % b) = x /\ x % b \in 0 .. b - 1 /\ q \in Nat
  <2>1. x \in Nat
    OBVIOUS
  <2> HIDE DEF x
  <2> QED BY <2>1, DivMod, ModRange
<1>2. q <= a
  <2>1. ASSUME a < q PROVE FALSE
    <3> DEFINE m == b * a
               n == b * q
    <3>1. m + b <= n
      <4> HIDE DEF q
      <4> QED BY <1>1, <2>1, Multiples
    <3>2. a <= m
      <4>1. 1 * a <= b * a
        BY TimesMonotonic
      <4> QED BY <4>1
    <3>3. m \in Nat /\ n \in Nat
      <4> HIDE DEF q
      <4> QED BY <1>1
    <3>4. n <= x
      <4> HIDE DEF n
      <4>1. n + (x % b) = x /\ x % b \in 0 .. b - 1
        BY <1>1 DEF n
      <4> HIDE DEF x
      <4> DEFINE r == x % b
      <4>2. n + r = x /\ r \in 0 .. b - 1
        BY <4>1
      <4> HIDE DEF r
      <4> QED BY <1>1, <3>3, <4>2
    <3> HIDE DEF m, n
    <3> QED BY <3>1, <3>2, <3>3, <3>4
  <2> HIDE DEF q
  <2> QED BY <1>1, <2>1
<1>3. a # 0 => q # 0
  <2>1. ASSUME a # 0, q = 0 PROVE FALSE
    <3>1. x >= b
      BY <2>1
    <3> HIDE DEF q
    <3>2. b * q = 0
      BY <2>1
    <3> DEFINE r == x % b
    <3>3. r = x /\ r \in 0 .. b - 1
      <4>1. b * q + r = x /\ r \in 0 .. b - 1
        BY <1>1
      <4> HIDE DEF r, x
      <4> QED BY <1>1, <3>2, <4>1
    <3> HIDE DEF r
    <3> QED BY <3>1, <3>3
  <2> QED BY <2>1
<1>4. ASSUME NEW c \in Nat, a <= c PROVE q <= CeilDiv(c, b)
  <2> DEFINE y == c + b - 1
  <2>1. y \in Nat /\ x <= y
    BY <1>4
  <2> HIDE DEF x, y
  <2>2. x \div b <= y \div b
    BY <1>1, <2>1, QuotientMonotone
  <2> QED BY <2>2 DEF CeilDiv, y
<1>5. CeilDiv(a, b) = q
  BY DEF CeilDiv
<1> HIDE DEF q
<1> QED BY <1>1, <1>2, <1>3, <1>4, <1>5

LEMMA PackLength ==
    ASSUME NEW b, Len(b) \in Nat, NEW perChunk \in Nat \ {0}
    PROVE  IsSequence(Pack(b, perChunk)) /\ Len(Pack(b, perChunk)) = AtLeastOne(CeilDiv(Len(b), perChunk))
<1> DEFINE n == AtLeastOne(CeilDiv(Len(b), perChunk))
           s == Pack(b, perChunk)
<1>1. n \in Nat
  BY CeilDivFacts DEF AtLeastOne
<1>2. s = [c \in 1 .. n |-> s[c]]
  BY DEF Pack
<1> HIDE DEF n, s
<1>3. IsSequence(s) /\ Len(s) = n
  BY <1>1, <1>2, MadeSequence
<1> QED BY <1>3 DEF n, s

LEMMA ListRootsRight ==
    ASSUME NEW b, IsSequence(b), NEW limit \in Nat, NEW perChunk \in Nat \ {0},
           ILog2Ceil(limit) < NumZeroHashes, ILog2Ceil(Len(b)) < NumZeroHashes
    PROVE  ListRoots(b, limit, perChunk)
<1> DEFINE chunks == Pack(b, perChunk)
           chunkLimit == CeilDiv(limit, perChunk)
           count == CeilDiv(Len(b), perChunk)
           basic == MerkleizeListBasic(b, limit, perChunk)
           htrs == [i \in 1 .. Len(b) |-> Chunk(b[i])]
           composite == MerkleizeListComposite(htrs, limit)
<1>0. Len(b) \in Nat /\ (b = <<>> <=> Len(b) = 0)
  BY SequenceLen DEF IsSequence
<1>1. /\ count \in Nat /\ count <= Len(b) /\ (Len(b) # 0 => count # 0)
      /\ (Len(b) <= limit => count <= chunkLimit)
  BY <1>0, CeilDivFacts
<1>2. chunkLimit \in Nat /\ chunkLimit <= limit /\ (limit # 0 => chunkLimit # 0)
  BY CeilDivFacts
<1>3. IsSequence(chunks) /\ Len(chunks) = AtLeastOne(count)
  BY <1>0, PackLength
<1>4. IsSequence(htrs) /\ Len(htrs) = Len(b)
  <2>1. htrs = [i \in 1 .. Len(b) |-> htrs[i]]
    OBVIOUS
  <2> HIDE DEF htrs
  <2> QED BY <1>0, <2>1, MadeSequence
<1>5. MerkleizeListBasic(b, limit, perChunk)
         = MixedIn(Merkleize(chunks, ChunkCountBasicList(b, limit, perChunk)), Len(b))
  BY DEF MerkleizeListBasic
<1>6. Len(b) # 0 /\ chunkLimit # 0 => ChunkCountBasicList(b, limit, perChunk) = chunkLimit
  BY DEF ChunkCountBasicList
<1>zero. NumZeroHashes = 64
  BY DEF NumZeroHashes
<1>7. ILog2Ceil(chunkLimit) <= NumZeroHashes /\ ILog2Ceil(limit) <= NumZeroHashes
  <2>1. ILog2Ceil(chunkLimit) \in Nat /\ ILog2Ceil(limit) \in Nat /\ ILog2Ceil(chunkLimit) <= ILog2Ceil(limit)
    BY <1>2, CeilIsLeast, CeilMonotone
  <2> QED BY <1>zero, <2>1
<1>8. ILog2Ceil(Len(chunks)) <= NumZeroHashes
  <2>1. CASE count = 0
    <3>1. Len(chunks) = 2^0
      BY <1>3, <2>1, PowerOfNone DEF AtLeastOne
    <3>2. ILog2Ceil(Len(chunks)) = 0
      BY <3>1, CeilOfPower
    <3> QED BY <1>zero, <3>2
  <2>2. CASE count # 0
    <3>1. Len(chunks) \in Nat /\ Len(chunks) <= Len(b)
      BY <1>0, <1>1, <1>3, <2>2 DEF AtLeastOne
    <3>2. ILog2Ceil(Len(chunks)) \in Nat /\ ILog2Ceil(Len(b)) \in Nat /\ ILog2Ceil(Len(chunks)) <= ILog2Ceil(Len(b))
      BY <1>0, <3>1, CeilIsLeast, CeilMonotone
    <3> QED BY <1>zero, <3>2
  <2> QED BY <2>1, <2>2
<1>9. MerkleizeVecBasic(b, perChunk).root = ReferenceRoot(chunks, ILog2Ceil(Len(chunks)))
  BY <1>3, <1>8, VectorRoot DEF MerkleizeVecBasic
<1>10. MerkleizeVecComposite(htrs).root = ReferenceRoot(htrs, ILog2Ceil(Len(htrs)))
  <2>1. ILog2Ceil(Len(b)) \in Nat
    BY <1>0, CeilIsLeast
  <2>2. ILog2Ceil(Len(htrs)) <= NumZeroHashes
    <3> HIDE DEF htrs
    <3> QED BY <1>4, <1>zero, <2>1
  <2> HIDE DEF htrs
  <2> QED BY <1>4, <2>2, VectorRoot DEF MerkleizeVecComposite
<1>11. ASSUME b # <<>>, Len(b) <= limit
       PROVE  basic = [ok |-> TRUE, root |-> MerkleizeWithMixin(chunks, Len(b), chunkLimit)]
  <2> HIDE DEF chunks, chunkLimit, count
  <2>1. Len(b) # 0 /\ limit # 0 /\ chunkLimit # 0 /\ count # 0
    BY <1>0, <1>1, <1>2, <1>11
  <2>2. Len(chunks) <= chunkLimit
    BY <1>1, <1>3, <1>11, <2>1 DEF AtLeastOne
  <2> DEFINE r == Merkleize(chunks, chunkLimit)
  <2>3. r = [ok |-> TRUE, root |-> ReferenceRoot(chunks, ILog2Ceil(chunkLimit))]
    BY <1>2, <1>3, <1>7, <2>2, MerkleizedWithin
  <2>4. basic = MixedIn(r, Len(b))
    BY <1>5, <1>6, <2>1
  <2> HIDE DEF r, basic
  <2> QED BY <2>3, <2>4 DEF MixedIn, MerkleizeWithMixin
<1>12. ASSUME chunkLimit > 0, Len(chunks) > chunkLimit PROVE ~basic.ok
  <2> HIDE DEF chunks, chunkLimit, count
  <2>1. Len(b) # 0
    <3>1. ASSUME Len(b) = 0 PROVE FALSE
      <4>1. Len(chunks) = 1
        BY <1>1, <1>3, <3>1 DEF AtLeastOne
      <4> QED BY <1>2, <1>12, <4>1
    <3> QED BY <3>1
  <2>2. chunkLimit # 0 /\ Len(chunks) \in Nat /\ ~(chunkLimit >= Len(chunks))
    BY <1>1, <1>2, <1>3, <1>12 DEF AtLeastOne
  <2>3. basic = MixedIn(Error, Len(b))
    BY <1>5, <1>6, <2>1, <2>2 DEF Merkleize
  <2> HIDE DEF basic
  <2> QED BY <2>3 DEF MixedIn, Error
<1>13. ASSUME Len(b) <= limit
       PROVE  composite = [ok |-> TRUE, root |-> MerkleizeWithMixin(htrs, Len(b), limit)]
  <2> HIDE DEF htrs
  <2> QED BY <1>4, <1>7, <1>13, CompositeListRoot
<1> QED BY <1>9, <1>10, <1>11, <1>12, <1>13 DEF ListRoots

-----------------------------------------------------------------------------
(* Walking up a branch in parts.                                           *)

LEMMA ShiftTwice ==
    ASSUME NEW i \in Nat, NEW m \in Nat, NEW n \in Nat
    PROVE  i \div 2^(m + n) = (i \div 2^m) \div 2^n
<1> DEFINE a == i \div 2^m
           N == {d \in Nat : i \div 2^(m + d) = a \div 2^d}
<1>1. a \in Nat
  BY Shift
<1>2. 0 \in N
  <2> DEFINE e == m + 0
  <2>1. e = m
    OBVIOUS
  <2> HIDE DEF e
  <2>2. i \div 2^e = a
    BY <2>1
  <2>3. a \div 2^0 = a
    <3> HIDE DEF a
    <3> QED BY <1>1, Shift
  <2> HIDE DEF a
  <2> QED BY <2>2, <2>3 DEF e
<1>3. \A d \in Nat : d \in N => d + 1 \in N
  <2> SUFFICES ASSUME NEW d \in Nat, d \in N PROVE i \div 2^(m + (d + 1)) = a \div 2^(d + 1)
    OBVIOUS
  <2> DEFINE e == m + d
  <2>1. e \in Nat /\ m + (d + 1) = e + 1 /\ i \div 2^e = a \div 2^d
    OBVIOUS
  <2> HIDE DEF e, a
  <2>2. i \div 2^(e + 1) = (i \div 2^e) \div 2 /\ a \div 2^(d + 1) = (a \div 2^d) \div 2
    BY <1>1, <2>1, Shift
  <2> QED BY <2>1, <2>2
<1> HIDE DEF N
<1>4. n \in N
  BY <1>2, <1>3, InductionOverNat
<1> QED BY <1>4 DEF N, a

\* A branch of two parts is walked one part after the other.
LEMMA WalkInParts ==
    ASSUME NEW a, IsSequence(a), NEW b, IsSequence(b), NEW index \in Nat, NEW x
    PROVE  RootFromBranch(x, a \o b, index)
              = RootFromBranch(RootFromBranch(x, a, index), b, index \div 2^Len(a))
<1> DEFINE m == Len(a)
           n == Len(b)
           c == a \o b
           k == m + n
           above == index \div 2^m
           f == PathTo(x, c, index, k)
           g == PathTo(x, a, index, m)
           h == PathTo(g[m], b, above, n)
<1>0. m \in Nat /\ n \in Nat /\ k \in Nat
  BY SequenceLen
<1>1. Len(c) = k /\ (\A l \in 1 .. m : c[l] = a[l]) /\ \A l \in 1 .. n : c[m + l] = b[l]
  <2> DEFINE V == {a[l] : l \in 1 .. Len(a)}
             W == {b[l] : l \in 1 .. Len(b)}
             U == V \cup W
  <2>1. a \in Seq(V) /\ b \in Seq(W) /\ V \subseteq U /\ W \subseteq U
    BY DEF IsSequence
  <2> HIDE DEF V, W, U
  <2>2. a \in Seq(U) /\ b \in Seq(U)
    BY <2>1
  <2> QED BY <2>2
<1>2. f[0] = x /\ \A d \in 0 .. k - 1 : f[d + 1] = JoinedWith(c, index, f[d], d + 1)
  BY <1>0, PathToSteps
<1>3. g[0] = x /\ \A d \in 0 .. m - 1 : g[d + 1] = JoinedWith(a, index, g[d], d + 1)
  BY <1>0, PathToSteps
<1>4. h[0] = g[m] /\ \A d \in 0 .. n - 1 : h[d + 1] = JoinedWith(b, above, h[d], d + 1)
  BY <1>0, PathToSteps
<1>5. RootFromBranch(x, c, index) = f[k] /\ RootFromBranch(x, a, index) = g[m]
      /\ RootFromBranch(g[m], b, above) = h[n]
  BY <1>1, RootIsPath
<1> HIDE DEF f, g, h, c, k, m, n, above
<1>6. f[m] = g[m]
  <2> DEFINE N == {d \in Nat : d <= m => f[d] = g[d]}
  <2>1. 0 \in N
    BY <1>2, <1>3
  <2>2. \A d \in Nat : d \in N => d + 1 \in N
    <3> SUFFICES ASSUME NEW d \in Nat, d \in N, d + 1 <= m PROVE f[d + 1] = g[d + 1]
      OBVIOUS
    <3>1. d \in 0 .. k - 1 /\ d \in 0 .. m - 1 /\ d + 1 \in 1 .. m /\ f[d] = g[d]
      BY <1>0 DEF k
    <3>2. f[d + 1] = JoinedWith(c, index, g[d], d + 1) /\ g[d + 1] = JoinedWith(a, index, g[d], d + 1)
      BY <1>2, <1>3, <3>1
    <3>3. c[d + 1] = a[d + 1]
      BY <1>1, <3>1
    <3> QED BY <3>2, <3>3 DEF JoinedWith
  <2> HIDE DEF N
  <2>3. m \in N
    BY <1>0, <2>1, <2>2, InductionOverNat
  <2> QED BY <1>0, <2>3 DEF N
<1>7. f[m + n] = h[n]
  <2> DEFINE N == {d \in Nat : d <= n => f[m + d] = h[d]}
  <2>1. 0 \in N
    <3>1. m + 0 = m
      BY <1>0
    <3> QED BY <1>4, <1>6, <3>1
  <2>2. \A d \in Nat : d \in N => d + 1 \in N
    <3> SUFFICES ASSUME NEW d \in Nat, d \in N, d + 1 <= n PROVE f[m + (d + 1)] = h[d + 1]
      OBVIOUS
    <3> DEFINE e == m + d
    <3>1. /\ e \in 0 .. k - 1 /\ d \in 0 .. n - 1 /\ d + 1 \in 1 .. n /\ f[e] = h[d]
          /\ m + (d + 1) = e + 1 /\ (e + 1) - 1 = e /\ (d + 1) - 1 = d
      BY <1>0 DEF k
    <3>2. index \div 2^e = above \div 2^d
      BY <1>0, ShiftTwice DEF above
    <3> HIDE DEF e
    <3>3. f[e + 1] = JoinedWith(c, index, h[d], e + 1) /\ h[d + 1] = JoinedWith(b, above, h[d], d + 1)
      BY <1>2, <1>4, <3>1
    <3>4. c[e + 1] = b[d + 1]
      BY <1>1, <3>1
    <3>5. IndexBit(index, e) <=> IndexBit(above, d)
      BY <3>2 DEF IndexBit
    <3>6. f[e + 1] = h[d + 1]
      BY <3>1, <3>3, <3>4, <3>5 DEF JoinedWith
    <3> QED BY <3>1, <3>6
  <2> HIDE DEF N
  <2>3. n \in N
    BY <1>0, <2>1, <2>2, InductionOverNat
  <2> QED BY <1>0, <2>3 DEF N
<1>8. f[k] = h[n]
  BY <1>7 DEF k
<1> QED BY <1>5, <1>8 DEF c, m, above

\* Only the bits of an index that a branch has nodes for matter.
LEMMA SameWalk ==
    ASSUME NEW branch, IsSequence(branch), NEW g, NEW j, SameBits(g, j, Len(branch)), NEW x
    PROVE  RootFromBranch(x, branch, g) = RootFromBranch(x, branch, j)
<1> DEFINE n == Len(branch)
           f == PathTo(x, branch, g, n)
           h == PathTo(x, branch, j, n)
           N == {d \in Nat : d <= n => f[d] = h[d]}
<1>0. n \in Nat
  BY SequenceLen
<1>1. f[0] = x /\ \A d \in 0 .. n - 1 : f[d + 1] = JoinedWith(branch, g, f[d], d + 1)
  BY <1>0, PathToSteps
<1>2. h[0] = x /\ \A d \in 0 .. n - 1 : h[d + 1] = JoinedWith(branch, j, h[d], d + 1)
  BY <1>0, PathToSteps
<1>3. RootFromBranch(x, branch, g) = f[n] /\ RootFromBranch(x, branch, j) = h[n]
  BY RootIsPath
<1>b. \A d \in 0 .. n - 1 : IndexBit(g, d) <=> IndexBit(j, d)
  BY DEF SameBits
<1> HIDE DEF f, h, n
<1>4. 0 \in N
  BY <1>1, <1>2
<1>5. \A d \in Nat : d \in N => d + 1 \in N
  <2> SUFFICES ASSUME NEW d \in Nat, d \in N, d + 1 <= n PROVE f[d + 1] = h[d + 1]
    OBVIOUS
  <2>1. d \in 0 .. n - 1 /\ f[d] = h[d] /\ (d + 1) - 1 = d
    BY <1>0
  <2>2. f[d + 1] = JoinedWith(branch, g, h[d], d + 1) /\ h[d + 1] = JoinedWith(branch, j, h[d], d + 1)
    BY <1>1, <1>2, <2>1
  <2> QED BY <1>b, <2>1, <2>2 DEF JoinedWith
<1> HIDE DEF N
<1>6. n \in N
  BY <1>0, <1>4, <1>5, InductionOverNat
<1>7. f[n] = h[n]
  BY <1>0, <1>6 DEF N
<1> QED BY <1>3, <1>7

LEMMA MultipleAbove ==
    ASSUME NEW k \in Nat, NEW i \in Nat, NEW c \in Nat
    PROVE  SameBits(c * 2^k + i, i, k)
<1> DEFINE p == 2^k
           N == {m \in Nat : SameBits(m * p + i, i, k)}
<1>1. p \in Nat
  BY PowerPositive
<1>2. 0 \in N
  <2>1. 0 * p + i = i
    <3> HIDE DEF p
    <3> QED BY <1>1
  <2>2. SameBits(i, i, k)
    BY DEF SameBits
  <2> QED BY <2>1, <2>2
<1>3. \A m \in Nat : m \in N => m + 1 \in N
  <2> SUFFICES ASSUME NEW m \in Nat, m \in N PROVE SameBits((m + 1) * p + i, i, k)
    OBVIOUS
  <2> DEFINE j == m * p + i
  <2>1. j \in Nat /\ (m + 1) * p + i = p + j
    <3> HIDE DEF p
    <3>1. m * p \in Nat /\ (m + 1) * p = m * p + p
      BY <1>1
    <3> DEFINE q == m * p
    <3>2. q \in Nat /\ (m + 1) * p = q + p
      BY <3>1
    <3> HIDE DEF q
    <3>3. q + i \in Nat /\ (q + p) + i = p + (q + i)
      BY <1>1, <3>2
    <3> QED BY <3>2, <3>3 DEF q
  <2>2. SameBits(j, i, k)
    OBVIOUS
  <2> HIDE DEF j
  <2>3. SameBits(p + j, j, k)
    BY <2>1, LowerBits
  <2>4. SameBits(p + j, i, k)
    BY <2>2, <2>3 DEF SameBits
  <2> QED BY <2>1, <2>4
<1> HIDE DEF N
<1>4. c \in N
  BY <1>2, <1>3, InductionOverNat
<1> QED BY <1>4 DEF N, p

\* The proof of a leaf leads to the root, for every index with the leaf's bits, and
\* a walk with these bits to the root began at the leaf.
LEMMA BranchLeads ==
    ASSUME NEW m, NEW leaves, TreeOf(m, leaves), NEW i \in Nat, i < Len(leaves), i < 2^m.depth,
           NEW g, SameBits(g, i, m.depth)
    PROVE  RootFromBranch(leaves[i + 1], MerkleProof(m, i).proof, g) = ReferenceRoot(leaves, m.depth)
<1> DEFINE depth == m.depth
           R == ReferenceNodes(leaves, depth)
           branch == MerkleProof(m, i).proof
<1>1. depth \in Nat
  <2>1. depth \in 1 .. MaxTreeDepth
    BY DEF TreeOf
  <2> HIDE DEF depth
  <2> QED BY <2>1 DEF MaxTreeDepth
<1>2. Len(branch) = depth /\ LeadsUp(branch, R, i, depth)
  BY MerkleProofLeadsUp
<1>3. R[0] = NodesOf(leaves) /\ Stacked(R, depth)
  BY <1>1, ReferenceSteps DEF Stacked
<1>4. R[0][i] = leaves[i + 1]
  BY <1>3 DEF NodesOf
<1>5. i \div 2^depth = 0
  BY <1>1, Shift
<1>6. SameBits(g, i, depth) /\ depth <= depth
  BY <1>1
<1> HIDE DEF depth, R, branch
<1>7. PathTo(R[0][i], branch, g, depth)[depth] = R[depth][i \div 2^depth]
  BY <1>1, <1>2, <1>3, <1>6, PathPassesNodes
<1>8. RootFromBranch(leaves[i + 1], branch, g) = R[depth][0]
  BY <1>2, <1>4, <1>5, <1>7, RootIsPath
<1> QED BY <1>8 DEF ReferenceRoot, R, depth, branch

LEMMA BranchBinds ==
    ASSUME NEW leaves, NEW branch, IsSequence(branch), NEW j \in Nat, j < 2^Len(branch),
           NEW g, SameBits(g, j, Len(branch)), NEW x,
           RootFromBranch(x, branch, g) = ReferenceRoot(leaves, Len(branch))
    PROVE  x = NodesOf(leaves)[j]
<1> DEFINE depth == Len(branch)
           R == ReferenceNodes(leaves, depth)
<1>1. depth \in Nat
  BY SequenceLen
<1>2. R[0] = NodesOf(leaves) /\ Stacked(R, depth)
  BY <1>1, ReferenceSteps DEF Stacked
<1>3. j \div 2^depth = 0
  BY <1>1, Shift
<1>4. RootFromBranch(x, branch, j) = R[depth][0]
  BY SameWalk DEF ReferenceRoot
<1>5. RootFromBranch(x, branch, j) = PathTo(x, branch, j, depth)[depth]
  BY RootIsPath
<1> HIDE DEF depth, R
<1>6. PathTo(x, branch, j, depth)[depth] = R[depth][j \div 2^depth]
  BY <1>3, <1>4, <1>5
<1>7. x = R[0][j]
  BY <1>1, <1>2, <1>6, PathBinds
<1> QED BY <1>2, <1>7

-----------------------------------------------------------------------------
(* The tree of a body, whose sixth field holds the commitments.            *)

LEMMA SmallPowers == 2^0 = 1 /\ 2^1 = 2 /\ 2^2 = 4 /\ 2^3 = 8
<1>1. 2^0 = 1
  BY PowerOfNone
<1>2. 2^1 = 2
  <2>1. 2^(0 + 1) = 2 * 2^0 /\ 0 + 1 = 1
    BY PowerDoubles
  <2> QED BY <1>1, <2>1
<1>3. 2^2 = 4
  <2>1. 2^(1 + 1) = 2 * 2^1 /\ 1 + 1 = 2
    BY PowerDoubles
  <2> QED BY <1>2, <2>1
<1>4. 2^3 = 8
  <2>1. 2^(2 + 1) = 2 * 2^2 /\ 2 + 1 = 3
    BY PowerDoubles
  <2> QED BY <1>3, <2>1
<1> QED BY <1>1, <1>2, <1>3, <1>4

\* The tree of a body: the root by its leaf at position 5 and the nodes beside its path.
AroundFive(leaves) ==
    LET n == NodesOf(leaves)
    IN <<n[4], Hash(n[6], n[7]), Hash(Hash(n[0], n[1]), Hash(n[2], n[3]))>>
ThroughFive(beside, x) == Hash(beside[3], Hash(Hash(beside[1], x), beside[2]))

LEMMA BodyTree ==
    ASSUME NEW leaves
    PROVE  LET R == ReferenceNodes(leaves, 3)
           IN /\ ReferenceRoot(leaves, 3) = ThroughFive(AroundFive(leaves), NodesOf(leaves)[5])
              /\ AroundFive(leaves) = <<R[0][4], R[1][3], R[2][0]>>
<1> DEFINE R == ReferenceNodes(leaves, 3)
           n == NodesOf(leaves)
<1>1. R[0] = n /\ \A i \in 0 .. 3 - 1 : R[i + 1] = NodesAbove(R[i])
  BY ReferenceSteps
<1> HIDE DEF R
<1>2. R[1] = NodesAbove(R[0]) /\ R[2] = NodesAbove(R[1]) /\ R[3] = NodesAbove(R[2])
  <2>1. 0 \in 0 .. 3 - 1 /\ 1 \in 0 .. 3 - 1 /\ 2 \in 0 .. 3 - 1 /\ 0 + 1 = 1 /\ 1 + 1 = 2 /\ 2 + 1 = 3
    OBVIOUS
  <2> QED BY <1>1, <2>1
<1>3. \A f : \A i \in Nat : NodesAbove(f)[i] = Hash(f[2 * i], f[2 * i + 1])
  BY DEF NodesAbove
<1> HIDE DEF n
<1>4. R[1][0] = Hash(n[0], n[1]) /\ R[1][1] = Hash(n[2], n[3])
      /\ R[1][2] = Hash(n[4], n[5]) /\ R[1][3] = Hash(n[6], n[7])
  BY <1>1, <1>2, <1>3
<1>5. R[2][0] = Hash(R[1][0], R[1][1]) /\ R[2][1] = Hash(R[1][2], R[1][3])
  BY <1>2, <1>3
<1>6. R[3][0] = Hash(R[2][0], R[2][1])
  BY <1>2, <1>3
<1>7. AroundFive(leaves) = <<R[0][4], R[1][3], R[2][0]>>
  BY <1>1, <1>4, <1>5 DEF AroundFive, n
<1>8. R[3][0] = ThroughFive(<<R[0][4], R[1][3], R[2][0]>>, n[5])
  BY <1>1, <1>4, <1>5, <1>6 DEF ThroughFive
<1> QED BY <1>7, <1>8 DEF ReferenceRoot, R, n

\* A change of the leaf at position 5 leaves the nodes beside its path alone.
LEMMA BesideFive ==
    ASSUME NEW s, NEW t, \A i \in 0 .. 7 : i # 5 => NodesOf(s)[i] = NodesOf(t)[i]
    PROVE  AroundFive(s) = AroundFive(t)
BY DEF AroundFive

\* The bits of 13, the place of the commitments in the tree of a body, are those of 5.
LEMMA WalkFromThirteen ==
    ASSUME NEW branch, IsSequence(branch), Len(branch) = 3, NEW x
    PROVE  RootFromBranch(x, branch, 13) = ThroughFive(branch, x)
<1> DEFINE f == PathTo(x, branch, 13, 3)
<1>1. f[0] = x /\ \A d \in 0 .. 3 - 1 : f[d + 1] = JoinedWith(branch, 13, f[d], d + 1)
  <2> DEFINE n == 3
             g == PathTo(x, branch, 13, n)
  <2>1. n \in Nat
    OBVIOUS
  <2> HIDE DEF n
  <2>2. g[0] = x /\ \A d \in 0 .. n - 1 : g[d + 1] = JoinedWith(branch, 13, g[d], d + 1)
    BY <2>1, PathToSteps
  <2> QED BY <2>2 DEF n
<1>2. RootFromBranch(x, branch, 13) = f[3]
  BY RootIsPath
<1> HIDE DEF f
<1>3. f[1] = JoinedWith(branch, 13, x, 1) /\ f[2] = JoinedWith(branch, 13, f[1], 2)
      /\ f[3] = JoinedWith(branch, 13, f[2], 3)
  <2>1. 0 \in 0 .. 3 - 1 /\ 1 \in 0 .. 3 - 1 /\ 2 \in 0 .. 3 - 1 /\ 0 + 1 = 1 /\ 1 + 1 = 2 /\ 2 + 1 = 3
    OBVIOUS
  <2> QED BY <1>1, <2>1
<1>4. IndexBit(13, 0) /\ ~IndexBit(13, 1) /\ IndexBit(13, 2)
  <2>1. 13 \div 2^0 = 13 /\ 13 \div 2^1 = 6 /\ 13 \div 2^2 = 3
    BY SmallPowers
  <2> QED BY <2>1 DEF IndexBit
<1>5. f[1] = Hash(branch[1], x)
  BY <1>3, <1>4 DEF JoinedWith
<1>6. f[2] = Hash(f[1], branch[2])
  BY <1>3, <1>4 DEF JoinedWith
<1>7. f[3] = Hash(branch[3], f[2])
  BY <1>3, <1>4 DEF JoinedWith
<1> QED BY <1>2, <1>5, <1>6, <1>7 DEF ThroughFive

\* The proof that BuildBlockBodyProof makes.
LEMMA BodyProof ==
    ASSUME NEW roots, IsSequence(roots), Len(roots) = 6
    PROVE  LET p == MerkleProof(NewTreeWithMaxLeaves(roots, BodyLengthDeneb - 1), KZGPositionDeneb)
           IN p = [ok |-> TRUE, proof |-> p.proof] /\ IsSequence(p.proof) /\ Len(p.proof) = 3
              /\ p.proof[1] = AroundFive(roots)[1] /\ p.proof[2] = AroundFive(roots)[2]
              /\ p.proof[3] = AroundFive(roots)[3]
<1> DEFINE m == NewTreeFromLeavesWithDepth(roots, 3)
           R == ReferenceNodes(roots, 3)
           p == MerkleProof(m, 5)
<1>1. BodyLengthDeneb - 1 = 5 /\ KZGPositionDeneb = 5
  BY DEF BodyLengthDeneb, KZGPositionDeneb
<1>2. ILog2Ceil(5) = 3
  <2> DEFINE d == ILog2Ceil(5)
  <2>1. d \in Nat /\ 5 <= 2^d /\ \A e \in Nat : 5 <= 2^e => d <= e
    BY CeilIsLeast
  <2> HIDE DEF d
  <2>2. d <= 3
    <3>1. 5 <= 2^3
      BY SmallPowers
    <3> QED BY <2>1, <3>1
  <2>3. d # 0 /\ d # 1 /\ d # 2
    <3>1. ~(5 <= 2^0) /\ ~(5 <= 2^1) /\ ~(5 <= 2^2)
      BY SmallPowers
    <3> QED BY <2>1, <3>1
  <2>4. d = 3
    BY <2>1, <2>2, <2>3
  <2> QED BY <2>4 DEF d
<1>3. NewTreeWithMaxLeaves(roots, 5) = m
  BY <1>2, CeilOfPower DEF NewTreeWithMaxLeaves, NextPowerOfTwo
<1>4. m.ok /\ m.depth = 3
  <2>1. verifySufficientDepth(Len(roots), 3)
    BY SmallPowers DEF verifySufficientDepth, MaxTreeDepth
  <2> QED BY <2>1 DEF NewTreeFromLeavesWithDepth
<1>5. TreeOf(m, roots)
  BY <1>4, NewTreeIsOfLeaves
<1> HIDE DEF m
<1>6. /\ p = [ok |-> TRUE, proof |-> p.proof] /\ IsSequence(p.proof) /\ Len(p.proof) = 3
      /\ LeadsUp(p.proof, R, 5, 3)
  <2>1. 5 \in Nat /\ 5 < Len(roots)
    OBVIOUS
  <2>2. /\ p = [ok |-> TRUE, proof |-> p.proof] /\ IsSequence(p.proof) /\ Len(p.proof) = m.depth
        /\ LeadsUp(p.proof, ReferenceNodes(roots, m.depth), 5, m.depth)
    BY <1>5, <2>1, MerkleProofLeadsUp
  <2> QED BY <1>4, <2>2
<1> HIDE DEF p, R
<1> DEFINE q == p.proof
<1>7. q[1] = R[0][4] /\ q[2] = R[1][3] /\ q[3] = R[2][0]
  <2>1. \A d \in 0 .. 3 - 1 : q[d + 1] = R[d][Sibling(5 \div 2^d)]
    BY <1>6 DEF LeadsUp
  <2> HIDE DEF q
  <2>2. q[0 + 1] = R[0][Sibling(5 \div 2^0)] /\ q[1 + 1] = R[1][Sibling(5 \div 2^1)]
        /\ q[2 + 1] = R[2][Sibling(5 \div 2^2)]
    <3>1. 0 \in 0 .. 3 - 1 /\ 1 \in 0 .. 3 - 1 /\ 2 \in 0 .. 3 - 1
      OBVIOUS
    <3> QED BY <2>1, <3>1
  <2>3. 5 \div 2^0 = 5 /\ 5 \div 2^1 = 2 /\ 5 \div 2^2 = 1
    BY SmallPowers
  <2>4. Sibling(5) = 4 /\ Sibling(2) = 3 /\ Sibling(1) = 0
    BY DEF Sibling
  <2>5. q[0 + 1] = R[0][4] /\ q[1 + 1] = R[1][3] /\ q[2 + 1] = R[2][0]
    BY <2>2, <2>3, <2>4
  <2> QED BY <2>5
<1>8. AroundFive(roots) = <<R[0][4], R[1][3], R[2][0]>>
  BY BodyTree DEF R
<1> QED BY <1>1, <1>3, <1>6, <1>7, <1>8 DEF p

\* The index that HasValidInclusionProof walks with is above the body's list of commitments.
LEMMA IndexAboveList ==
    ASSUME NEW k \in Nat, NEW j \in Nat, j < 2^k
    PROVE  26 * 2^k + j \in Nat /\ (26 * 2^k + j) \div 2^k = 26
<1> DEFINE p == 2^k
           g == 26 * p + j
<1>1. p \in Nat \ {0} /\ j < p
  BY PowerPositive
<1> HIDE DEF p
<1>2. g \in Nat /\ g = p * 26 + j /\ j \in 0 .. p - 1
  BY <1>1
<1> HIDE DEF g
<1>3. g \in Nat /\ g \div p = 26
  BY <1>1, <1>2, QuotientUnique
<1> QED BY <1>3 DEF g, p

\* The walk of HasValidInclusionProof: inside the list, past the length, inside the body.
LEMMA InclusionWalk ==
    ASSUME NEW k \in Nat, NEW branch, IsSequence(branch), Len(branch) = k,
           NEW len, NEW q, IsSequence(q), Len(q) = 3, NEW x, NEW g \in Nat, g \div 2^k = 26
    PROVE  RootFromBranch(x, Append(branch, len) \o q, g)
              = ThroughFive(q, Hash(RootFromBranch(x, branch, g), len))
<1> DEFINE one == <<len>>
           longer == Append(branch, len)
           y == RootFromBranch(x, branch, g)
<1>2. g \in Nat
  OBVIOUS
<1>3. g \div 2^k = 26 /\ g \div 2^(k + 1) = 13
  <2>1. g \div 2^(k + 1) = (g \div 2^k) \div 2
    BY <1>2, Shift
  <2>2. 26 \div 2 = 13
    OBVIOUS
  <2> QED BY <2>1, <2>2
<1>4. IsSequence(longer) /\ Len(longer) = k + 1
  BY AppendedSequence
<1>5. longer = branch \o one
  <2> DEFINE V == {branch[l] : l \in 1 .. Len(branch)}
             W == V \cup {len}
  <2>1. branch \in Seq(V) /\ V \subseteq W /\ len \in W
    BY DEF IsSequence
  <2> HIDE DEF V, W
  <2>2. branch \in Seq(W)
    BY <2>1
  <2> QED BY <2>1, <2>2
<1>6. IsSequence(one) /\ Len(one) = 1 /\ one[1] = len
  <2>1. one = [l \in 1 .. 1 |-> one[l]]
    OBVIOUS
  <2>2. one[1] = len
    OBVIOUS
  <2> HIDE DEF one
  <2> QED BY <2>1, <2>2, MadeSequence
<1> HIDE DEF one, longer, y
<1>7. RootFromBranch(x, longer, g) = Hash(y, len)
  <2>1. RootFromBranch(x, longer, g) = RootFromBranch(y, one, g \div 2^k)
    BY <1>2, <1>5, <1>6, WalkInParts DEF y
  <2> DEFINE n == 1
             f == PathTo(y, one, 26, n)
  <2>2. RootFromBranch(y, one, 26) = f[n]
    BY <1>6, RootIsPath
  <2>3. n \in Nat /\ 0 \in 0 .. n - 1 /\ 0 + 1 = n
    OBVIOUS
  <2> HIDE DEF n
  <2>4. f[0] = y /\ \A d \in 0 .. n - 1 : f[d + 1] = JoinedWith(one, 26, f[d], d + 1)
    BY <2>3, PathToSteps
  <2> HIDE DEF f
  <2>5. f[n] = JoinedWith(one, 26, y, n)
    BY <2>3, <2>4
  <2>6. ~IndexBit(26, 0)
    <3>1. 26 \div 2^0 = 26
      BY SmallPowers
    <3> QED BY <3>1 DEF IndexBit
  <2>7. JoinedWith(one, 26, y, 1) = Hash(y, len)
    BY <1>6, <2>6 DEF JoinedWith
  <2> QED BY <1>3, <2>1, <2>2, <2>5, <2>7 DEF n
<1>8. RootFromBranch(x, longer \o q, g) = RootFromBranch(Hash(y, len), q, 13)
  BY <1>2, <1>3, <1>4, <1>7, WalkInParts
<1>9. RootFromBranch(x, longer \o q, g) = ThroughFive(q, Hash(y, len))
  BY <1>8, WalkFromThirteen
<1> QED BY <1>9 DEF longer, y

LEMMA ThroughFiveBinds ==
    ASSUME NEW q, NEW x, NEW y, ThroughFive(q, x) = ThroughFive(q, y)
    PROVE  x = y
BY HashBinds DEF ThroughFive

LEMMA BoundedIs ==
    ASSUME NEW S, NEW n \in Nat, NEW s \in BoundedSeq(S, n)
    PROVE  IsSequence(s) /\ Len(s) \in Nat /\ Len(s) <= n /\ \A l \in 1 .. Len(s) : s[l] \in S
<1>1. PICK m \in 0 .. n : s \in [1 .. m -> S]
  BY DEF BoundedSeq, SeqOf
<1>2. m \in Nat /\ s = [l \in 1 .. m |-> s[l]] /\ \A l \in 1 .. m : s[l] \in S
  BY <1>1
<1>3. IsSequence(s) /\ Len(s) = m
  BY <1>2, MadeSequence
<1> QED BY <1>1, <1>2, <1>3

\* The two ways to hash a payload agree on one without transactions.
LEMMA EmptyPayload ==
    ASSUME NEW p, p.txs = <<>>
    PROVE  PayloadHashTreeRoot(p, Limits) = ExecutableDataHashTreeRoot(p, Limits)
<1> DEFINE limit == Limits.txs
           s == [i \in 1 .. Len(p.txs) |-> MerkleizeByteSlice(p.txs[i], 2).root]
           t == [i \in 1 .. Len(p.txs) |-> MerkleizeWithMixin(Pack(p.txs[i], 2), Len(p.txs[i]), Limits.txChunks)]
<1>1. Len(p.txs) = 0
  OBVIOUS
<1>2. s = t
  BY <1>1
<1>3. IsSequence(s) /\ Len(s) = 0
  <2>1. s = [i \in 1 .. 0 |-> s[i]]
    BY <1>1
  <2> HIDE DEF s
  <2> QED BY <2>1, MadeSequence
<1>4. limit \in Nat /\ ILog2Ceil(limit) <= NumZeroHashes
  <2>1. limit = TxsLimit /\ TxsLimit \in Nat /\ ILog2Ceil(TxsLimit) < NumZeroHashes
    BY LimitsAssumption DEF Limits
  <2>2. ILog2Ceil(TxsLimit) \in Nat
    BY <2>1, CeilIsLeast
  <2> QED BY <2>1, <2>2 DEF NumZeroHashes
<1>5. TransactionsHashTreeRoot(p.txs, Limits) = MerkleizeListComposite(s, limit).root
  BY DEF TransactionsHashTreeRoot
<1>6. ExecutableDataTransactions(p.txs, Limits) = MerkleizeWithMixin(t, 0, limit)
  BY <1>1 DEF ExecutableDataTransactions
<1> HIDE DEF s, t, limit
<1>7. MerkleizeListComposite(s, limit) = [ok |-> TRUE, root |-> MerkleizeWithMixin(s, Len(s), limit)]
  BY <1>3, <1>4, CompositeListRoot
<1>8. TransactionsHashTreeRoot(p.txs, Limits) = ExecutableDataTransactions(p.txs, Limits)
  BY <1>2, <1>3, <1>5, <1>6, <1>7
<1> QED BY <1>8 DEF PayloadHashTreeRoot, ExecutableDataHashTreeRoot

\* The roots of a body's fields, as the generated code hashes them.
FieldRoots(b) ==
    <<b.randao, b.eth1, b.graffiti,
      MerkleizeWithMixin(b.deposits, Len(b.deposits), Limits.deposits),
      ExecutableDataHashTreeRoot(b.payload, Limits),
      MerkleizeWithMixin(b.commitments, Len(b.commitments), Limits.commitments)>>

LEMMA BodyNodes ==
    ASSUME NEW b \in Bodies, b.payload.txs = <<>>
    PROVE  /\ IsSequence(GetTopLevelRoots(b, Limits)) /\ Len(GetTopLevelRoots(b, Limits)) = 6
           /\ AroundFive(FieldRoots(b)) = AroundFive(GetTopLevelRoots(b, Limits))
           /\ NodesOf(FieldRoots(b))[5] = MerkleizeWithMixin(b.commitments, Len(b.commitments), Limits.commitments)
           /\ BodyHashTreeRoot(b, Limits) = ReferenceRoot(FieldRoots(b), 3)
<1> DEFINE top == GetTopLevelRoots(b, Limits)
           fields == FieldRoots(b)
           deposits == DepositsHashTreeRoot(b.deposits, Limits)
           payload == PayloadHashTreeRoot(b.payload, Limits)
           last == MerkleizeWithMixin(b.commitments, Len(b.commitments), Limits.commitments)
<1>1. deposits = MerkleizeWithMixin(b.deposits, Len(b.deposits), Limits.deposits)
  <2> DEFINE d == b.deposits
             limit == Limits.deposits
  <2>1. d \in BoundedSeq(Roots("deposits"), DepositsLimit)
    BY DEF Bodies
  <2>2. limit = DepositsLimit /\ DepositsLimit \in Nat /\ ILog2Ceil(DepositsLimit) < NumZeroHashes
    BY LimitsAssumption DEF Limits
  <2>3. ILog2Ceil(DepositsLimit) \in Nat
    BY <2>2, CeilIsLeast
  <2>4. ILog2Ceil(DepositsLimit) <= NumZeroHashes
    BY <2>2, <2>3 DEF NumZeroHashes
  <2> HIDE DEF d, limit
  <2>5. IsSequence(d) /\ Len(d) <= DepositsLimit
    BY <2>1, <2>2, BoundedIs
  <2>6. MerkleizeListComposite(d, limit) = [ok |-> TRUE, root |-> MerkleizeWithMixin(d, Len(d), limit)]
    BY <2>2, <2>4, <2>5, CompositeListRoot
  <2>7. MerkleizeListComposite(d, limit).root = MerkleizeWithMixin(d, Len(d), limit)
    BY <2>6
  <2> QED BY <2>7 DEF DepositsHashTreeRoot, d, limit
<1>2. payload = ExecutableDataHashTreeRoot(b.payload, Limits)
  BY EmptyPayload
<1>3. top = <<b.randao, b.eth1, b.graffiti, deposits, payload, Chunk(0)>>
  BY DEF GetTopLevelRoots
<1>4. fields = <<b.randao, b.eth1, b.graffiti, deposits, payload, last>>
  BY <1>1, <1>2 DEF FieldRoots
<1>5. BodyHashTreeRoot(b, Limits) = ReferenceRoot(fields, 3)
  BY DEF BodyHashTreeRoot, FieldRoots
<1> HIDE DEF top, fields, deposits, payload, last
<1>6. Len(top) = 6 /\ Len(fields) = 6
  BY <1>3, <1>4
<1>7. IsSequence(top)
  <2>1. top = [l \in 1 .. 6 |-> top[l]]
    BY <1>3
  <2> QED BY <2>1, MadeSequence
<1>8. ASSUME NEW i \in 0 .. 7, i # 5 PROVE NodesOf(fields)[i] = NodesOf(top)[i]
  <2>1. i \in Nat /\ i + 1 \in 1 .. 8 /\ i + 1 # 6
    BY <1>8
  <2>2. NodesOf(fields)[i] = IF i < 6 THEN fields[i + 1] ELSE Chunk(0)
    BY <1>6, <2>1 DEF NodesOf
  <2>3. NodesOf(top)[i] = IF i < 6 THEN top[i + 1] ELSE Chunk(0)
    BY <1>6, <2>1 DEF NodesOf
  <2>4. \A l \in 1 .. 5 : fields[l] = top[l]
    BY <1>3, <1>4
  <2>5. i < 6 => i + 1 \in 1 .. 5
    BY <2>1
  <2> QED BY <2>2, <2>3, <2>4, <2>5
<1>9. AroundFive(fields) = AroundFive(top)
  BY <1>8, BesideFive
<1>10. NodesOf(fields)[5] = last
  <2>1. NodesOf(fields)[5] = fields[6]
    BY <1>6 DEF NodesOf
  <2> QED BY <1>4, <2>1
<1> QED BY <1>5, <1>6, <1>7, <1>9, <1>10 DEF top, fields, last

-----------------------------------------------------------------------------
(* The sidecars of a block.                                                *)

\* What BuildKZGInclusionProof returns, from the tree of the commitments.
LEMMA SidecarProof ==
    ASSUME NEW b \in Bodies, b.payload.txs = <<>>, NEW k \in 1 .. MaxTreeDepth, CommitmentsLimit = 2^k,
           NEW i \in 0 .. Len(b.commitments) - 1
    PROVE  LET of == b.commitments
               m == NewTreeFromLeavesWithDepth(of, k)
               branch == MerkleProof(m, i).proof
               q == MerkleProof(NewTreeWithMaxLeaves(GetTopLevelRoots(b, Limits), BodyLengthDeneb - 1),
                                KZGPositionDeneb).proof
           IN /\ IsSequence(of) /\ Len(of) \in Nat /\ TreeOf(m, of) /\ m.depth = k
              /\ IsSequence(branch) /\ Len(branch) = k /\ IsSequence(q) /\ Len(q) = 3
              /\ BuildKZGInclusionProof(b, Limits, i)
                    = [ok |-> TRUE, proof |-> Append(branch, Chunk(Len(of))) \o q]
              /\ \A x : ThroughFive(q, x) = ThroughFive(AroundFive(FieldRoots(b)), x)
<1> DEFINE of == b.commitments
           m == NewTreeFromLeavesWithDepth(of, k)
           branch == MerkleProof(m, i).proof
           top == GetTopLevelRoots(b, Limits)
           body == MerkleProof(NewTreeWithMaxLeaves(top, BodyLengthDeneb - 1), KZGPositionDeneb)
           q == body.proof
           len == Chunk(Len(of))
<1>0. k \in Nat /\ k > 0 /\ k <= MaxTreeDepth
  BY DEF MaxTreeDepth
<1>1. of \in BoundedSeq(Commitments, CommitmentsLimit) /\ CommitmentsLimit \in Nat
  <2>1. of \in BoundedSeq(Commitments, CommitmentsLimit)
    BY DEF Bodies
  <2>2. 2^k \in Nat
    BY <1>0, PowerPositive
  <2> QED BY <2>1, <2>2
<1>2. IsSequence(of) /\ Len(of) \in Nat /\ Len(of) <= 2^k
  <2> HIDE DEF of
  <2> QED BY <1>1, BoundedIs
<1>3. i \in Nat /\ i < Len(of) /\ Len(of) > 0
  BY <1>2
<1>4. m.ok /\ m.depth = k /\ m.leaves = of
  <2>1. verifySufficientDepth(Len(of), k)
    <3> HIDE DEF of
    <3> QED BY <1>0, <1>2, <1>3 DEF verifySufficientDepth
  <2> HIDE DEF of
  <2> QED BY <2>1 DEF NewTreeFromLeavesWithDepth
<1>5. TreeOf(m, of)
  <2> HIDE DEF of
  <2> QED BY <1>0, <1>2, <1>4, NewTreeIsOfLeaves
<1>6. NewTreeWithMaxLeaves(of, Limits.commitments) = m
  <2>1. Limits.commitments = 2^k
    BY DEF Limits
  <2>2. ILog2Ceil(NextPowerOfTwo(2^k)) = k
    BY <1>0, CeilOfPower DEF NextPowerOfTwo
  <2> QED BY <2>1, <2>2 DEF NewTreeWithMaxLeaves
<1> HIDE DEF m
<1>7. MerkleProof(m, i) = [ok |-> TRUE, proof |-> branch] /\ IsSequence(branch) /\ Len(branch) = k
  <2> HIDE DEF of
  <2> QED BY <1>3, <1>4, <1>5, MerkleProofLeadsUp
<1>8. MerkleProofWithMixin(m, i).ok /\ MerkleProofWithMixin(m, i).proof = Append(branch, len)
  <2> DEFINE p == MerkleProof(m, i)
             longer == Append(branch, len)
  <2> HIDE DEF p, branch, of, len
  <2>1. p = [ok |-> TRUE, proof |-> branch]
    BY <1>7 DEF p
  <2>2. /\ p.ok /\ [p EXCEPT !.proof = Append(@, len)].ok
        /\ [p EXCEPT !.proof = Append(@, len)].proof = longer
    BY <2>1
  <2>3. MerkleProofWithMixin(m, i) = IF p.ok THEN [p EXCEPT !.proof = Append(@, len)] ELSE Error
    BY <1>4 DEF MerkleProofWithMixin, p, len
  <2> QED BY <2>1, <2>2, <2>3
<1>9. BuildCommitmentProof(b, Limits, i).ok /\ BuildCommitmentProof(b, Limits, i).proof = Append(branch, len)
  BY <1>4, <1>6, <1>8 DEF BuildCommitmentProof
<1>10. IsSequence(top) /\ Len(top) = 6 /\ AroundFive(FieldRoots(b)) = AroundFive(top)
  BY BodyNodes
<1> HIDE DEF top
<1>11. /\ body = [ok |-> TRUE, proof |-> q] /\ IsSequence(q) /\ Len(q) = 3
       /\ q[1] = AroundFive(top)[1] /\ q[2] = AroundFive(top)[2] /\ q[3] = AroundFive(top)[3]
  BY <1>10, BodyProof
<1>12. BuildBlockBodyProof(b, Limits) = body
  BY DEF BuildBlockBodyProof, top
<1> HIDE DEF q, body, branch, len
<1>13. BuildKZGInclusionProof(b, Limits, i) = [ok |-> TRUE, proof |-> Append(branch, len) \o q]
  <2> DEFINE c == BuildCommitmentProof(b, Limits, i)
             d == BuildBlockBodyProof(b, Limits)
  <2>1. c.ok /\ d.ok /\ c.proof = Append(branch, len) /\ d.proof = q
    BY <1>9, <1>11, <1>12
  <2> QED BY <2>1 DEF BuildKZGInclusionProof
<1>14. \A x : ThroughFive(q, x) = ThroughFive(AroundFive(FieldRoots(b)), x)
  BY <1>10, <1>11 DEF ThroughFive
<1> QED BY <1>2, <1>4, <1>5, <1>7, <1>11, <1>13, <1>14 DEF m, branch, q, body, top, len

LEMMA SidecarsProved ==
    ASSUME NEW b \in Bodies, b.payload.txs = <<>>, NEW proofs,
           proofs = [i \in 1 .. Len(b.commitments) |-> BuildKZGInclusionProof(b, Limits, i - 1)]
    PROVE  InclusionProofs(b, proofs)
<1> DEFINE of == b.commitments
           root == BodyHashTreeRoot(b, Limits)
<1>1. PICK k \in 1 .. MaxTreeDepth : CommitmentsLimit = 2^k
  BY LimitsAssumption
<1>2. k \in Nat /\ 2^k \in Nat
  <2>1. k \in Nat
    BY DEF MaxTreeDepth
  <2> QED BY <2>1, PowerPositive
<1> DEFINE c == ReferenceRoot(of, k)
           len == Chunk(Len(of))
<1>3. root = ThroughFive(AroundFive(FieldRoots(b)), Hash(c, len))
  <2>1. Limits.commitments = 2^k
    BY <1>1 DEF Limits
  <2>2. ILog2Ceil(2^k) = k
    BY <1>2, CeilOfPower
  <2>3. MerkleizeWithMixin(of, Len(of), Limits.commitments) = Hash(c, len)
    BY <2>1, <2>2 DEF MerkleizeWithMixin, MixinLength
  <2>4. NodesOf(FieldRoots(b))[5] = Hash(c, len) /\ root = ReferenceRoot(FieldRoots(b), 3)
    BY <2>3, BodyNodes
  <2> QED BY <2>4, BodyTree
<1>4. ASSUME NEW i \in 1 .. Len(of)
      PROVE  /\ proofs[i].ok
             /\ HasValidInclusionProof(of[i], proofs[i].proof, i - 1, Limits, root)
             /\ \A j \in 1 .. CommitmentsLimit, x \in Commitments :
                   HasValidInclusionProof(x, proofs[i].proof, j - 1, Limits, root)
                       => j <= Len(of) /\ x = of[j]
  <2> DEFINE l == i - 1
             m == NewTreeFromLeavesWithDepth(of, k)
             branch == MerkleProof(m, l).proof
             q == MerkleProof(NewTreeWithMaxLeaves(GetTopLevelRoots(b, Limits), BodyLengthDeneb - 1),
                              KZGPositionDeneb).proof
             proof == Append(branch, len) \o q
  <2>0. of \in BoundedSeq(Commitments, CommitmentsLimit) /\ CommitmentsLimit \in Nat
    BY <1>1, <1>2 DEF Bodies
  <2>1. IsSequence(of) /\ Len(of) \in Nat /\ Len(of) <= CommitmentsLimit
    <3> HIDE DEF of
    <3> QED BY <2>0, BoundedIs
  <2>2. l \in 0 .. Len(of) - 1 /\ l \in Nat /\ l < Len(of) /\ l + 1 = i
    BY <2>1
  <2>3. /\ TreeOf(m, of) /\ m.depth = k
        /\ IsSequence(branch) /\ Len(branch) = k /\ IsSequence(q) /\ Len(q) = 3
        /\ BuildKZGInclusionProof(b, Limits, l) = [ok |-> TRUE, proof |-> proof]
        /\ \A x : ThroughFive(q, x) = ThroughFive(AroundFive(FieldRoots(b)), x)
    <3> HIDE DEF l
    <3> QED BY <1>1, <2>2, SidecarProof
  <2>4. proofs[i] = [ok |-> TRUE, proof |-> proof]
    BY <2>3
  <2> HIDE DEF m, branch, q, l, of, len, c, root
  <2>5. root = ThroughFive(q, Hash(c, len))
    BY <1>3, <2>3
  <2> HIDE DEF proof
  <2>6. ASSUME NEW j \in Nat, j < 2^k, NEW x
        PROVE  /\ HasValidInclusionProof(x, proof, j, Limits, root)
                     <=> ThroughFive(q, Hash(RootFromBranch(x, branch, 26 * 2^k + j), len)) = root
               /\ SameBits(26 * 2^k + j, j, k)
    <3>1. BlockBodyKZGOffset(Limits) = 26 * 2^k
      BY <1>1 DEF BlockBodyKZGOffset, KZGMerkleIndexDeneb, Limits
    <3>2. RootFromBranch(x, proof, 26 * 2^k + j)
             = ThroughFive(q, Hash(RootFromBranch(x, branch, 26 * 2^k + j), len))
      <4>1. IsSequence(branch) /\ Len(branch) = k /\ IsSequence(q) /\ Len(q) = 3
        BY <2>3
      <4> DEFINE g == 26 * 2^k + j
      <4>2. g \in Nat /\ g \div 2^k = 26
        BY <1>2, <2>6, IndexAboveList
      <4> HIDE DEF g
      <4>3. RootFromBranch(x, Append(branch, len) \o q, g)
               = ThroughFive(q, Hash(RootFromBranch(x, branch, g), len))
        BY <1>2, <4>1, <4>2, InclusionWalk
      <4> QED BY <4>3 DEF proof, g
    <3>3. SameBits(26 * 2^k + j, j, k)
      BY <1>2, MultipleAbove
    <3> QED BY <3>1, <3>2, <3>3 DEF HasValidInclusionProof, IsValidMerkleBranch
  <2>7. HasValidInclusionProof(of[i], proof, l, Limits, root)
    <3>1. l < 2^k
      BY <1>1, <1>2, <2>1, <2>2
    <3>2. RootFromBranch(of[l + 1], branch, 26 * 2^k + l) = c
      BY <2>2, <2>3, <2>6, <3>1, BranchLeads DEF branch, c
    <3> QED BY <2>2, <2>5, <2>6, <3>1, <3>2
  <2>8. ASSUME NEW j \in 1 .. CommitmentsLimit, NEW x \in Commitments,
               HasValidInclusionProof(x, proof, j - 1, Limits, root)
        PROVE  j <= Len(of) /\ x = of[j]
    <3> DEFINE a == j - 1
               y == RootFromBranch(x, branch, 26 * 2^k + a)
    <3>1. a \in Nat /\ a < 2^k /\ a + 1 = j
      BY <1>1, <1>2, <2>0, <2>8
    <3>2. HasValidInclusionProof(x, proof, a, Limits, root)
      BY <2>8
    <3> HIDE DEF a
    <3>3. ThroughFive(q, Hash(y, len)) = ThroughFive(q, Hash(c, len)) /\ SameBits(26 * 2^k + a, a, k)
      BY <2>5, <2>6, <3>1, <3>2
    <3> HIDE DEF y
    <3>4. Hash(y, len) = Hash(c, len)
      BY <3>3, ThroughFiveBinds
    <3>5. y = c
      BY <3>4, HashBinds
    <3>6. x = NodesOf(of)[a]
      BY <2>3, <3>1, <3>3, <3>5, BranchBinds DEF y, c
    <3>7. x # Chunk(0)
      BY LimitsAssumption DEF Commitments, Chunk
    <3>8. NodesOf(of)[a] = IF a < Len(of) THEN of[a + 1] ELSE Chunk(0)
      BY <3>1 DEF NodesOf
    <3>9. a < Len(of)
      BY <3>6, <3>7, <3>8
    <3> QED BY <2>1, <3>1, <3>6, <3>8, <3>9
  <2>9. proofs[i].ok /\ proofs[i].proof = proof
    BY <2>4
  <2> QED BY <2>7, <2>8, <2>9 DEF l
<1> QED BY <1>4 DEF InclusionProofs

\* A request is of a list or of the sidecars of a body.
MerkleInv ==
    \/ request = [kind |-> "none"]
    \/ \E b \in BoundedSeq(0 .. Radix - 1, MaxListLength), limit \in ListLimits, perChunk \in ChunkSizes :
           request = [kind |-> "list", b |-> b, limit |-> limit, perChunk |-> perChunk]
    \/ \E body \in Bodies :
           request = [kind |-> "sidecars", body |-> body,
                      proofs |-> [i \in 1 .. Len(body.commitments) |->
                                     BuildKZGInclusionProof(body, Limits, i - 1)]]

\* For all lists, limits and chunk sizes, and all bodies of a block without
\* transactions: MerkleizeListBasic and its siblings compute the root that SSZ defines,
\* and every sidecar's proof is accepted for its commitment and for no other
\* (merkleize.go:40-223, factory.go:105-200, sidecar.go:72-110).
THEOREM ListsAndBodies == MerkleSpec => []ListsAndBodiesBind
<1>1. MerkleInit => MerkleInv
  BY DEF MerkleInit, MerkleInv
<1>2. MerkleInv /\ [MerkleNext]_request => MerkleInv'
  <2> SUFFICES ASSUME MerkleInv, MerkleNext PROVE MerkleInv'
    BY DEF MerkleInv
  <2>1. ASSUME NEW b \in BoundedSeq(0 .. Radix - 1, MaxListLength), NEW limit \in ListLimits,
               NEW perChunk \in ChunkSizes, HashList(b, limit, perChunk)
        PROVE  MerkleInv'
    BY <2>1 DEF HashList, MerkleInv
  <2>2. ASSUME NEW body \in Bodies, BuildSidecars(body) PROVE MerkleInv'
    BY <2>2 DEF BuildSidecars, MerkleInv
  <2> QED BY <2>1, <2>2 DEF MerkleNext
<1>3. MerkleInv => ListsAndBodiesBind
  <2> SUFFICES ASSUME MerkleInv PROVE ListsAndBodiesBind
    OBVIOUS
  <2>1. CASE request = [kind |-> "none"]
    BY <2>1 DEF ListsAndBodiesBind
  <2>2. ASSUME NEW b \in BoundedSeq(0 .. Radix - 1, MaxListLength), NEW limit \in ListLimits,
               NEW perChunk \in ChunkSizes,
               request = [kind |-> "list", b |-> b, limit |-> limit, perChunk |-> perChunk]
        PROVE  ListsAndBodiesBind
    <3>1. /\ limit \in Nat /\ ILog2Ceil(limit) < NumZeroHashes /\ perChunk \in Nat \ {0}
          /\ MaxListLength \in Nat /\ ILog2Ceil(MaxListLength) < NumZeroHashes
      BY LimitsAssumption
    <3>2. IsSequence(b) /\ Len(b) \in Nat /\ Len(b) <= MaxListLength
      BY <3>1, BoundedIs
    <3>3. ILog2Ceil(Len(b)) < NumZeroHashes
      <4>1. ILog2Ceil(Len(b)) \in Nat /\ ILog2Ceil(MaxListLength) \in Nat
            /\ ILog2Ceil(Len(b)) <= ILog2Ceil(MaxListLength)
        BY <3>1, <3>2, CeilIsLeast, CeilMonotone
      <4> QED BY <3>1, <4>1 DEF NumZeroHashes
    <3>4. ListRoots(b, limit, perChunk)
      BY <3>1, <3>2, <3>3, ListRootsRight
    <3>5. request.kind = "list" /\ request.b = b /\ request.limit = limit /\ request.perChunk = perChunk
      BY <2>2
    <3> QED BY <3>4, <3>5 DEF ListsAndBodiesBind
  <2>3. ASSUME NEW body \in Bodies,
               request = [kind |-> "sidecars", body |-> body,
                          proofs |-> [i \in 1 .. Len(body.commitments) |->
                                         BuildKZGInclusionProof(body, Limits, i - 1)]]
        PROVE  ListsAndBodiesBind
    <3> DEFINE proofs == [i \in 1 .. Len(body.commitments) |-> BuildKZGInclusionProof(body, Limits, i - 1)]
    <3>1. request.kind = "sidecars" /\ request.body = body /\ request.proofs = proofs
      BY <2>3
    <3>2. body.payload.txs = <<>> => InclusionProofs(body, proofs)
      BY SidecarsProved
    <3> HIDE DEF proofs
    <3> QED BY <3>1, <3>2 DEF ListsAndBodiesBind
  <2> QED BY <2>1, <2>2, <2>3 DEF MerkleInv
<1> QED BY <1>1, <1>2, <1>3, PTL DEF MerkleSpec
-----------------------------------------------------------------------------
(* Documents and payloads.                                                 *)

\* The names of the fields, and the order in which the required ones are read.
JSONType(t) ==
    /\ IsSequence(t.required)
    /\ \A i \in 1 .. Len(t.required) : t.required[i] \in Engine!Fields(t)
    /\ \A i, j \in 1 .. Len(t.required) : t.required[i] = t.required[j] => i = j
    /\ \A f \in Engine!Fields(t) :
          f \in t.bytes => \E i \in 1 .. Len(t.required) : t.required[i] = f

Named(r, last) ==
    /\ IsSequence(r) /\ Len(r) = 14
    /\ \A i, j \in 1 .. 14 : r[i] = r[j] => i = j
    /\ r[5] = "logsBloom" /\ r[11] = "extraData" /\ r[13] = "blockHash" /\ r[14] = last
    /\ \A i \in 1 .. 14 : r[i] # "withdrawals"

LEMMA Names ==
    ASSUME NEW last \in {"transactions", "transactionsRoot"}
    PROVE  Named(Append(Engine!Common, last), last)
<1> DEFINE r == Append(Engine!Common, last)
<1>1. /\ r[1] = "parentHash" /\ r[2] = "feeRecipient" /\ r[3] = "stateRoot" /\ r[4] = "receiptsRoot"
      /\ r[5] = "logsBloom" /\ r[6] = "prevRandao" /\ r[7] = "blockNumber" /\ r[8] = "gasLimit"
      /\ r[9] = "gasUsed" /\ r[10] = "timestamp" /\ r[11] = "extraData" /\ r[12] = "baseFeePerGas"
      /\ r[13] = "blockHash" /\ r[14] = last
  BY DEF Engine!Common
<1>2. r = [i \in 1 .. 14 |-> r[i]]
  BY DEF Engine!Common
<1> HIDE DEF r
<1>3. IsSequence(r) /\ Len(r) = 14
  BY <1>2, MadeSequence
<1>4. \A i, j \in 1 .. 14 : r[i] = r[j] => i = j
  <2>1. ASSUME NEW i \in 1 .. 14
        PROVE  i = 1 \/ i = 2 \/ i = 3 \/ i = 4 \/ i = 5 \/ i = 6 \/ i = 7 \/ i = 8 \/ i = 9 \/ i = 10
               \/ i = 11 \/ i = 12 \/ i = 13 \/ i = 14
    OBVIOUS
  <2>2. ASSUME NEW i \in 1 .. 14, NEW j \in 1 .. 14, r[i] = r[j] PROVE i = j
    <3>1. CASE i = 1
      BY <1>1, <2>1, <2>2, <3>1
    <3>2. CASE i = 2
      BY <1>1, <2>1, <2>2, <3>2
    <3>3. CASE i = 3
      BY <1>1, <2>1, <2>2, <3>3
    <3>4. CASE i = 4
      BY <1>1, <2>1, <2>2, <3>4
    <3>5. CASE i = 5
      BY <1>1, <2>1, <2>2, <3>5
    <3>6. CASE i = 6
      BY <1>1, <2>1, <2>2, <3>6
    <3>7. CASE i = 7
      BY <1>1, <2>1, <2>2, <3>7
    <3>8. CASE i = 8
      BY <1>1, <2>1, <2>2, <3>8
    <3>9. CASE i = 9
      BY <1>1, <2>1, <2>2, <3>9
    <3>10. CASE i = 10
      BY <1>1, <2>1, <2>2, <3>10
    <3>11. CASE i = 11
      BY <1>1, <2>1, <2>2, <3>11
    <3>12. CASE i = 12
      BY <1>1, <2>1, <2>2, <3>12
    <3>13. CASE i = 13
      BY <1>1, <2>1, <2>2, <3>13
    <3>14. CASE i = 14
      BY <1>1, <2>1, <2>2, <3>14
    <3> QED BY <2>1, <3>1, <3>2, <3>3, <3>4, <3>5, <3>6, <3>7, <3>8, <3>9, <3>10, <3>11, <3>12, <3>13, <3>14
  <2> QED BY <2>2
<1>5. \A i \in 1 .. 14 : r[i] # "withdrawals"
  BY <1>1
<1> QED BY <1>1, <1>3, <1>4, <1>5 DEF Named, r

LEMMA NamesInSet ==
    ASSUME NEW r, IsSequence(r)
    PROVE  Engine!ToSet(r) = {r[i] : i \in 1 .. Len(r)}
BY DEF Engine!ToSet, IsSequence

LEMMA PayloadType ==
    /\ JSONType(Payload) /\ Payload.lists = {"transactions", "withdrawals"}
    /\ Payload.bytes = {"logsBloom", "extraData"}
    /\ {"transactions", "withdrawals", "blockHash"} \subseteq Engine!Fields(Payload)
    /\ \A f \in Engine!Fields(Payload) : f # "withdrawals" /\ f \in Payload.lists \cup Payload.bytes =>
          \E i \in 1 .. Len(Payload.required) : Payload.required[i] = f
    /\ \A i \in 1 .. Len(Payload.required) : Payload.required[i] # "withdrawals"
<1> DEFINE r == Payload.required
<1>1. r = Append(Engine!Common, "transactions") /\ Payload.optional = {"withdrawals", "blobGasUsed", "excessBlobGas"}
      /\ Payload.lists = {"transactions", "withdrawals"} /\ Payload.bytes = {"logsBloom", "extraData"}
  BY DEF Payload, Engine!ExecutableDataDeneb
<1> HIDE DEF r
<1>2. Named(r, "transactions")
  BY <1>1, Names
<1>6. Engine!ToSet(r) = {r[i] : i \in 1 .. 14}
  <2>1. IsSequence(r) /\ Len(r) = 14
    BY <1>2 DEF Named
  <2>2. Engine!ToSet(r) = {r[i] : i \in 1 .. Len(r)}
    BY <2>1, NamesInSet
  <2> QED BY <2>1, <2>2
<1>7. Engine!Fields(Payload) = Engine!ToSet(r) \cup {"withdrawals", "blobGasUsed", "excessBlobGas"}
  BY <1>1 DEF Engine!Fields, r
<1>3. Engine!Fields(Payload) = {r[i] : i \in 1 .. 14} \cup {"withdrawals", "blobGasUsed", "excessBlobGas"}
  BY <1>6, <1>7
<1>4. 5 \in 1 .. 14 /\ 11 \in 1 .. 14 /\ 13 \in 1 .. 14 /\ 14 \in 1 .. 14
  OBVIOUS
<1>5. JSONType(Payload)
  <2>1. \A f \in Payload.bytes : \E i \in 1 .. 14 : r[i] = f
    BY <1>1, <1>2, <1>4 DEF Named
  <2>2. \A i \in 1 .. 14 : r[i] \in Engine!Fields(Payload)
    BY <1>3
  <2>3. Payload.required = r
    BY DEF r
  <2>4. IsSequence(r) /\ Len(r) = 14 /\ \A i, j \in 1 .. 14 : r[i] = r[j] => i = j
    BY <1>2 DEF Named
  <2> QED BY <2>1, <2>2, <2>3, <2>4, Zenon DEF JSONType
<1>8. \A f \in {"transactions", "logsBloom", "extraData", "blockHash"} : \E i \in 1 .. 14 : r[i] = f
  BY <1>2, <1>4 DEF Named
<1>9. {"transactions", "withdrawals", "blockHash"} \subseteq Engine!Fields(Payload)
  BY <1>3, <1>8
<1>10. Payload.required = r /\ Len(r) = 14 /\ \A i \in 1 .. 14 : r[i] # "withdrawals"
  BY <1>2 DEF r, Named
<1> QED BY <1>1, <1>5, <1>8, <1>9, <1>10

LEMMA HeaderType == JSONType(Engine!ExecutionPayloadHeaderDeneb)
<1> DEFINE t == Engine!ExecutionPayloadHeaderDeneb
           r == t.required
<1>1. r = Append(Engine!Common, "transactionsRoot") /\ t.bytes = {"logsBloom", "extraData"}
  BY DEF Engine!ExecutionPayloadHeaderDeneb
<1> HIDE DEF r, t
<1>2. Named(r, "transactionsRoot")
  BY <1>1, Names
<1>3. \A i \in 1 .. 14 : r[i] \in Engine!Fields(t)
  <2>1. IsSequence(r) /\ Len(r) = 14
    BY <1>2 DEF Named
  <2>2. Engine!ToSet(r) = {r[i] : i \in 1 .. Len(r)}
    BY <2>1, NamesInSet
  <2>3. Engine!ToSet(r) \subseteq Engine!Fields(t)
    BY DEF Engine!Fields, r
  <2> QED BY <2>1, <2>2, <2>3
<1>4. 5 \in 1 .. 14 /\ 11 \in 1 .. 14
  OBVIOUS
<1>5. JSONType(t)
  <2>1. \A f \in t.bytes : \E i \in 1 .. 14 : r[i] = f
    BY <1>1, <1>2, <1>4 DEF Named
  <2>2. t.required = r
    BY DEF r
  <2>3. IsSequence(r) /\ Len(r) = 14 /\ \A i, j \in 1 .. 14 : r[i] = r[j] => i = j
    BY <1>2 DEF Named
  <2> QED BY <1>3, <2>1, <2>2, <2>3, Zenon DEF JSONType
<1> QED BY <1>5 DEF t

MissingIn(t, doc) == {i \in 1 .. Len(t.required) : doc[t.required[i]] = {}}
DecodedAs(t, doc, into, d) ==
    /\ d.ok <=> MissingIn(t, doc) = {}
    /\ MissingIn(t, doc) = {} =>
          d = [ok |-> TRUE, v |-> [f \in Engine!Fields(t) |-> IF doc[f] = {} THEN into[f] ELSE doc[f]]]
    /\ \A m \in MissingIn(t, doc), i \in 1 .. Len(t.required) :
          m < i => d.v[t.required[i]] = into[t.required[i]]

\* What UnmarshalJSON makes of a document: it stops at the first required field that
\* is missing, and else takes every field that is there.
LEMMA DecodedIs ==
    ASSUME NEW t, JSONType(t), NEW doc, NEW into
    PROVE  DecodedAs(t, doc, into, Engine!UnmarshalJSON(t, doc, into))
<1> DEFINE r == t.required
           F == Engine!Fields(t)
           d == Engine!UnmarshalJSON(t, doc, into)
           missing == {i \in 1 .. Len(r) : doc[r[i]] = {}}
           before == {r[i] : i \in {j \in 1 .. Len(r) : \A m \in missing : j < m}}
           set == before \cup (IF missing = {} THEN F \ Engine!ToSet(r) ELSE {})
           v == [f \in F |-> IF f \in set /\ doc[f] # {} THEN doc[f] ELSE into[f]]
<1>1. d = [ok |-> missing = {}, v |-> v]
  BY DEF Engine!UnmarshalJSON, Engine!Decoded
<1>2. /\ IsSequence(r) /\ Len(r) \in Nat /\ Engine!ToSet(r) = {r[i] : i \in 1 .. Len(r)}
      /\ \A i \in 1 .. Len(r) : r[i] \in F
      /\ \A i, j \in 1 .. Len(r) : r[i] = r[j] => i = j
  <2> HIDE DEF F
  <2>1. IsSequence(r) /\ (\A i \in 1 .. Len(r) : r[i] \in F)
        /\ \A i, j \in 1 .. Len(r) : r[i] = r[j] => i = j
    BY DEF JSONType, F
  <2>2. Len(r) \in Nat
    BY <2>1, SequenceLen
  <2> QED BY <2>1, <2>2, NamesInSet
<1> HIDE DEF d, r, F
<1>3. d.v = v
  BY <1>1
<1>4. missing = {} => v = [f \in F |-> IF doc[f] = {} THEN into[f] ELSE doc[f]]
  <2> SUFFICES ASSUME missing = {} PROVE \A f \in F : f \in set
    OBVIOUS
  <2>1. before = {r[i] : i \in 1 .. Len(r)}
    OBVIOUS
  <2>2. set = {r[i] : i \in 1 .. Len(r)} \cup (F \ {r[i] : i \in 1 .. Len(r)})
    BY <1>2, <2>1
  <2> HIDE DEF set
  <2> QED BY <2>2
<1>5. ASSUME NEW m \in missing, NEW i \in 1 .. Len(r), m < i
      PROVE  v[r[i]] = into[r[i]]
  <2>1. m \in 1 .. Len(r) /\ missing # {}
    OBVIOUS
  <2>2. r[i] \notin set
    <3> SUFFICES ASSUME r[i] \in before PROVE FALSE
      BY <2>1
    <3>1. PICK j \in 1 .. Len(r) : (\A l \in missing : j < l) /\ r[j] = r[i]
      OBVIOUS
    <3>2. j = i /\ j < m
      BY <1>2, <3>1
    <3> QED BY <1>2, <1>5, <2>1, <3>2
  <2>3. r[i] \in F
    BY <1>2
  <2> HIDE DEF set
  <2> QED BY <2>2, <2>3
<1>6. d.ok <=> missing = {}
  <2> DEFINE none == missing = {}
  <2> HIDE DEF v
  <2>1. d = [ok |-> none, v |-> v]
    BY <1>1
  <2>2. none \in BOOLEAN
    OBVIOUS
  <2> HIDE DEF none, missing
  <2>3. d.ok = none
    BY <2>1
  <2> QED BY <2>3, Zenon DEF none
<1>7. missing = {} => d = [ok |-> TRUE, v |-> [f \in F |-> IF doc[f] = {} THEN into[f] ELSE doc[f]]]
  <2> HIDE DEF v, missing
  <2>1. missing = {} => (missing = {}) = TRUE
    OBVIOUS
  <2>2. missing = {} => d = [ok |-> TRUE, v |-> v]
    BY <1>1, <2>1
  <2> QED BY <1>4, <2>2
<1>8. missing = MissingIn(t, doc)
  BY DEF MissingIn, r
<1>9. \A m \in missing, i \in 1 .. Len(r) : m < i => d.v[r[i]] = into[r[i]]
  <2> HIDE DEF v, missing
  <2> QED BY <1>3, <1>5
<1> HIDE DEF missing
<1> QED BY <1>6, <1>7, <1>8, <1>9, Zenon DEF DecodedAs, d, r, F

LEMMA DocumentReadRight ==
    ASSUME NEW t, JSONType(t), NEW doc, doc = [f \in Engine!Fields(t) |-> doc[f]]
    PROVE  DocumentRead(t, doc)
<1> DEFINE r == t.required
           F == Engine!Fields(t)
           new == Engine!New(t)
           d == Engine!UnmarshalJSON(t, doc, new)
           missing == {i \in 1 .. Len(r) : doc[r[i]] = {}}
           written == Engine!MarshalJSON(t, d.v)
           again == Engine!UnmarshalJSON(t, written, new)
           missingAgain == {i \in 1 .. Len(r) : written[r[i]] = {}}
<1>0. DecodedAs(t, doc, new, d) /\ DecodedAs(t, written, new, again)
  BY DecodedIs
<1>1. /\ d.ok <=> missing = {}
      /\ missing = {} => d = [ok |-> TRUE, v |-> [f \in F |-> IF doc[f] = {} THEN new[f] ELSE doc[f]]]
      /\ \A m \in missing, i \in 1 .. Len(r) : m < i => d.v[r[i]] = new[r[i]]
  <2> HIDE DEF new, d, written, again
  <2> QED BY <1>0, Zenon DEF DecodedAs, MissingIn
<1>2. missingAgain = {} =>
         again = [ok |-> TRUE, v |-> [f \in F |-> IF written[f] = {} THEN new[f] ELSE written[f]]]
  <2> HIDE DEF new, d, written, again
  <2> QED BY <1>0, Zenon DEF DecodedAs, MissingIn
<1> HIDE DEF new, d, written, again
<1>3. ASSUME missing = {} PROVE again = d
  <2>1. \A i \in 1 .. Len(r) : r[i] \in F /\ doc[r[i]] # {}
    BY <1>3 DEF JSONType
  <2>2. \A f \in F : f \in t.bytes => doc[f] # {}
    BY <2>1 DEF JSONType
  <2>3. d = [ok |-> TRUE, v |-> d.v] /\ d.v = [f \in F |-> IF doc[f] = {} THEN new[f] ELSE doc[f]]
    BY <1>1, <1>3
  <2>4. written = [f \in F |-> IF f \in t.bytes /\ d.v[f] = {} THEN {Engine!Empty} ELSE d.v[f]]
    BY DEF written, Engine!MarshalJSON
  <2> HIDE DEF F
  <2>5. written = d.v
    <3>1. \A f \in F : ~(f \in t.bytes /\ d.v[f] = {})
      BY <2>2, <2>3
    <3>2. d.v = [f \in F |-> d.v[f]]
      BY <2>3
    <3> QED BY <2>4, <3>1, <3>2
  <2>6. missingAgain = {}
    BY <2>1, <2>3, <2>5
  <2>7. again = [ok |-> TRUE, v |-> d.v]
    <3> DEFINE u == [f \in F |-> IF d.v[f] = {} THEN new[f] ELSE d.v[f]]
    <3>1. again = [ok |-> TRUE, v |-> u]
      BY <1>2, <2>5, <2>6
    <3>5. u = [f \in F |-> IF d.v[f] = {} THEN new[f] ELSE d.v[f]]
      OBVIOUS
    <3>2. \A f \in F : d.v[f] = {} => new[f] = {}
      BY <2>3
    <3>3. \A f \in F : (IF d.v[f] = {} THEN new[f] ELSE d.v[f]) = d.v[f]
      BY <3>2
    <3>4. d.v = [f \in F |-> d.v[f]]
      BY <2>3
    <3>6. u = d.v
      BY <3>3, <3>4, <3>5
    <3> QED BY <3>1, <3>6
  <2> QED BY <2>3, <2>7
<1>4. missing = {} => d.v = [f \in F |-> IF doc[f] = {} THEN new[f] ELSE doc[f]]
  <2> HIDE DEF missing, F
  <2> QED BY <1>1
<1> QED BY <1>1, <1>3, <1>4, Zenon DEF DocumentRead, d, new, again, written

-----------------------------------------------------------------------------
(* The hashes of a payload.                                                *)

\* The lists of s up to the n-th, joined.
IsJoined(f, s, n) == f = [i \in 1 .. n |-> IF i = 1 THEN s[i] ELSE f[i - 1] \o s[i]]
Joined(s, n) == CHOOSE f : IsJoined(f, s, n)

LEMMA JoinedExist ==
    ASSUME NEW s, NEW n \in Nat
    PROVE  \E f : IsJoined(f, s, n)
<1> DEFINE P(m) == \E f : IsJoined(f, s, m)
<1>1. P(0)
  <2> DEFINE f == [i \in 1 .. 0 |-> 0]
  <2>1. f = [i \in 1 .. 0 |-> IF i = 1 THEN s[i] ELSE f[i - 1] \o s[i]]
    OBVIOUS
  <2> HIDE DEF f
  <2>2. IsJoined(f, s, 0)
    BY <2>1 DEF IsJoined
  <2> QED BY <2>2
<1>2. ASSUME NEW m \in Nat, P(m) PROVE P(m + 1)
  <2>1. PICK f : IsJoined(f, s, m)
    BY <1>2
  <2> DEFINE Next(h, i) == IF i = 1 THEN s[i] ELSE h[i - 1] \o s[i]
             x == Next(f, m + 1)
             g == [i \in 1 .. m + 1 |-> IF i = m + 1 THEN x ELSE f[i]]
  <2>2. \A i \in 1 .. m : f[i] = Next(f, i)
    BY <2>1 DEF IsJoined
  <2> HIDE DEF x
  <2>3. \A i \in 1 .. m : i \in 1 .. m + 1 /\ g[i] = f[i]
    OBVIOUS
  <2>4. g[m + 1] = x
    OBVIOUS
  <2>5. g = [i \in 1 .. m + 1 |-> g[i]]
    OBVIOUS
  <2> HIDE DEF g
  <2>6. ASSUME NEW i \in 1 .. m + 1
        PROVE  g[i] = Next(g, i)
    <3>1. CASE i = m + 1
      <4>1. i # 1 => i - 1 \in 1 .. m
        BY <3>1
      <4>2. i # 1 => g[i - 1] = f[i - 1]
        BY <2>3, <4>1
      <4>3. x = Next(f, i)
        BY <3>1 DEF x
      <4> QED BY <2>4, <3>1, <4>2, <4>3
    <3>2. CASE i \in 1 .. m
      <4>1. i # 1 => i - 1 \in 1 .. m
        BY <3>2
      <4>2. g[i] = f[i] /\ (i # 1 => g[i - 1] = f[i - 1])
        BY <2>3, <3>2, <4>1
      <4> QED BY <2>2, <3>2, <4>2
    <3> QED BY <3>1, <3>2
  <2>7. IsJoined(g, s, m + 1)
    BY <2>5, <2>6 DEF IsJoined
  <2> QED BY <2>7
<1> HIDE DEF P
<1>3. P(n)
  <2> DEFINE N == {j \in Nat : P(j)}
  <2>1. 0 \in N
    BY <1>1
  <2>2. \A i \in Nat : i \in N => i + 1 \in N
    BY <1>2
  <2> HIDE DEF N
  <2>3. n \in N
    BY <2>1, <2>2, InductionOverNat
  <2> QED BY <2>3 DEF N
<1> QED BY <1>3 DEF P

\* The blob hashes of a list of transactions are a sequence.
LEMMA HashesAreSequence ==
    ASSUME NEW txs \in Seq([decodes : BOOLEAN, blobs : Seq(VersionedHashes)])
    PROVE  IsSequence(Engine!BlobHashes(txs))
<1> DEFINE V == VersionedHashes
           n == Len(txs)
           s == [i \in 1 .. n |-> txs[i].blobs]
           f == Joined(s, n)
<1>1. n \in Nat /\ \A i \in 1 .. n : s[i] \in Seq(V)
  <2> DEFINE T == [decodes : BOOLEAN, blobs : Seq(V)]
  <2>1. txs \in Seq(T) /\ \A x \in T : x.blobs \in Seq(V)
    OBVIOUS
  <2> HIDE DEF T
  <2>2. n \in Nat /\ \A i \in 1 .. n : txs[i] \in T
    BY <2>1
  <2>3. \A i \in 1 .. n : s[i] = txs[i].blobs
    OBVIOUS
  <2> QED BY <2>1, <2>2, <2>3
<1>2. s = [i \in 1 .. n |-> s[i]]
  OBVIOUS
<1>3. Engine!BlobHashes(txs) = Engine!FlattenSeq(s)
  BY DEF Engine!BlobHashes
<1> HIDE DEF s, n
<1>4. Len(s) = n /\ IsSequence(s)
  BY <1>1, <1>2, MadeSequence
<1>5. Engine!FlattenSeq(s) = IF n = 0 THEN s ELSE f[n]
  BY <1>4 DEF Engine!FlattenSeq, Joined, IsJoined
<1>6. IsJoined(f, s, n)
  BY <1>1, JoinedExist DEF Joined
<1> HIDE DEF f
<1>7. \A i \in 1 .. n : f[i] = IF i = 1 THEN s[i] ELSE f[i - 1] \o s[i]
  BY <1>6 DEF IsJoined
<1>8. \A i \in 1 .. n : f[i] \in Seq(V)
  <2> DEFINE N == {i \in Nat : i \in 1 .. n => f[i] \in Seq(V)}
  <2>1. 0 \in N
    BY <1>1
  <2>2. ASSUME NEW i \in Nat, i \in N PROVE i + 1 \in N
    <3> SUFFICES ASSUME i + 1 \in 1 .. n PROVE f[i + 1] \in Seq(V)
      OBVIOUS
    <3> DEFINE j == i + 1
    <3>1. j \in 1 .. n /\ j - 1 = i /\ s[j] \in Seq(V) /\ (j # 1 => i \in 1 .. n)
      BY <1>1
    <3>2. j # 1 => f[i] \in Seq(V)
      BY <2>2, <3>1
    <3> HIDE DEF j
    <3>3. f[j] = IF j = 1 THEN s[j] ELSE f[i] \o s[j]
      BY <1>7, <3>1
    <3>4. f[j] \in Seq(V)
      BY <3>1, <3>2, <3>3
    <3> QED BY <3>4 DEF j
  <2> HIDE DEF N
  <2>3. \A i \in Nat : i \in N
    BY <2>1, <2>2, InductionOverNat
  <2> QED BY <1>1, <2>3 DEF N
<1>9. CASE n = 0
  BY <1>3, <1>4, <1>5, <1>9
<1>10. CASE n # 0
  <2>1. n \in 1 .. n
    BY <1>1, <1>10
  <2>2. f[n] \in Seq(V)
    BY <1>8, <2>1
  <2>3. IsSequence(f[n])
    BY <2>2, SequenceOf
  <2> QED BY <1>3, <1>5, <1>10, <2>3
<1> QED BY <1>9, <1>10

\* What a built payload says of its fields, and its block hash.
Built(a, b) ==
    /\ b = [f \in Engine!Fields(Payload) |-> b[f]]
    /\ b["transactions"] = {a.txs} /\ b["withdrawals"] = a.withdrawals
    /\ \A f \in Engine!Fields(Payload) : f # "withdrawals" => b[f] # {}
    /\ b["blockHash"] = {Engine!BlockHash(b, a.withdrawals, a.root)}

LEMMA BuiltIs == ASSUME NEW a PROVE Built(a, BuiltPayload(a))
<1> DEFINE F == Engine!Fields(Payload)
           doc == [f \in F |-> IF f = "transactions" THEN {a.txs}
                               ELSE IF f = "withdrawals" THEN a.withdrawals ELSE {a.content[f]}]
           hash == Engine!BlockHash(doc, a.withdrawals, a.root)
           b == [doc EXCEPT !["blockHash"] = {hash}]
<1>1. b = BuiltPayload(a)
  BY DEF BuiltPayload
<1>2. "transactions" \in F /\ "withdrawals" \in F /\ "blockHash" \in F
  BY PayloadType
<1> HIDE DEF F, hash
<1>3. b = [f \in F |-> b[f]] /\ b["transactions"] = {a.txs} /\ b["withdrawals"] = a.withdrawals
      /\ b["blockHash"] = {hash} /\ (\A f \in F : f # "withdrawals" => b[f] # {})
      /\ \A f \in F : f # "blockHash" => b[f] = doc[f]
  BY <1>2
<1>4. hash = Engine!BlockHash(b, a.withdrawals, a.root)
  <2> DEFINE G == F \ {"blockHash", "withdrawals"}
  <2>1. \A f \in G : b[f] = doc[f]
    BY <1>3
  <2> HIDE DEF b, doc
  <2>2. [f \in G |-> b[f]] = [f \in G |-> doc[f]]
    BY <2>1
  <2> QED BY <2>2 DEF Engine!BlockHash, hash, F, Payload
<1> HIDE DEF b
<1> QED BY <1>1, <1>3, <1>4 DEF Built, F

\* JSON leaves a built payload as it is, and SSZ all of it but missing withdrawals.
LEMMA InBlockIs ==
    ASSUME NEW a
    PROVE  /\ Engine!UnmarshalJSON(Payload, BuiltPayload(a), Engine!New(Payload))
                 = [ok |-> TRUE, v |-> BuiltPayload(a)]
           /\ Engine!MarshalJSON(Payload, BuiltPayload(a)) = BuiltPayload(a)
           /\ InBlock(a) = [f \in Engine!Fields(Payload) |-> InBlock(a)[f]]
           /\ \A f \in Engine!Fields(Payload) : f # "withdrawals" => InBlock(a)[f] = BuiltPayload(a)[f]
           /\ InBlock(a)["withdrawals"] = IF a.withdrawals = {} THEN {<<>>} ELSE a.withdrawals
<1> DEFINE F == Engine!Fields(Payload)
           b == BuiltPayload(a)
           new == Engine!New(Payload)
           d == Engine!UnmarshalJSON(Payload, b, new)
           v == InBlock(a)
           r == Payload.required
<1>1. Built(a, b)
  BY BuiltIs
<1>2. DecodedAs(Payload, b, new, d) /\ JSONType(Payload)
  <2>1. JSONType(Payload)
    BY PayloadType
  <2> QED BY <2>1, DecodedIs
<1>3. v = Engine!SSZRoundTrip(Payload, d.v)
  BY DEF InBlock
<1>4. new["withdrawals"] = {}
  BY PayloadType DEF Engine!New
<1>5. /\ "transactions" \in F /\ "withdrawals" \in F /\ "blockHash" \in F
      /\ Payload.lists = {"transactions", "withdrawals"} /\ Payload.bytes = {"logsBloom", "extraData"}
      /\ \A i \in 1 .. Len(r) : r[i] # "withdrawals"
  BY PayloadType
<1>6. /\ b = [f \in F |-> b[f]] /\ (\A f \in F : f # "withdrawals" => b[f] # {})
      /\ b["withdrawals"] = a.withdrawals
  BY <1>1 DEF Built
<1> HIDE DEF b, d, v, new
<1>7. MissingIn(Payload, b) = {}
  <2>1. \A i \in 1 .. Len(r) : r[i] \in F
    BY <1>2 DEF JSONType
  <2> HIDE DEF F
  <2>2. \A i \in 1 .. Len(r) : b[r[i]] # {}
    BY <1>5, <1>6, <2>1
  <2> QED BY <2>2 DEF MissingIn
<1>8. d = [ok |-> TRUE, v |-> b]
  <2> DEFINE u == [f \in F |-> IF b[f] = {} THEN new[f] ELSE b[f]]
  <2>1. d = [ok |-> TRUE, v |-> u]
    BY <1>2, <1>7 DEF DecodedAs
  <2>2. \A f \in F : (IF b[f] = {} THEN new[f] ELSE b[f]) = b[f]
    <3> HIDE DEF F
    <3> QED BY <1>4, <1>6
  <2> HIDE DEF F
  <2>3. u = [f \in F |-> b[f]]
    BY <2>2
  <2>4. u = b
    BY <1>6, <2>3
  <2> QED BY <2>1, <2>4
<1>9. Engine!MarshalJSON(Payload, b) = b
  <2>1. \A f \in F : ~(f \in Payload.bytes /\ b[f] = {})
    <3> HIDE DEF F
    <3> QED BY <1>5, <1>6
  <2>2. Engine!MarshalJSON(Payload, b)
           = [f \in F |-> IF f \in Payload.bytes /\ b[f] = {} THEN {Engine!Empty} ELSE b[f]]
    BY DEF Engine!MarshalJSON
  <2> HIDE DEF F
  <2>3. Engine!MarshalJSON(Payload, b) = [f \in F |-> b[f]]
    BY <2>1, <2>2
  <2> QED BY <1>6, <2>3
<1>10. v = [f \in F |-> IF f \in {"transactions", "withdrawals"} /\ b[f] = {} THEN {<<>>} ELSE b[f]]
  <2>1. d.v = b
    BY <1>8
  <2> QED BY <1>3, <1>5, <2>1 DEF Engine!SSZRoundTrip
<1>11. v = [f \in F |-> v[f]] /\ (\A f \in F : f # "withdrawals" => v[f] = b[f])
       /\ v["withdrawals"] = IF a.withdrawals = {} THEN {<<>>} ELSE a.withdrawals
  <2> HIDE DEF F
  <2> QED BY <1>5, <1>6, <1>10
<1> QED BY <1>8, <1>9, <1>11 DEF b, d, v, new

\* A block hash determines the fields, the withdrawals and the parent.
LEMMA BlockHashBinds ==
    ASSUME NEW p, NEW v, NEW w, NEW x, NEW q, NEW r, Engine!BlockHash(p, w, q) = Engine!BlockHash(v, x, r)
    PROVE  /\ w = x /\ q = r
           /\ \A f \in Engine!Fields(Payload) : f \notin {"blockHash", "withdrawals"} => p[f] = v[f]
<1> DEFINE G == Engine!Fields(Payload) \ {"blockHash", "withdrawals"}
           i == [f \in G |-> p[f]]
           j == [f \in G |-> v[f]]
<1>1. [fields |-> i, withdrawals |-> w, root |-> q] = [fields |-> j, withdrawals |-> x, root |-> r]
  BY DEF Engine!BlockHash, Payload
<1> HIDE DEF i, j
<1>2. i = j /\ w = x /\ q = r
  BY <1>1
<1> HIDE DEF G
<1>3. \A f \in G : p[f] = v[f]
  BY <1>2 DEF i, j
<1> QED BY <1>2, <1>3 DEF G

LEMMA SameHashes ==
    ASSUME NEW s, NEW t, IsSequence(s), IsSequence(t), Len(s) = Len(t), \A i \in 1 .. Len(s) : s[i] = t[i]
    PROVE  s = t
<1>1. s = [l \in 1 .. Len(s) |-> s[l]] /\ t = [l \in 1 .. Len(t) |-> t[l]]
  BY SequenceLen
<1> DEFINE n == Len(s)
<1>2. s = [l \in 1 .. n |-> s[l]] /\ t = [l \in 1 .. n |-> t[l]] /\ \A i \in 1 .. n : s[i] = t[i]
  BY <1>1
<1> HIDE DEF n
<1>3. [l \in 1 .. n |-> s[l]] = [l \in 1 .. n |-> t[l]]
  BY <1>2
<1> QED BY <1>2, <1>3

\* The check of a request whose lists are not nil.
Accepted(p, txs, w, hashes, parent) ==
    /\ \A i \in 1 .. Len(txs) : txs[i].decodes
    /\ Len(Engine!BlobHashes(txs)) = Len(hashes)
    /\ \A i \in 1 .. Len(Engine!BlobHashes(txs)) : Engine!BlobHashes(txs)[i] = hashes[i]
    /\ p["blockHash"] = {Engine!BlockHash(p, {w}, parent)}

LEMMA AcceptedIs ==
    ASSUME NEW p, NEW txs, NEW w, p["transactions"] = {txs}, p["withdrawals"] = {w}, NEW hashes, NEW parent
    PROVE  Engine!HasValidVersionedAndBlockHashes(Engine!BuildNewPayloadRequest(p, hashes, parent))
              <=> Accepted(p, txs, w, hashes, parent)
<1> DEFINE n == Engine!BuildNewPayloadRequest(p, hashes, parent)
<1>1. n.ExecutionPayload = p /\ n.VersionedHashes = hashes /\ n.ParentBeaconBlockRoot = parent
  BY DEF Engine!BuildNewPayloadRequest
<1> HIDE DEF n
<1>2. Engine!Elements(p["transactions"]) = txs /\ Engine!Elements(p["withdrawals"]) = w
  BY DEF Engine!Elements
<1>3. (p["withdrawals"] = {}) = FALSE
  OBVIOUS
<1>4. Engine!HasValidVersionedAndBlockHashes(n) <=> Accepted(p, txs, w, hashes, parent)
  BY <1>1, <1>2, <1>3 DEF Engine!HasValidVersionedAndBlockHashes, Engine!ValidHashes, Accepted
<1> QED BY <1>4 DEF n

LEMMA PayloadReceivedRight ==
    ASSUME NEW a \in Proposals, NEW b \in Proposals, NEW mixed, NEW h \in Proposals, NEW parent, NEW n,
           n = Engine!BuildNewPayloadRequest(Mixture(InBlock(a), InBlock(b), mixed),
                                             Engine!BlobHashes(h.txs), parent)
    PROVE  PayloadReceived(a, n)
<1> DEFINE F == Engine!Fields(Payload)
           built == BuiltPayload(a)
           v == InBlock(a)
           u == InBlock(b)
           p == Mixture(v, u, mixed)
           hashes == Engine!BlobHashes(h.txs)
           valid == Engine!HasValidVersionedAndBlockHashes(n)
<1>1. n.ExecutionPayload = p /\ n.VersionedHashes = hashes /\ n.ParentBeaconBlockRoot = parent
  BY DEF Engine!BuildNewPayloadRequest
<1>2. p = [f \in F |-> p[f]] /\ \A f \in F : p[f] = v[f] \/ p[f] = u[f]
  BY DEF Mixture
<1>3. "transactions" \in F /\ "withdrawals" \in F /\ "blockHash" \in F
  BY PayloadType
<1>4. Built(a, built) /\ Built(b, BuiltPayload(b))
  BY BuiltIs
<1>5. /\ Engine!MarshalJSON(Payload, built) = built /\ v = [f \in F |-> v[f]]
      /\ \A f \in F : f # "withdrawals" => v[f] = built[f]
      /\ v["withdrawals"] = IF a.withdrawals = {} THEN {<<>>} ELSE a.withdrawals
  BY InBlockIs
<1>6. /\ \A f \in F : f # "withdrawals" => u[f] = BuiltPayload(b)[f]
      /\ u["withdrawals"] = IF b.withdrawals = {} THEN {<<>>} ELSE b.withdrawals
  BY InBlockIs
<1> HIDE DEF F, built, v, u, p
<1>7. PICK txs : p["transactions"] = {txs} /\ txs \in {a.txs, b.txs}
  BY <1>2, <1>3, <1>4, <1>5, <1>6 DEF Built
<1>8. PICK w : p["withdrawals"] = {w}
  <2>1. (\E x : v["withdrawals"] = {x}) /\ (\E x : u["withdrawals"] = {x})
    BY <1>5, <1>6, ProposalsAssumption
  <2> QED BY <1>2, <1>3, <2>1
<1>9. IsSequence(Engine!BlobHashes(txs)) /\ IsSequence(hashes)
  <2>1. txs \in Seq([decodes : BOOLEAN, blobs : Seq(VersionedHashes)])
        /\ h.txs \in Seq([decodes : BOOLEAN, blobs : Seq(VersionedHashes)])
    BY <1>7, ProposalsAssumption
  <2> QED BY <2>1, HashesAreSequence
<1> HIDE DEF hashes
<1>10. valid <=> Accepted(p, txs, w, hashes, parent)
  BY <1>7, <1>8, AcceptedIs DEF p, hashes, v, u
<1> HIDE DEF valid
<1>11. built["transactions"] = {a.txs} /\ built["withdrawals"] = a.withdrawals
       /\ built["blockHash"] = {Engine!BlockHash(built, a.withdrawals, a.root)} /\ built = [f \in F |-> built[f]]
  BY <1>4 DEF Built, F
<1>12. ASSUME p["blockHash"] = built["blockHash"], valid
       PROVE  /\ a.withdrawals # {} /\ p = v /\ p = built /\ parent = a.root
              /\ hashes = Engine!BlobHashes(a.txs) /\ \A i \in 1 .. Len(a.txs) : a.txs[i].decodes
  <2>1. Engine!BlockHash(p, {w}, parent) = Engine!BlockHash(built, a.withdrawals, a.root)
    BY <1>10, <1>11, <1>12 DEF Accepted
  <2>2. /\ {w} = a.withdrawals /\ parent = a.root
        /\ \A f \in F : f \notin {"blockHash", "withdrawals"} => p[f] = built[f]
    BY <2>1, BlockHashBinds DEF F
  <2>3. \A f \in F : p[f] = built[f]
    BY <1>8, <1>11, <1>12, <2>2
  <2>4. p = built
    BY <1>2, <1>11, <2>3
  <2>5. a.withdrawals # {} /\ \A f \in F : v[f] = built[f]
    BY <1>5, <1>11, <2>2
  <2>6. v = built
    BY <1>5, <1>11, <2>5
  <2>7. txs = a.txs
    BY <1>7, <1>11, <2>4
  <2>8. hashes = Engine!BlobHashes(a.txs)
    <3>1. Len(Engine!BlobHashes(txs)) = Len(hashes)
          /\ \A i \in 1 .. Len(Engine!BlobHashes(txs)) : Engine!BlobHashes(txs)[i] = hashes[i]
      BY <1>10, <1>12 DEF Accepted
    <3> QED BY <1>9, <2>7, <3>1, SameHashes
  <2>9. \A i \in 1 .. Len(a.txs) : a.txs[i].decodes
    BY <1>10, <1>12, <2>7 DEF Accepted
  <2> QED BY <2>2, <2>4, <2>5, <2>6, <2>8, <2>9
<1>13. ASSUME a.withdrawals # {}, p = v, parent = a.root, hashes = Engine!BlobHashes(a.txs),
              \A i \in 1 .. Len(a.txs) : a.txs[i].decodes
       PROVE  valid
  <2>1. \A f \in F : v[f] = built[f]
    BY <1>5, <1>11, <1>13
  <2>2. p = built
    BY <1>5, <1>11, <1>13, <2>1
  <2>3. txs = a.txs /\ {w} = a.withdrawals
    BY <1>7, <1>8, <1>11, <2>2
  <2>4. p["blockHash"] = {Engine!BlockHash(p, {w}, parent)}
    BY <1>11, <1>13, <2>2, <2>3
  <2> QED BY <1>10, <1>13, <2>3, <2>4 DEF Accepted
<1>14. ASSUME p["blockHash"] # built["blockHash"], parent = a.root,
              \A f \in F \ {"blockHash"} : p[f] = built[f], valid
       PROVE  FALSE
  <2>1. p["blockHash"] = {Engine!BlockHash(p, {w}, parent)}
    BY <1>10, <1>14 DEF Accepted
  <2>2. {w} = a.withdrawals
    BY <1>3, <1>8, <1>11, <1>14
  <2>3. Engine!BlockHash(p, a.withdrawals, a.root) = Engine!BlockHash(built, a.withdrawals, a.root)
    <3> DEFINE G == F \ {"blockHash", "withdrawals"}
    <3>1. \A f \in G : p[f] = built[f]
      BY <1>14
    <3>2. [f \in G |-> p[f]] = [f \in G |-> built[f]]
      BY <3>1
    <3> QED BY <3>2 DEF Engine!BlockHash, F, Payload
  <2> QED BY <1>11, <1>14, <2>1, <2>2, <2>3
<1>15. p["blockHash"] = built["blockHash"] =>
          /\ valid <=> /\ a.withdrawals # {} /\ p = v /\ parent = a.root
                       /\ hashes = Engine!BlobHashes(a.txs) /\ \A i \in 1 .. Len(a.txs) : a.txs[i].decodes
          /\ valid => Engine!MarshalJSON(Payload, p) = built
  BY <1>5, <1>12, <1>13
<1> QED BY <1>1, <1>14, <1>15 DEF PayloadReceived, F, built, v, valid

\* A journey is that of a document or of a payload.
JourneyInv ==
    \/ journey = [kind |-> "none"]
    \/ \E t \in JSONTypes, content \in Contents, missing \in MissingFields :
           journey = [kind |-> "document", type |-> t, doc |-> Document(t, content, missing)]
    \/ \E a, b \in Proposals, mixed \in MixedFields : \E h, p \in {a, b} :
           journey = [kind |-> "payload", of |-> a,
                      request |-> Engine!BuildNewPayloadRequest(Mixture(InBlock(a), InBlock(b), mixed),
                                                                Engine!BlobHashes(h.txs), p.root)]

\* For all documents with any fields missing, and any two payloads mixed in any way:
\* what UnmarshalJSON accepts is written back as it was, and a payload passes
\* HasValidVersionedAndBlockHashes under the block hash of the one that was built
\* only as that one, whole (payload.json.go, payload.ssz.go, requests.go:110-230).
THEOREM PayloadsKeepIdentity == JourneySpec => []PayloadKeepsIdentity
<1>1. JourneyInit => JourneyInv
  BY DEF JourneyInit, JourneyInv
<1>2. JourneyInv /\ [JourneyNext]_journey => JourneyInv'
  <2> SUFFICES ASSUME JourneyInv, JourneyNext PROVE JourneyInv'
    BY DEF JourneyInv
  <2>1. ASSUME NEW t \in JSONTypes, NEW content \in Contents, NEW missing \in MissingFields,
               ReadDocument(t, Document(t, content, missing))
        PROVE  JourneyInv'
    BY <2>1 DEF ReadDocument, JourneyInv
  <2>2. ASSUME NEW a \in Proposals, NEW b \in Proposals, NEW mixed \in MixedFields,
               NEW h \in {a, b}, NEW p \in {a, b}, ReceivePayload(a, b, mixed, h, p)
        PROVE  JourneyInv'
    BY <2>2, Zenon DEF ReceivePayload, JourneyInv
  <2> QED BY <2>1, <2>2 DEF JourneyNext
<1>3. JourneyInv => PayloadKeepsIdentity
  <2> SUFFICES ASSUME JourneyInv PROVE PayloadKeepsIdentity
    OBVIOUS
  <2>1. CASE journey = [kind |-> "none"]
    BY <2>1 DEF PayloadKeepsIdentity
  <2>2. ASSUME NEW t \in JSONTypes, NEW content, NEW missing,
               journey = [kind |-> "document", type |-> t, doc |-> Document(t, content, missing)]
        PROVE  PayloadKeepsIdentity
    <3> DEFINE doc == Document(t, content, missing)
    <3>1. JSONType(t)
      BY PayloadType, HeaderType DEF JSONTypes
    <3>2. doc = [f \in Engine!Fields(t) |-> doc[f]]
      BY DEF Document
    <3>3. journey.kind = "document" /\ journey.type = t /\ journey.doc = doc
      BY <2>2
    <3> HIDE DEF doc
    <3>4. DocumentRead(t, doc)
      BY <3>1, <3>2, DocumentReadRight
    <3> QED BY <3>3, <3>4 DEF PayloadKeepsIdentity
  <2>3. ASSUME NEW a \in Proposals, NEW b \in Proposals, NEW mixed, NEW h \in {a, b}, NEW p \in {a, b}, NEW n,
               n = Engine!BuildNewPayloadRequest(Mixture(InBlock(a), InBlock(b), mixed),
                                                 Engine!BlobHashes(h.txs), p.root),
               journey = [kind |-> "payload", of |-> a, request |-> n]
        PROVE  PayloadKeepsIdentity
    <3>1. h \in Proposals
      OBVIOUS
    <3>2. PayloadReceived(a, n)
      BY <2>3, <3>1, PayloadReceivedRight
    <3>3. journey.kind = "payload" /\ journey.of = a /\ journey.request = n
      BY <2>3
    <3> QED BY <3>2, <3>3 DEF PayloadKeepsIdentity
  <2> QED BY <2>1, <2>2, <2>3, Zenon DEF JourneyInv
<1> QED BY <1>1, <1>2, <1>3, PTL DEF JourneySpec
=============================================================================
